-------------------------- MODULE JtagChain_proofs --------------------------
(***************************************************************************)
(* What JtagChain promises, for chains, ID codes and commands of any       *)
(* length: TypeOK, ServesTheTarget, NoStrayCommand, and that the           *)
(* dbg_cpu0_* functions implement DebugCalls, provided that the program    *)
(* stops at its first error and that the command line gives no instruction *)
(* register of one bit (SoundStart) and, but for ServesTheTarget, no other *)
(* opcode than that of DEBUG (RightOpcode).  See the README.               *)
(*                                                                         *)
(* The argument.  Every sequence of clocks the program makes is a script:  *)
(* how many clocks are to come tells where the TAPs are, what TMS is next  *)
(* and what is shifted in (OnScript).  What is in each register follows,   *)
(* part by part:                                                           *)
(*   - TapeInv: while the chain is searched, the data registers of the     *)
(*     devices and the marker behind them are a tape, which each clock     *)
(*     moves on by one bit.  What is read is what is on it, so that the    *)
(*     devices found are those of the chain (ChainKnown).  With TDO        *)
(*     stuck, none is found, or too many (Stuck).                          *)
(*   - InstructionInv: what is in the instruction register after so many   *)
(*     shifts.  The program goes on only if it has read the ID code, that  *)
(*     is, if the length of the register is right; the last instruction is *)
(*     then the one it is told to select (IrInv: DEBUG).                   *)
(*   - ShiftRegister: the debug submodule holds the command of the call,   *)
(*     or nothing that could be taken for one, whenever the TAPs may       *)
(*     leave Shift-DR, in whatever clock the program has been stopped.     *)
(*   - CallInv: how far the call is, what the CPU has been told, and       *)
(*     which bits of its answer are still to be read.                      *)
(* IInv is the conjunction of these.  Each part is shown to be preserved   *)
(* by a clock, by a step between clocks and by an answer of the CPU.       *)
(***************************************************************************)
EXTENDS JtagChain, SequenceTheorems, WellFoundedInduction, TLAPS

-----------------------------------------------------------------------------
(* Where the program is: the clocks to come, and the state of the TAPs.    *)

(* The length of the command being shifted in.                             *)
Size(c) == IF c = NoCall THEN 3 ELSE Len(CommandBits(c))

(* States from which n clocks with TMS lead to Test-Logic-Reset.           *)
Near(n) ==
    {"test_logic_reset"}
    \cup (IF n >= 1 THEN {"select_ir_scan"} ELSE {})
    \cup (IF n >= 2 THEN {"select_dr_scan"} ELSE {})
    \cup (IF n >= 3 THEN {"run_test_idle", "update_dr", "update_ir"} ELSE {})
    \cup (IF n >= 4 THEN {"exit1_dr", "exit2_dr", "exit1_ir", "exit2_ir"} ELSE {})
    \cup (IF n >= 5 THEN State ELSE {})

(* The clocks made at most at each label, with an instruction register of  *)
(* l bits and a command of m bits.                                         *)
Clocks(at, l, m) ==
    CASE at = "next device" -> 14
      [] at = "start bit" -> 1
      [] at = "manufacturer" -> ManufBits
      [] at = "rest" -> RestBits
      [] at = "configure" -> 3
      [] at = "identify" -> l + 9
      [] at = "idcode" -> IdBits
      [] at = "serving" -> l + 8
      [] at = "command" -> m + 8
      [] at \in {"ack", "error"} -> 1
      [] at = "data" -> DataBits
      [] at = "finish" -> 5
      [] at = "exit" -> 2
      [] OTHER -> 0

(* Those with TMS, counted from the last one, which is clock 1.            *)
HasTms(at, l, m) ==
    CASE at = "next device" -> 6 .. 13 \cup {3}
      [] at = "configure" -> {2, 3}
      [] at = "identify" -> {3, 5, 6, l + 8, l + 9}
      [] at = "idcode" -> {1}
      [] at = "serving" -> {2, 3, l + 5, l + 6, l + 8}
      [] at = "command" -> {3, 5, 6, m + 8}
      [] at = "finish" -> {2, 3}
      [] at = "exit" -> {2}
      [] OTHER -> {}

(* The states the TAPs may be in when r clocks are to come.                *)
WhereReset(r) ==
    CASE r = 0 -> {"shift_dr"}
      [] r = 1 -> {"capture_dr"}
      [] r = 2 -> {"select_dr_scan"}
      [] r = 3 -> {"run_test_idle"}
      [] r = 4 -> {"test_logic_reset", "run_test_idle"}
      [] r \in 5 .. 7 -> {"test_logic_reset"}
      [] r >= 8 -> Near(r - 8)
      [] OTHER -> {}
WhereIdentify(l, r) ==
    CASE r = 0 -> {"shift_dr"}
      [] r = 1 -> {"capture_dr"}
      [] r = 2 -> {"select_dr_scan"}
      [] r = 3 -> {"run_test_idle"}
      [] r = 4 -> {"update_ir"}
      [] r = 5 -> {"exit1_ir"}
      [] r \in 6 .. l + 5 -> {"shift_ir"}
      [] r = l + 6 -> {"capture_ir"}
      [] r = l + 7 -> {"select_ir_scan"}
      [] r = l + 8 -> {"select_dr_scan"}
      [] r = l + 9 -> {"run_test_idle"}
      [] OTHER -> {}
WhereServing(l, r) ==
    CASE r = 0 -> {"run_test_idle"}
      [] r = 1 -> {"update_ir"}
      [] r = 2 -> {"exit1_ir"}
      [] r \in 3 .. l + 2 -> {"shift_ir"}
      [] r = l + 3 -> {"capture_ir"}
      [] r = l + 4 -> {"select_ir_scan"}
      [] r = l + 5 -> {"select_dr_scan"}
      [] r = l + 6 -> {"run_test_idle"}
      [] r = l + 7 -> {"update_dr"}
      [] r = l + 8 -> {"exit1_dr"}
      [] OTHER -> {}
WhereCommand(m, r) ==
    CASE r = 0 -> {"shift_dr"}
      [] r = 1 -> {"capture_dr"}
      [] r = 2 -> {"select_dr_scan"}
      [] r = 3 -> {"run_test_idle"}
      [] r = 4 -> {"update_dr"}
      [] r = 5 -> {"exit1_dr"}
      [] r \in 6 .. m + 5 -> {"shift_dr"}
      [] r = m + 6 -> {"capture_dr"}
      [] r = m + 7 -> {"select_dr_scan"}
      [] r = m + 8 -> {"run_test_idle"}
      [] OTHER -> {}
WhereEnding(r) ==
    CASE r = 0 -> {"run_test_idle"}
      [] r = 1 -> {"update_dr"}
      [] r = 2 -> {"exit1_dr"}
      [] OTHER -> {"shift_dr"}
Where(at, l, m, r) ==
    CASE at = "next device" -> WhereReset(r)
      [] at = "identify" -> WhereIdentify(l, r)
      [] at = "idcode" -> IF r = 0 THEN {"exit1_dr"} ELSE {"shift_dr"}
      [] at = "serving" -> WhereServing(l, r)
      [] at = "command" -> WhereCommand(m, r)
      [] at \in {"configure", "finish"} -> WhereEnding(r)
      [] at = "exit" -> IF r = 0 THEN State ELSE WhereEnding(r)
      [] at = "started" -> State
      [] OTHER -> {"shift_dr"}

(* The bit of an opcode that is shifted in as the i-th.                    *)
OpcodeBit(opcode, i) == IF i <= Len(opcode) THEN opcode[i] ELSE 0

(* What is shifted in, but for the marker of the enumeration and the last  *)
(* opcode, of which OpcodeAhead tells.                                     *)
TdiOf(at, l, c, r) ==
    CASE at = "identify" /\ r \in 6 .. l + 5 -> OpcodeBit(Opcode.IDCODE, l + 6 - r)
      [] at = "command" /\ r \in 6 .. Size(c) + 5 -> CommandBits(c)[Size(c) + 6 - r]
      [] OTHER -> 0

Enumerating == {"start bit", "manufacturer", "rest"}
Varied == Enumerating \cup {"serving"}
FollowsScript(at, l, c, q) ==
    /\ q \in Seq(Packet) /\ Len(q) <= Clocks(at, l, Size(c))
    /\ \A i \in 1 .. Len(q) :
         LET r == Len(q) + 1 - i
         IN  /\ q[i].tms = IF r \in HasTms(at, l, Size(c)) THEN 1 ELSE 0
             /\ q[i].trst <=> (at = "next device" /\ r = 5)
             /\ at \notin Varied => q[i].tdi = TdiOf(at, l, c, r)

(* Configured only: the length of the IR is known.                         *)
IrBits == IF pc \in {"identify", "idcode", "serving"} THEN get_IR_size ELSE 1

OnScript ==
    /\ FollowsScript(pc, IrBits, call, todo)
    /\ tap \in Where(pc, IrBits, Size(call), Len(todo))
    /\ pc \in {"started", "enumerated"} => todo = <<>>

-----------------------------------------------------------------------------
(* Registers.                                                              *)
DataRegister == BitString(1) \cup BitString(IdBits)
Device == [ir : {<<>>} \cup BitString(IrLength), dr : {<<>>} \cup DataRegister,
           instruction : BitString(IrLength)]
Loaded == Bits \cup {X}
SprCommand == [kind : {"read"}, spr : [1 .. SprBits -> Loaded]]
              \cup [kind : {"write"}, spr : [1 .. SprBits -> Loaded],
                    data : [1 .. DataBits -> Loaded]]
Submodule == [busy : BOOLEAN, cmd : {NoCall} \cup SprCommand, answer : {NoCall} \cup Answer,
              in : [1 .. ShiftRegLen -> Loaded], out : BitString(2 + DataBits)]

ShiftsDr == {"shift_dr", "exit1_dr", "pause_dr", "exit2_dr"}
ShiftsIr == {"shift_ir", "exit1_ir", "pause_ir", "exit2_ir", "update_ir"}
Typed(t, d) ==
    /\ d \in Device
    /\ t \in ShiftsIr => d.ir \in BitString(IrLength)
    /\ t \in ShiftsDr /\ ~Debugging(d) => d.dr \in DataRegister
Types ==
    /\ devs \in [1 .. Len(setup.chain) -> Device]
    /\ \A i \in 1 .. Len(setup.chain) : Typed(tap, devs[i])
    /\ dbg \in Submodule
    /\ got \in Seq(Bits)
    /\ discovered \in Seq({<<>>} \cup BitString(IdBits)) /\ Len(discovered) <= MaxDevices
    /\ pc = "rest" => kept \in BitString(ManufBits)
    /\ pc \in Enumerating => Len(discovered) < MaxDevices

(* What the program knows once it is configured.                           *)
IsConfigured ==
    /\ Len(discovered) = 1 /\ setup.target = 0
    /\ KnowsTarget /\ get_IR_size \in Nat \ {0}
    /\ get_debug_cmd \in Seq(Bits) /\ get_debug_cmd # <<>>
Configured == pc \in {"identify", "idcode", "serving"} \/ InCall => IsConfigured

(* The setup, where the program is and what it has been called for.        *)
AnyCall == Calls \cup {NoCall}
Base ==
    /\ setup \in Setups /\ tap \in State /\ pc \in Labels
    /\ call \in AnyCall /\ (InCall => call \in Calls)
    /\ sent \in 0 .. MarkerBits
    /\ Configured

(* How many bits have been read, and are to be read, at each label.        *)
ReadsAll ==
    /\ pc = "start bit" => Len(got) + Len(todo) = 1
    /\ pc = "manufacturer" => Len(got) + Len(todo) = ManufBits
    /\ pc = "rest" => Len(got) + Len(todo) = RestBits
    /\ pc = "idcode" => Len(got) + Len(todo) = IdBits
    /\ pc \in {"ack", "error"} => Len(got) + Len(todo) = 1
    /\ pc = "data" => Len(got) + Len(todo) = DataBits

-----------------------------------------------------------------------------
(* The enumeration: what is read is a tape, the registers of the devices   *)
(* one behind the other and then the marker.                               *)
Id(s, i) == IdCode[s.chain[i]]
Held(s, i) == IF Id(s, i) = <<>> THEN <<0>> ELSE Id(s, i)
Offsets(s, f) ==
    /\ f \in [1 .. Len(s.chain) + 1 -> Nat] /\ f[1] = 0
    /\ \A i \in 1 .. Len(s.chain) : f[i + 1] = f[i] + Len(Held(s, i))
Offset(s) == CHOOSE f : Offsets(s, f)
Marker(i) == IF i <= MarkerBits THEN 1 ELSE 0
MarkerSoFar(n) == IF n < MarkerBits THEN n ELSE MarkerBits
OnTape(s, t, b) ==
    /\ \A i \in 1 .. Len(s.chain) : \A k \in 1 .. Len(Held(s, i)) :
          t = Offset(s)[i] + k => b = Held(s, i)[k]
    /\ t > Offset(s)[Len(s.chain) + 1] => b = Marker(t - Offset(s)[Len(s.chain) + 1])

(* After n clocks in Shift-DR.                                             *)
Registers(s, n, ds) ==
    \A i \in 1 .. Len(s.chain) :
        /\ Len(ds[i].dr) = Len(Held(s, i))
        /\ \A k \in 1 .. Len(Held(s, i)) : OnTape(s, n + Offset(s)[i] + k, ds[i].dr[k])
MarkerAhead(n, q, k) ==
    /\ \A i \in 1 .. Len(q) : q[i].tdi = Marker(n + i)
    /\ k = MarkerSoFar(n + Len(q))
BitsRead(s, n, bits) == \A j \in 1 .. Len(bits) : OnTape(s, n + j, bits[j])

(* From Test-Logic-Reset to the first shift of the instruction registers.  *)
ResetAt(at, r) ==
    \/ at = "next device" /\ r <= 7
    \/ at \in {"start bit", "manufacturer", "rest", "enumerated", "configure"}
    \/ at = "identify" /\ r >= 4
IsReset == ResetAt(pc, Len(todo))
HasFirst(s, i, d) ==
    d.instruction = IF Id(s, i) = <<>> THEN Opcode.BYPASS ELSE Opcode.IDCODE
InstructionsReset ==
    IsReset => \A i \in 1 .. Len(setup.chain) : HasFirst(setup, i, devs[i])

(* The devices found are those of the chain, as far as the search has got. *)
Found ==
    /\ Len(discovered) <= Len(setup.chain)
    /\ \A j \in 1 .. Len(discovered) : discovered[j] = Id(setup, j)
(* Where on the tape the bits begin that are being read.                   *)
Passed == Offset(setup)[Len(discovered) + 1]
From == CASE pc = "manufacturer" -> Passed + 1
          [] pc = "rest" -> Passed + 1 + ManufBits
          [] OTHER -> Passed
Shifted == From + Len(got)
Searching == pc \in Enumerating \/ (pc = "next device" /\ todo = <<>>)
TapeGood ==
    /\ Found
    /\ Registers(setup, Shifted, devs)
    /\ MarkerAhead(Shifted, todo, sent)
    /\ BitsRead(setup, From, got)
    /\ pc \in {"manufacturer", "rest"} => OnTape(setup, Passed + 1, 1)
    /\ pc = "rest" => BitsRead(setup, Passed + 1, kept) /\ kept # DoneCode
TapeInv ==
    /\ pc = "started" \/ (pc = "next device" /\ todo # <<>>) => discovered = <<>> /\ sent = 0
    /\ pc = "next device" => got = <<>>
    /\ setup.tdo = "ok" /\ Searching => TapeGood
    /\ setup.tdo = "ok" /\ pc = "enumerated" =>
         Found /\ Len(discovered) \in {MaxDevices, Len(setup.chain)}

(* With the output stuck, nothing is ever found, or too much.              *)
StuckBits(bits) == \A j \in 1 .. Len(bits) : bits[j] = IF setup.tdo = "0" THEN 0 ELSE 1
Stuck ==
    setup.tdo # "ok" =>
        /\ pc \in Enumerating => StuckBits(got)
        /\ setup.tdo = "0" => pc \notin {"manufacturer", "rest"}
        /\ pc = "enumerated" => Len(discovered) = MaxDevices

ChainKnown ==
    pc \in {"configure", "identify", "idcode", "serving"} \/ InCall =>
        /\ setup.tdo = "ok" /\ Found /\ Len(discovered) = Len(setup.chain)

-----------------------------------------------------------------------------
(* The instruction register.                                               *)
(* What has been shifted into the IR, behind what it captures.             *)
IrTape(opcode, t) == IF t <= 4 THEN <<1, 0, 1, 0>>[t] ELSE OpcodeBit(opcode, t - 4)
Window(opcode, n) == [j \in 1 .. IrLength |-> IrTape(opcode, n + j)]
IdentifyAt(l, r, d) ==
    /\ r \in 5 .. l + 5 => d.ir = Window(Opcode.IDCODE, l + 5 - r)
    /\ r = 4 => d.ir = Window(Opcode.IDCODE, l)
    /\ r <= 3 => d.instruction = Window(Opcode.IDCODE, l)
    /\ r = 0 /\ d.instruction # Opcode.IDCODE => d.dr = <<0>>
IdentifyInv == pc = "identify" => IdentifyAt(get_IR_size, Len(todo), devs[1])
IdCodeInv ==
    pc = "idcode" =>
        /\ devs[1].instruction = Window(Opcode.IDCODE, get_IR_size)
        /\ devs[1].instruction # Opcode.IDCODE =>
             IF got = <<>> THEN devs[1].dr = <<0>> ELSE got[1] = 0
ServingAt(o, l, r, d) ==
    /\ l = IrLength /\ d.instruction = Opcode.IDCODE
    /\ r \in 2 .. l + 2 => d.ir = Window(o, l + 2 - r)
    /\ r = 1 => d.ir = Window(o, l)
OpcodeAhead(o, l, q) ==
    \A i \in 1 .. Len(q) :
        LET r == Len(q) + 1 - i
        IN  q[i].tdi = IF r \in 3 .. l + 2 THEN OpcodeBit(o, l + 3 - r) ELSE 0
ServingInv ==
    pc = "serving" /\ todo # <<>> =>
        /\ ServingAt(get_debug_cmd, get_IR_size, Len(todo), devs[1])
        /\ OpcodeAhead(get_debug_cmd, get_IR_size, todo)
OpcodeSelected ==
    (pc = "serving" /\ todo = <<>>) \/ InCall => devs[1].instruction = Instruction(setup)
InstructionInv == IdentifyInv /\ IdCodeInv /\ ServingInv /\ OpcodeSelected

(* With no other opcode given, it is the DEBUG instruction.                *)
RightOpcode == \A s \in Setups : Instruction(s) = Opcode.DEBUG
DebugSelected ==
    (pc = "serving" /\ todo = <<>>) \/ InCall => Debugging(devs[1])
IrInv == InstructionInv /\ DebugSelected

-----------------------------------------------------------------------------
(* The debug submodule.                                                    *)
OnlyUnset(in) == \A i \in 1 .. ShiftRegLen : in[i] = X
Unset(in) ==
    \A i \in 1 .. ShiftRegLen :
        in[i] \in {X, 0} /\ (in[i] = 0 => \A j \in i .. ShiftRegLen : in[j] = 0)
EndsInZeros(in) == in[ShiftRegLen - 1] = 0 /\ in[ShiftRegLen] = 0
Harmless(in) == Unset(in) \/ EndsInZeros(in)
HoldsFirst(in, bits, n) ==
    \A j \in 1 .. n : in[ShiftRegLen - n + j] = bits[j]
HoldsCall(in, c) == c # NoCall /\ HoldsFirst(in, CommandBits(c), Len(CommandBits(c)))

Dormant ==
    \/ IsReset \/ pc \in {"identify", "idcode"}
    \/ pc = "serving" /\ todo # <<>>
ShiftRegister ==
    /\ Dormant => OnlyUnset(dbg.in) /\ ~Debugging(devs[1])
    /\ pc = "serving" => Harmless(dbg.in) /\ ~dbg.busy
    /\ Dormant => ~dbg.busy
    /\ pc = "command" =>
         IF Len(todo) > Size(call) + 5 THEN Harmless(dbg.in)
         ELSE IF Len(todo) > 5
              THEN HoldsFirst(dbg.in, CommandBits(call), Size(call) + 5 - Len(todo))
              ELSE HoldsCall(dbg.in, call)
    /\ pc = "next device" /\ Len(todo) = 13 /\ tap = "shift_dr" =>
         Unset(dbg.in) \/ dbg.in[ShiftRegLen] = 0
    /\ tap # "shift_dr" \/ pc \notin {"command", "exit", "started", "next device"} =>
         Harmless(dbg.in) \/ HoldsCall(dbg.in, call)
    /\ pc = "finish" /\ Len(todo) <= 5 =>
         \A i \in 0 .. 2 : i < 5 - Len(todo) => dbg.in[ShiftRegLen - i] = 0

-----------------------------------------------------------------------------
(* A call.                                                                 *)
Latched(a) ==
    ~dbg.busy /\ taken = <<[cmd |-> Promise!Command(call), answer |-> a]>>
NoAnswerYet ==
    /\ dbg.busy /\ dbg.answer = NoCall /\ dbg.cmd = Promise!Command(call)
    /\ taken = <<>> /\ dbg.out = Zeros(2 + DataBits)
AnswerPending ==
    /\ dbg.busy /\ dbg.answer # NoCall
    /\ taken = <<[cmd |-> Promise!Command(call), answer |-> dbg.answer]>>
    /\ dbg.out = Zeros(2 + DataBits)
OutBits(a) == <<1, a.err>> \o (IF a.err = 1 THEN Zeros(DataBits) ELSE a.data)
(* n bits of the answer have been shifted out.                             *)
AnswerOut(n) ==
    \E a \in Answer : Latched(a) /\ \A j \in 1 .. 2 + DataBits - n : dbg.out[j] = OutBits(a)[n + j]
Waiting ==
    IF call.kind = "stalled"
      THEN \E b \in Bits : Latched([stalled |-> b]) /\ dbg.out[1] = b
      ELSE NoAnswerYet \/ AnswerPending \/ AnswerOut(0)
CallInv ==
    /\ ~InCall => taken = <<>>
    /\ pc = "command" => IF Len(todo) > 3 THEN taken = <<>> /\ ~dbg.busy ELSE Waiting
    /\ pc = "ack" /\ todo # <<>> => Waiting
    /\ pc = "ack" /\ todo = <<>> =>
         IF call.kind = "stalled" THEN Latched([stalled |-> got[1]])
         ELSE IF got[1] = 0 THEN Waiting ELSE AnswerOut(1)
    /\ pc = "error" => call.kind # "stalled"
    /\ pc = "error" /\ todo # <<>> => AnswerOut(1)
    /\ pc = "error" /\ todo = <<>> =>
         \E a \in Answer : Latched(a) /\ got[1] = a.err /\ (a.err = 0 =>
            \A j \in 1 .. DataBits : dbg.out[j] = a.data[j])
    /\ pc = "data" => call.kind \notin {"stalled", "write"} /\
         \E a \in Answer : Latched(a) /\ a.err = 0
            /\ (\A j \in 1 .. Len(got) : got[j] = a.data[j])
            /\ (\A j \in 1 .. DataBits - Len(got) : dbg.out[j] = a.data[Len(got) + j])
    /\ pc = "finish" =>
         /\ ~dbg.busy /\ Len(taken) = 1 /\ taken[1].cmd = Promise!Command(call)
         /\ kept = Promise!Result(call, taken[1].answer)

-----------------------------------------------------------------------------
(* Sequences.                                                              *)

(* A sequence of n elements is a function on 1 .. n.                       *)
LEMMA SeqOfLength ==
    ASSUME NEW S, NEW s \in Seq(S)
    PROVE  s \in [1 .. Len(s) -> S]
OBVIOUS

(* A register shifted by one bit.                                          *)
LEMMA ShiftIn ==
    ASSUME NEW n \in Nat \ {0}, NEW S, NEW s \in [1 .. n -> S], NEW x \in S
    PROVE  /\ s \in Seq(S) /\ Len(s) = n /\ Head(s) = s[1]
           /\ Append(Tail(s), x) \in [1 .. n -> S]
           /\ \A i \in 1 .. n : Append(Tail(s), x)[i] = IF i < n THEN s[i + 1] ELSE x
<1>1. s \in Seq(S) /\ Len(s) = n
  OBVIOUS
<1>2. Tail(s) \in Seq(S) /\ Len(Tail(s)) = n - 1 /\ Head(s) = s[1]
  BY <1>1
<1>3. \A i \in 1 .. n - 1 : Tail(s)[i] = s[i + 1]
  BY <1>1
<1>4. Append(Tail(s), x) \in Seq(S) /\ Len(Append(Tail(s), x)) = n
  BY <1>2
<1>5. \A i \in 1 .. n : Append(Tail(s), x)[i] = IF i < n THEN s[i + 1] ELSE x
  BY <1>2, <1>3
<1>6. Append(Tail(s), x) \in [1 .. n -> S]
  BY ONLY <1>4, SeqOfLength
<1> QED BY ONLY <1>1, <1>2, <1>5, <1>6

(* The packets of a stream.                                                *)
LEMMA StreamPackets ==
    ASSUME NEW bits \in Seq(Bits), NEW w \in BOOLEAN
    PROVE  /\ Stream(bits, w) \in Seq(Packet) /\ Len(Stream(bits, w)) = Len(bits)
           /\ \A i \in 1 .. Len(bits) :
                 /\ Stream(bits, w)[i].tdi = bits[i] /\ Stream(bits, w)[i].trst = FALSE
                 /\ Stream(bits, w)[i].tms = IF w /\ i = Len(bits) THEN 1 ELSE 0
<1> DEFINE p(i) == [tdi |-> bits[i], trst |-> FALSE,
                    tms |-> IF w /\ i = Len(bits) THEN 1 ELSE 0]
<1>0. DOMAIN bits = 1 .. Len(bits)
  OBVIOUS
<1>1. \A i \in 1 .. Len(bits) : p(i) \in Packet
  <2> SUFFICES ASSUME NEW i \in 1 .. Len(bits) PROVE p(i) \in Packet
    OBVIOUS
  <2>1. bits[i] \in {0, 1}
    BY DEF Bits
  <2> QED BY <2>1 DEF Packet
<1>2. Stream(bits, w) = [i \in 1 .. Len(bits) |-> p(i)]
  BY <1>0 DEF Stream
<1>3. Stream(bits, w) \in Seq(Packet) /\ Len(Stream(bits, w)) = Len(bits)
  BY <1>1, <1>2
<1> QED BY <1>2, <1>3

(* Three sequences of bits, one behind the other.                          *)
LEMMA BitsInThree ==
    ASSUME NEW a \in Seq(Bits), NEW b \in Seq(Bits), NEW c \in Seq(Bits)
    PROVE  /\ a \o b \o c \in Seq(Bits) /\ Len(a \o b \o c) = Len(a) + Len(b) + Len(c)
           /\ \A i \in 1 .. Len(a) + Len(b) + Len(c) :
                (a \o b \o c)[i] =
                  IF i <= Len(a) THEN a[i]
                  ELSE IF i <= Len(a) + Len(b) THEN b[i - Len(a)]
                  ELSE c[i - Len(a) - Len(b)]
<1>1. a \o b \in Seq(Bits) /\ Len(a \o b) = Len(a) + Len(b)
  OBVIOUS
<1>2. \A i \in 1 .. Len(a) + Len(b) :
         (a \o b)[i] = IF i <= Len(a) THEN a[i] ELSE b[i - Len(a)]
  OBVIOUS
<1> DEFINE d == a \o b
<1>3. d \in Seq(Bits) /\ d \o c \in Seq(Bits) /\ Len(d \o c) = Len(d) + Len(c)
  BY <1>1
<1>4. \A i \in 1 .. Len(d) + Len(c) : (d \o c)[i] = IF i <= Len(d) THEN d[i] ELSE c[i - Len(d)]
  BY <1>3
<1> QED BY <1>1, <1>2, <1>3, <1>4

(* The constants of the instance.                                          *)
LEMMA Sizes ==
    /\ ManufBits \in Nat \ {0} /\ RestBits \in Nat \ {0} /\ MaxDevices \in Nat \ {0}
    /\ SprBits \in Nat \ {0} /\ DataBits \in Nat \ {0} /\ MarkerBits \in 1 .. ManufBits
    /\ IdBits \in Nat /\ IdBits = 1 + ManufBits + RestBits
    /\ ShiftRegLen \in Nat /\ ShiftRegLen = DataBits + SprBits + 3
    /\ X # 0 /\ X # 1
<1>1. /\ {ManufBits, RestBits, MaxDevices, SprBits, DataBits} \subseteq Nat \ {0}
      /\ MarkerBits \in 1 .. ManufBits /\ X \notin {0, 1}
  BY ChainAssumption
<1> QED BY <1>1 DEF IdBits, ShiftRegLen

(* Opcodes are words.                                                      *)
LEMMA Words ==
    /\ Opcode.IDCODE = <<0, 1, 0, 0>> /\ Opcode.DEBUG = <<0, 0, 0, 1>>
    /\ Opcode.BYPASS = <<1, 1, 1, 1>>
    /\ \A a, b, c, d \in Bits : <<a, b, c, d>> \in BitString(IrLength)
    /\ \A a, b, c, d, e, f, g, h : <<a, b, c, d>> = <<e, f, g, h>> =>
         a = e /\ b = f /\ c = g /\ d = h
BY DEF Opcode, BitString, IrLength

(* The parts of the command for a read, and for a write.                   *)
LEMMA ReadParts ==
    ASSUME NEW s \in Seq(Bits), Len(s) = SprBits
    PROVE  /\ s \o <<1, 1, 0>> \in Seq(Bits) /\ Len(s \o <<1, 1, 0>>) = SprBits + 3
           /\ \A i \in 1 .. SprBits : (s \o <<1, 1, 0>>)[i] = s[i]
           /\ \A i \in 1 .. 3 : (s \o <<1, 1, 0>>)[SprBits + i] = <<1, 1, 0>>[i]
BY Sizes DEF Bits

(* A write: data, number, opcode.                                          *)
LEMMA WriteParts ==
    ASSUME NEW d \in Seq(Bits), NEW s \in Seq(Bits), Len(d) = DataBits, Len(s) = SprBits
    PROVE  /\ d \o s \o <<0, 1, 0>> \in Seq(Bits)
           /\ Len(d \o s \o <<0, 1, 0>>) = DataBits + SprBits + 3
           /\ \A i \in 1 .. DataBits : (d \o s \o <<0, 1, 0>>)[i] = d[i]
           /\ \A i \in 1 .. SprBits : (d \o s \o <<0, 1, 0>>)[DataBits + i] = s[i]
           /\ \A i \in 1 .. 3 : (d \o s \o <<0, 1, 0>>)[DataBits + SprBits + i] = <<0, 1, 0>>[i]
<1>0. SprBits \in Nat /\ DataBits \in Nat
  BY Sizes
<1> DEFINE u == d \o s
<1>1. u \in Seq(Bits) /\ Len(u) = DataBits + SprBits
  BY <1>0
<1>2. \A i \in 1 .. DataBits : u[i] = d[i]
  BY <1>0
<1>3. \A i \in 1 .. SprBits : u[DataBits + i] = s[i]
  BY <1>0
<1> HIDE DEF u
<1>4. u \o <<0, 1, 0>> \in Seq(Bits) /\ Len(u \o <<0, 1, 0>>) = DataBits + SprBits + 3
  BY <1>0, <1>1 DEF Bits
<1>5. \A i \in 1 .. DataBits + SprBits : (u \o <<0, 1, 0>>)[i] = u[i]
  BY <1>0, <1>1
<1>6. \A i \in 1 .. 3 : (u \o <<0, 1, 0>>)[DataBits + SprBits + i] = <<0, 1, 0>>[i]
  <2> DEFINE n == DataBits + SprBits
  <2>1. n \in Nat /\ Len(u) = n
    BY <1>0, <1>1
  <2> HIDE DEF n
  <2>2. \A i \in 1 .. 3 : (u \o <<0, 1, 0>>)[n + i] = <<0, 1, 0>>[i]
    BY <1>1, <2>1
  <2> QED BY <2>2, Zenon DEF n
<1>7. ASSUME NEW i \in 1 .. DataBits PROVE (u \o <<0, 1, 0>>)[i] = d[i]
  <2>1. i \in 1 .. DataBits + SprBits
    BY <1>0
  <2> QED BY <1>2, <1>5, <2>1
<1>8. ASSUME NEW i \in 1 .. SprBits PROVE (u \o <<0, 1, 0>>)[DataBits + i] = s[i]
  <2>1. DataBits + i \in 1 .. DataBits + SprBits
    BY <1>0
  <2> QED BY <1>3, <1>5, <2>1
<1> QED BY <1>4, <1>6, <1>7, <1>8 DEF u

(* A command and the bits it is.                                           *)
LEMMA CommandIs ==
    ASSUME NEW c \in Calls
    PROVE  /\ CommandBits(c) \in Seq(Bits) /\ Size(c) = Len(CommandBits(c))
           /\ c \in Request /\ c # NoCall
           /\ c.kind = "stalled" => CommandBits(c) = <<1, 0, 0>>
           /\ c.kind # "stalled" => c.spr \in BitString(SprBits)
           /\ c.kind = "read" =>
                /\ Len(CommandBits(c)) = SprBits + 3
                /\ \A i \in 1 .. SprBits : CommandBits(c)[i] = c.spr[i]
                /\ \A i \in 1 .. 3 : CommandBits(c)[SprBits + i] = <<1, 1, 0>>[i]
           /\ c.kind \notin {"stalled", "read"} =>
                /\ c.data \in BitString(DataBits)
                /\ Len(CommandBits(c)) = DataBits + SprBits + 3
                /\ \A i \in 1 .. DataBits : CommandBits(c)[i] = c.data[i]
                /\ \A i \in 1 .. SprBits : CommandBits(c)[DataBits + i] = c.spr[i]
                /\ \A i \in 1 .. 3 : CommandBits(c)[DataBits + SprBits + i] = <<0, 1, 0>>[i]
           /\ c.kind \in {"stalled", "read", "write", "write and read"}
<1>0. SprBits \in Nat /\ DataBits \in Nat /\ 3 \in Nat
  BY Sizes
<1>1. c \in Request /\ c # NoCall
  BY CallAssumption
<1>2. Size(c) = Len(CommandBits(c))
  BY <1>1 DEF Size
<1>3. <<1, 0, 0>> \in Seq(Bits) /\ <<1, 1, 0>> \in Seq(Bits) /\ <<0, 1, 0>> \in Seq(Bits)
  BY DEF Bits
<1>4. \A n \in Nat : \A s \in BitString(n) : s \in Seq(Bits) /\ Len(s) = n
  BY DEF BitString
<1>5. CASE c.kind = "stalled"
  <2>1. CommandBits(c) = <<1, 0, 0>>
    BY <1>5 DEF CommandBits, Cmd
  <2> QED BY <1>1, <1>2, <1>3, <1>5, <2>1
<1>6. CASE c.kind = "read"
  <2>0. c \in [kind : {"read"}, spr : BitString(SprBits)]
    <3>1. c # [kind |-> "stalled"]
      BY <1>6
    <3>2. c \notin [kind : {"write", "write and read"}, spr : BitString(SprBits),
                    data : BitString(DataBits)]
      BY <1>6
    <3> QED BY <1>1, <3>1, <3>2 DEF Request
  <2>1. c.spr \in BitString(SprBits)
    BY <2>0
  <2>2. CommandBits(c) = c.spr \o <<1, 1, 0>>
    BY <1>6 DEF CommandBits, Cmd
  <2>3. c.spr \in Seq(Bits) /\ Len(c.spr) = SprBits
    BY <1>0, <1>4, <2>1
  <2>5. /\ CommandBits(c) \in Seq(Bits) /\ Len(CommandBits(c)) = SprBits + 3
        /\ \A i \in 1 .. SprBits : CommandBits(c)[i] = c.spr[i]
        /\ \A i \in 1 .. 3 : CommandBits(c)[SprBits + i] = <<1, 1, 0>>[i]
    <3>1. c.spr \o <<1, 1, 0>> \in Seq(Bits) /\ Len(c.spr \o <<1, 1, 0>>) = SprBits + 3
      BY <2>3, ReadParts
    <3>2. \A i \in 1 .. SprBits : (c.spr \o <<1, 1, 0>>)[i] = c.spr[i]
      BY <2>3, ReadParts
    <3>3. \A i \in 1 .. 3 : (c.spr \o <<1, 1, 0>>)[SprBits + i] = <<1, 1, 0>>[i]
      BY <2>3, ReadParts
    <3> QED BY <2>2, <3>1, <3>2, <3>3, Zenon
  <2> QED BY <1>1, <1>2, <1>6, <2>1, <2>5
<1>7. CASE c.kind \notin {"stalled", "read"}
  <2>0. c \in [kind : {"write", "write and read"}, spr : BitString(SprBits),
               data : BitString(DataBits)]
    <3>1. c # [kind |-> "stalled"] /\ c \notin [kind : {"read"}, spr : BitString(SprBits)]
      BY <1>7
    <3> QED BY <1>1, <3>1 DEF Request
  <2>1. c.spr \in BitString(SprBits) /\ c.data \in BitString(DataBits)
        /\ c.kind \in {"write", "write and read"}
    BY <2>0
  <2>2. CommandBits(c) = c.data \o c.spr \o <<0, 1, 0>>
    BY <1>7 DEF CommandBits, Cmd
  <2>3. /\ c.spr \in Seq(Bits) /\ Len(c.spr) = SprBits
        /\ c.data \in Seq(Bits) /\ Len(c.data) = DataBits
    BY <1>0, <1>4, <2>1
  <2>5. /\ CommandBits(c) \in Seq(Bits) /\ Len(CommandBits(c)) = DataBits + SprBits + 3
        /\ \A i \in 1 .. DataBits : CommandBits(c)[i] = c.data[i]
        /\ \A i \in 1 .. SprBits : CommandBits(c)[DataBits + i] = c.spr[i]
        /\ \A i \in 1 .. 3 : CommandBits(c)[DataBits + SprBits + i] = <<0, 1, 0>>[i]
    <3> DEFINE w == c.data \o c.spr \o <<0, 1, 0>>
    <3>1. w \in Seq(Bits) /\ Len(w) = DataBits + SprBits + 3
      BY <2>3, WriteParts
    <3>2. \A i \in 1 .. DataBits : w[i] = c.data[i]
      BY <2>3, WriteParts
    <3>3. \A i \in 1 .. SprBits : w[DataBits + i] = c.spr[i]
      BY <2>3, WriteParts
    <3>4. \A i \in 1 .. 3 : w[DataBits + SprBits + i] = <<0, 1, 0>>[i]
      BY <2>3, WriteParts
    <3> QED BY <2>2, <3>1, <3>2, <3>3, <3>4, Zenon
  <2> QED BY <1>1, <1>2, <1>7, <2>1, <2>5
<1> QED BY <1>5, <1>6, <1>7

-----------------------------------------------------------------------------
(* The states of the TAP controller.                                       *)
LEMMA States ==
    State =
        {"test_logic_reset", "run_test_idle", "select_dr_scan", "capture_dr",
         "shift_dr", "exit1_dr", "pause_dr", "exit2_dr", "update_dr", "select_ir_scan",
         "capture_ir", "shift_ir", "exit1_ir", "pause_ir", "exit2_ir", "update_ir"}
BY DEF State, get_next_state

(* Where a clock leads.                                                    *)
LEMMA AfterTable ==
    /\ After("test_logic_reset", 0) = "run_test_idle"
    /\ After("test_logic_reset", 1) = "test_logic_reset"
    /\ After("run_test_idle", 0) = "run_test_idle" /\ After("run_test_idle", 1) = "select_dr_scan"
    /\ After("select_dr_scan", 0) = "capture_dr" /\ After("select_dr_scan", 1) = "select_ir_scan"
    /\ After("capture_dr", 0) = "shift_dr" /\ After("capture_dr", 1) = "exit1_dr"
    /\ After("shift_dr", 0) = "shift_dr" /\ After("shift_dr", 1) = "exit1_dr"
    /\ After("exit1_dr", 0) = "pause_dr" /\ After("exit1_dr", 1) = "update_dr"
    /\ After("pause_dr", 0) = "pause_dr" /\ After("pause_dr", 1) = "exit2_dr"
    /\ After("exit2_dr", 0) = "shift_dr" /\ After("exit2_dr", 1) = "update_dr"
    /\ After("update_dr", 0) = "run_test_idle" /\ After("update_dr", 1) = "select_dr_scan"
    /\ After("select_ir_scan", 0) = "capture_ir" /\ After("select_ir_scan", 1) = "test_logic_reset"
    /\ After("capture_ir", 0) = "shift_ir" /\ After("capture_ir", 1) = "exit1_ir"
    /\ After("shift_ir", 0) = "shift_ir" /\ After("shift_ir", 1) = "exit1_ir"
    /\ After("exit1_ir", 0) = "pause_ir" /\ After("exit1_ir", 1) = "update_ir"
    /\ After("pause_ir", 0) = "pause_ir" /\ After("pause_ir", 1) = "exit2_ir"
    /\ After("exit2_ir", 0) = "shift_ir" /\ After("exit2_ir", 1) = "update_ir"
    /\ After("update_ir", 0) = "run_test_idle" /\ After("update_ir", 1) = "select_dr_scan"
<1>1. /\ After("test_logic_reset", 0) = "run_test_idle"
      /\ After("test_logic_reset", 1) = "test_logic_reset"
  BY DEF After, get_next_state
<1>2. After("run_test_idle", 0) = "run_test_idle" /\ After("run_test_idle", 1) = "select_dr_scan"
  BY DEF After, get_next_state
<1>3. After("select_dr_scan", 0) = "capture_dr" /\ After("select_dr_scan", 1) = "select_ir_scan"
  BY DEF After, get_next_state
<1>4. After("capture_dr", 0) = "shift_dr" /\ After("capture_dr", 1) = "exit1_dr"
  BY DEF After, get_next_state
<1>5. After("shift_dr", 0) = "shift_dr" /\ After("shift_dr", 1) = "exit1_dr"
  BY DEF After, get_next_state
<1>6. After("exit1_dr", 0) = "pause_dr" /\ After("exit1_dr", 1) = "update_dr"
  BY DEF After, get_next_state
<1>7. After("pause_dr", 0) = "pause_dr" /\ After("pause_dr", 1) = "exit2_dr"
  BY DEF After, get_next_state
<1>8. After("exit2_dr", 0) = "shift_dr" /\ After("exit2_dr", 1) = "update_dr"
  BY DEF After, get_next_state
<1>9. After("update_dr", 0) = "run_test_idle" /\ After("update_dr", 1) = "select_dr_scan"
  BY DEF After, get_next_state
<1>10. After("select_ir_scan", 0) = "capture_ir" /\ After("select_ir_scan", 1) = "test_logic_reset"
  BY DEF After, get_next_state
<1>11. After("capture_ir", 0) = "shift_ir" /\ After("capture_ir", 1) = "exit1_ir"
  BY DEF After, get_next_state
<1>12. After("shift_ir", 0) = "shift_ir" /\ After("shift_ir", 1) = "exit1_ir"
  BY DEF After, get_next_state
<1>13. After("exit1_ir", 0) = "pause_ir" /\ After("exit1_ir", 1) = "update_ir"
  BY DEF After, get_next_state
<1>14. After("pause_ir", 0) = "pause_ir" /\ After("pause_ir", 1) = "exit2_ir"
  BY DEF After, get_next_state
<1>15. After("exit2_ir", 0) = "shift_ir" /\ After("exit2_ir", 1) = "update_ir"
  BY DEF After, get_next_state
<1>16. After("update_ir", 0) = "run_test_idle" /\ After("update_ir", 1) = "select_dr_scan"
  BY DEF After, get_next_state
<1> QED BY <1>1, <1>2, <1>3, <1>4, <1>5, <1>6, <1>7, <1>8,
           <1>9, <1>10, <1>11, <1>12, <1>13, <1>14, <1>15, <1>16

(* A clock leads from a state of the TAP to a state.                       *)
LEMMA AfterIsState == \A s \in State, tms \in {0, 1} : After(s, tms) \in State
BY States, AfterTable

(* A clock with TMS leads nearer to Test-Logic-Reset.                      *)
LEMMA Nearer ==
    ASSUME NEW n \in Nat, NEW s \in Near(n)
    PROVE  /\ s \in State
           /\ n > 0 => After(s, 1) \in Near(n - 1)
           /\ n = 0 => After(s, 1) = "test_logic_reset"
<1>1. s \in State
  BY States DEF Near
<1>2. CASE n = 0
  BY <1>1, <1>2, AfterTable DEF Near
<1>3. CASE n = 1
  BY <1>1, <1>3, AfterTable DEF Near
<1>4. CASE n = 2
  BY <1>1, <1>4, AfterTable DEF Near
<1>5. CASE n = 3
  BY <1>1, <1>5, AfterTable DEF Near
<1>6. CASE n = 4
  BY <1>1, <1>6, AfterTable DEF Near
<1>7. CASE n = 5
  BY <1>1, <1>7, States, AfterTable DEF Near
<1>8. CASE n > 5
  <2>1. n - 1 >= 5 /\ After(s, 1) \in State
    BY <1>1, <1>8, AfterIsState
  <2> QED BY <1>1, <1>8, <2>1 DEF Near
<1> QED BY <1>2, <1>3, <1>4, <1>5, <1>6, <1>7, <1>8

(* The script of the reset leads through the states it is meant to.        *)
LEMMA ResetScript ==
    ASSUME NEW r \in 1 .. 14, NEW t \in WhereReset(r)
    PROVE  /\ t \in State
           /\ After(t, IF r \in 6 .. 13 \cup {3} THEN 1 ELSE 0) \in WhereReset(r - 1)
           /\ r = 5 => "test_logic_reset" \in WhereReset(4)
<1>1. CASE r \in 1 .. 3
  BY <1>1, States, AfterTable DEF WhereReset
<1>2. CASE r \in 4 .. 7
  BY <1>2, States, AfterTable DEF WhereReset
<1>3. CASE r = 8
  BY <1>3, States, AfterTable DEF WhereReset, Near
<1>4. CASE r \in 9 .. 13
  <2>1. t \in Near(r - 8) /\ r - 8 \in Nat /\ r - 8 > 0 /\ (r - 1) - 8 = (r - 8) - 1
        /\ r \in 6 .. 13 \cup {3} /\ r - 1 >= 8
    BY <1>4 DEF WhereReset
  <2>2. t \in State /\ After(t, 1) \in Near((r - 8) - 1)
    BY <2>1, Nearer
  <2>3. WhereReset(r - 1) = Near((r - 8) - 1)
    BY <2>1, <1>4 DEF WhereReset
  <2> QED BY <1>4, <2>1, <2>2, <2>3
<1>5. CASE r = 14
  <2>1. t \in Near(6) /\ r \notin 6 .. 13 \cup {3} /\ WhereReset(13) = Near(5)
    BY <1>5 DEF WhereReset
  <2>2. t \in State /\ Near(5) = State
    BY <2>1, States DEF Near
  <2>3. After(t, 0) \in State
    BY <2>2, AfterIsState
  <2> QED BY <1>5, <2>1, <2>2, <2>3
<1> QED BY <1>1, <1>2, <1>3, <1>4, <1>5

(* So does each of the others.                                             *)
LEMMA IdentifyScript ==
    ASSUME NEW l \in Nat \ {0}, NEW r \in 1 .. l + 9, NEW t \in WhereIdentify(l, r)
    PROVE  /\ t \in State
           /\ After(t, IF r \in {3, 5, 6, l + 8, l + 9} THEN 1 ELSE 0) \in WhereIdentify(l, r - 1)
<1>1. CASE r \in 1 .. 5
  BY <1>1, States, AfterTable DEF WhereIdentify
<1>2. CASE r \in 6 .. l + 5
  <2>1. t = "shift_ir"
    BY <1>2 DEF WhereIdentify
  <2>2. r = 6 => "exit1_ir" \in WhereIdentify(l, r - 1)
    BY DEF WhereIdentify
  <2>3. r # 6 => "shift_ir" \in WhereIdentify(l, r - 1) /\ r \notin {3, 5, 6, l + 8, l + 9}
    BY <1>2 DEF WhereIdentify
  <2> QED BY <2>1, <2>2, <2>3, States, AfterTable
<1>3. CASE r \in l + 6 .. l + 9
  <2>1. CASE r = l + 6
    <3>1. t = "capture_ir" /\ "shift_ir" \in WhereIdentify(l, r - 1)
          /\ r \notin {3, 5, 6, l + 8, l + 9}
      BY <2>1 DEF WhereIdentify
    <3> QED BY <3>1, States, AfterTable
  <2>2. CASE r = l + 7
    <3>1. t = "select_ir_scan" /\ "capture_ir" \in WhereIdentify(l, r - 1)
          /\ r \notin {3, 5, 6, l + 8, l + 9}
      BY <2>2 DEF WhereIdentify
    <3> QED BY <3>1, States, AfterTable
  <2>3. CASE r = l + 8
    <3>1. t = "select_dr_scan" /\ "select_ir_scan" \in WhereIdentify(l, r - 1)
      BY <2>3 DEF WhereIdentify
    <3> QED BY <2>3, <3>1, States, AfterTable
  <2>4. CASE r = l + 9
    <3>1. t = "run_test_idle" /\ "select_dr_scan" \in WhereIdentify(l, r - 1)
      BY <2>4 DEF WhereIdentify
    <3> QED BY <2>4, <3>1, States, AfterTable
  <2> QED BY <1>3, <2>1, <2>2, <2>3, <2>4
<1> QED BY <1>1, <1>2, <1>3

(* The same on the way to the DEBUG instruction,                           *)
LEMMA ServingScript ==
    ASSUME NEW l \in Nat \ {0}, NEW r \in 1 .. l + 8, NEW t \in WhereServing(l, r)
    PROVE  /\ t \in State
           /\ After(t, IF r \in {2, 3, l + 5, l + 6, l + 8} THEN 1 ELSE 0)
                \in WhereServing(l, r - 1)
<1>1. CASE r \in 1 .. 2
  BY <1>1, States, AfterTable DEF WhereServing
<1>2. CASE r \in 3 .. l + 2
  <2>1. t = "shift_ir"
    BY <1>2 DEF WhereServing
  <2>2. r = 3 => "exit1_ir" \in WhereServing(l, r - 1)
    BY DEF WhereServing
  <2>3. r # 3 => "shift_ir" \in WhereServing(l, r - 1) /\ r \notin {2, 3, l + 5, l + 6, l + 8}
    BY <1>2 DEF WhereServing
  <2> QED BY <2>1, <2>2, <2>3, States, AfterTable
<1>3. CASE r \in l + 3 .. l + 8
  <2>1. CASE r = l + 3
    <3>1. t = "capture_ir" /\ "shift_ir" \in WhereServing(l, r - 1)
          /\ r \notin {2, 3, l + 5, l + 6, l + 8}
      BY <2>1 DEF WhereServing
    <3> QED BY <3>1, States, AfterTable
  <2>2. CASE r = l + 4
    <3>1. t = "select_ir_scan" /\ "capture_ir" \in WhereServing(l, r - 1)
          /\ r \notin {2, 3, l + 5, l + 6, l + 8}
      BY <2>2 DEF WhereServing
    <3> QED BY <3>1, States, AfterTable
  <2>3. CASE r = l + 5
    <3>1. t = "select_dr_scan" /\ "select_ir_scan" \in WhereServing(l, r - 1)
      BY <2>3 DEF WhereServing
    <3> QED BY <2>3, <3>1, States, AfterTable
  <2>4. CASE r = l + 6
    <3>1. t = "run_test_idle" /\ "select_dr_scan" \in WhereServing(l, r - 1)
      BY <2>4 DEF WhereServing
    <3> QED BY <2>4, <3>1, States, AfterTable
  <2>5. CASE r = l + 7
    <3>1. t = "update_dr" /\ "run_test_idle" \in WhereServing(l, r - 1)
          /\ r \notin {2, 3, l + 5, l + 6, l + 8}
      BY <2>5 DEF WhereServing
    <3> QED BY <3>1, States, AfterTable
  <2>6. CASE r = l + 8
    <3>1. t = "exit1_dr" /\ "update_dr" \in WhereServing(l, r - 1)
      BY <2>6 DEF WhereServing
    <3> QED BY <2>6, <3>1, States, AfterTable
  <2> QED BY <1>3, <2>1, <2>2, <2>3, <2>4, <2>5, <2>6
<1> QED BY <1>1, <1>2, <1>3

(* in a command,                                                           *)
LEMMA CommandScript ==
    ASSUME NEW m \in Nat \ {0}, NEW r \in 1 .. m + 8, NEW t \in WhereCommand(m, r)
    PROVE  /\ t \in State
           /\ After(t, IF r \in {3, 5, 6, m + 8} THEN 1 ELSE 0) \in WhereCommand(m, r - 1)
<1>1. CASE r \in 1 .. 5
  BY <1>1, States, AfterTable DEF WhereCommand
<1>2. CASE r \in 6 .. m + 5
  <2>1. t = "shift_dr"
    BY <1>2 DEF WhereCommand
  <2>2. r = 6 => "exit1_dr" \in WhereCommand(m, r - 1)
    BY DEF WhereCommand
  <2>3. r # 6 => "shift_dr" \in WhereCommand(m, r - 1) /\ r \notin {3, 5, 6, m + 8}
    BY <1>2 DEF WhereCommand
  <2> QED BY <2>1, <2>2, <2>3, States, AfterTable
<1>3. CASE r \in m + 6 .. m + 8
  <2>1. CASE r = m + 6
    <3>1. t = "capture_dr" /\ "shift_dr" \in WhereCommand(m, r - 1)
          /\ r \notin {3, 5, 6, m + 8}
      BY <2>1 DEF WhereCommand
    <3> QED BY <3>1, States, AfterTable
  <2>2. CASE r = m + 7
    <3>1. t = "select_dr_scan" /\ "capture_dr" \in WhereCommand(m, r - 1)
          /\ r \notin {3, 5, 6, m + 8}
      BY <2>2 DEF WhereCommand
    <3> QED BY <3>1, States, AfterTable
  <2>3. CASE r = m + 8
    <3>1. t = "run_test_idle" /\ "select_dr_scan" \in WhereCommand(m, r - 1)
      BY <2>3 DEF WhereCommand
    <3> QED BY <2>3, <3>1, States, AfterTable
  <2> QED BY <1>3, <2>1, <2>2, <2>3
<1> QED BY <1>1, <1>2, <1>3

(* and from Shift-DR back to Run-Test/Idle.                                *)
LEMMA EndingScript ==
    ASSUME NEW r \in 1 .. 5, NEW t \in WhereEnding(r)
    PROVE  /\ t \in State
           /\ After(t, IF r \in {2, 3} THEN 1 ELSE 0) \in WhereEnding(r - 1)
BY States, AfterTable DEF WhereEnding

(* The number of clocks at each label.                                     *)
LEMMA ClocksTable ==
    ASSUME NEW at, NEW l \in Nat, NEW m \in Nat
    PROVE  /\ at = "next device" => Clocks(at, l, m) = 14
           /\ at = "identify" => Clocks(at, l, m) = l + 9
           /\ at = "serving" => Clocks(at, l, m) = l + 8
           /\ at = "command" => Clocks(at, l, m) = m + 8
           /\ at = "finish" => Clocks(at, l, m) = 5
           /\ at = "configure" => Clocks(at, l, m) = 3
           /\ at = "exit" => Clocks(at, l, m) = 2
           /\ at = "idcode" => Clocks(at, l, m) = IdBits
           /\ at = "manufacturer" => Clocks(at, l, m) = ManufBits
           /\ at = "rest" => Clocks(at, l, m) = RestBits
           /\ at = "data" => Clocks(at, l, m) = DataBits
           /\ at \in {"start bit", "ack", "error"} => Clocks(at, l, m) = 1
           /\ at \in {"started", "enumerated"} => Clocks(at, l, m) = 0
BY DEF Clocks

(* Every clock of a script leads where the script says.                    *)
LEMMA WhereStep ==
    ASSUME NEW at \in Labels, NEW l \in Nat \ {0}, NEW m \in Nat \ {0}, NEW r \in Nat \ {0},
           r <= Clocks(at, l, m), NEW t \in Where(at, l, m, r)
    PROVE  /\ t \in State
           /\ After(t, IF r \in HasTms(at, l, m) THEN 1 ELSE 0) \in Where(at, l, m, r - 1)
           /\ at = "next device" /\ r = 5 => "test_logic_reset" \in Where(at, l, m, r - 1)
<1>1. CASE at = "next device"
  <2>0. Clocks(at, l, m) = 14
    BY <1>1, ClocksTable
  <2>1. r \in 1 .. 14
    BY <2>0
  <2>5. t \in WhereReset(r)
    BY <1>1 DEF Where
  <2>2. HasTms(at, l, m) = 6 .. 13 \cup {3} /\ Where(at, l, m, r - 1) = WhereReset(r - 1)
    BY <1>1 DEF HasTms, Where
  <2>3. /\ t \in State
        /\ After(t, IF r \in 6 .. 13 \cup {3} THEN 1 ELSE 0) \in WhereReset(r - 1)
        /\ r = 5 => "test_logic_reset" \in WhereReset(4)
    BY <2>1, <2>5, ResetScript
  <2>4. r = 5 => r - 1 = 4
    OBVIOUS
  <2> QED BY <2>2, <2>3, <2>4
<1>2. CASE at = "identify"
  BY <1>2, IdentifyScript DEF Clocks, HasTms, Where
<1>3. CASE at = "serving"
  BY <1>3, ServingScript DEF Clocks, HasTms, Where
<1>4. CASE at = "command"
  BY <1>4, CommandScript DEF Clocks, HasTms, Where
<1>5. CASE at = "finish"
  BY <1>5, EndingScript DEF Clocks, HasTms, Where
<1>6. CASE at = "configure"
  BY <1>6, EndingScript DEF Clocks, HasTms, Where
<1>7. CASE at = "exit"
  <2>1. r \in 1 .. 5 /\ t \in WhereEnding(r) /\ WhereEnding(0) \subseteq State
    BY <1>7, States DEF Clocks, Where, WhereEnding
  <2>2. t \in State /\ After(t, IF r \in {2, 3} THEN 1 ELSE 0) \in WhereEnding(r - 1)
    BY <2>1, EndingScript
  <2>3. r \in {2, 3} <=> r \in HasTms(at, l, m)
    BY <1>7 DEF HasTms, Clocks
  <2>4. WhereEnding(r - 1) \subseteq Where(at, l, m, r - 1)
    BY <1>7, <2>1 DEF Where
  <2> QED BY <1>7, <2>2, <2>3, <2>4
<1>8. CASE at = "idcode"
  BY <1>8, States, AfterTable DEF Clocks, HasTms, Where
<1>9. CASE at \in {"start bit", "manufacturer", "rest", "ack", "error", "data"}
  BY <1>9, States, AfterTable, ZenonT(60) DEF HasTms, Where
<1>10. CASE at \in {"started", "enumerated"}
  <2>1. l \in Nat /\ m \in Nat
    OBVIOUS
  <2>2. Clocks(at, l, m) = 0
    BY ONLY <1>10, <2>1, ClocksTable
  <2>3. r <= 0
    BY <2>2, Zenon
  <2>4. r \in Nat \ {0}
    OBVIOUS
  <2>5. FALSE
    BY ONLY <2>3, <2>4
  <2> QED BY ONLY <2>5
<1> QED BY <1>1, <1>2, <1>3, <1>4, <1>5, <1>6, <1>7, <1>8, <1>9, <1>10 DEF Labels

-----------------------------------------------------------------------------
(* The clocks each step of the program sends.                              *)

(* Packets are what they are.                                              *)
LEMMA PacketParts ==
    /\ Zero \in Packet /\ Zero.tms = 0 /\ Zero.tdi = 0 /\ ~Zero.trst
    /\ TMS \in Packet /\ TMS.tms = 1 /\ TMS.tdi = 0 /\ ~TMS.trst
    /\ TRST \in Packet /\ TRST.tms = 0 /\ TRST.tdi = 0 /\ TRST.trst
BY DEF Zero, TMS, TRST, Packet

(* n clocks with TDI as given, and TMS in those of T.                      *)
Sends(q, n, T, bits) ==
    /\ q \in Seq(Packet) /\ Len(q) = n
    /\ \A i \in 1 .. n : /\ q[i].tms = IF i \in T THEN 1 ELSE 0
                         /\ q[i].tdi = bits[i]
                         /\ ~q[i].trst

(* The moves.                                                              *)
LEMMA Moves ==
    /\ Sends(tap_move_from_idle_to_shift_dr, 3, {1}, Zeros(3))
    /\ Sends(tap_move_from_exit_1_to_idle, 2, {1}, Zeros(2))
    /\ Sends(<<TMS, TMS, Zero, Zero>>, 4, {1, 2}, Zeros(4))
    /\ Sends(<<TMS>>, 1, {1}, Zeros(1))
    /\ Sends(<<Zero>>, 1, {}, Zeros(1))
<1>1. Sends(<<TMS, Zero, Zero>>, 3, {1}, Zeros(3))
  BY PacketParts DEF Sends, Zeros
<1>2. Sends(<<TMS, Zero>>, 2, {1}, Zeros(2))
  BY PacketParts DEF Sends, Zeros
<1>3. Sends(<<TMS, TMS, Zero, Zero>>, 4, {1, 2}, Zeros(4))
  BY PacketParts DEF Sends, Zeros
<1>4. Sends(<<TMS>>, 1, {1}, Zeros(1))
  BY PacketParts DEF Sends, Zeros
<1>5. Sends(<<Zero>>, 1, {}, Zeros(1))
  BY PacketParts DEF Sends, Zeros
<1> QED BY <1>1, <1>2, <1>3, <1>4, <1>5
        DEF tap_move_from_idle_to_shift_dr, tap_move_from_exit_1_to_idle

(* What is sent one behind the other: n clocks, and then m.                *)
Joined(n, m, T, U, V, e, f, g) ==
    /\ \A i \in 1 .. n : (i \in V <=> i \in T) /\ g[i] = e[i]
    /\ \A i \in 1 .. m : (n + i \in V <=> i \in U) /\ g[n + i] = f[i]

(* One sequence behind the other.                                          *)
LEMMA SendsBoth ==
    ASSUME NEW n \in Nat, NEW m \in Nat, NEW T, NEW U, NEW V, NEW a, NEW b, NEW e, NEW f, NEW g,
           Sends(a, n, T, e), Sends(b, m, U, f), Joined(n, m, T, U, V, e, f, g)
    PROVE  Sends(a \o b, n + m, V, g)
<1>1. a \in Seq(Packet) /\ b \in Seq(Packet) /\ Len(a) = n /\ Len(b) = m
  BY DEF Sends
<1>2. a \o b \in Seq(Packet) /\ Len(a \o b) = n + m
  BY <1>1
<1>3. \A i \in 1 .. n + m : (a \o b)[i] = IF i <= n THEN a[i] ELSE b[i - n]
  BY <1>1
<1> DEFINE c == a \o b
<1>n. n \in Nat /\ m \in Nat
  OBVIOUS
<1>5. \A i \in 1 .. n : c[i] = a[i]
  <2> TAKE i \in 1 .. n
  <2>1. i \in 1 .. n + m /\ i <= n
    BY ONLY <1>n
  <2> QED BY ONLY <2>1, <1>3 DEF c
<1>6. \A i \in 1 .. m : c[n + i] = b[i]
  <2> TAKE i \in 1 .. m
  <2>1. n + i \in 1 .. n + m /\ ~(n + i <= n) /\ (n + i) - n = i
    BY ONLY <1>n
  <2> QED BY ONLY <2>1, <1>3 DEF c
<1> HIDE DEF c
<1>7. ASSUME NEW i \in 1 .. n
      PROVE  c[i].tms = (IF i \in V THEN 1 ELSE 0) /\ c[i].tdi = g[i] /\ ~c[i].trst
  <2>1. a[i].tms = (IF i \in T THEN 1 ELSE 0) /\ a[i].tdi = e[i] /\ ~a[i].trst
    BY DEF Sends
  <2>2. (i \in V <=> i \in T) /\ g[i] = e[i]
    BY DEF Joined
  <2> QED BY ONLY <1>5, <2>1, <2>2
<1>8. ASSUME NEW i \in 1 .. m
      PROVE  c[n + i].tms = (IF n + i \in V THEN 1 ELSE 0) /\ c[n + i].tdi = g[n + i]
             /\ ~c[n + i].trst
  <2>1. b[i].tms = (IF i \in U THEN 1 ELSE 0) /\ b[i].tdi = f[i] /\ ~b[i].trst
    BY DEF Sends
  <2>2. (n + i \in V <=> i \in U) /\ g[n + i] = f[i]
    BY DEF Joined
  <2> QED BY ONLY <1>6, <2>1, <2>2
<1>9. ASSUME NEW i \in 1 .. n + m
      PROVE  c[i].tms = (IF i \in V THEN 1 ELSE 0) /\ c[i].tdi = g[i] /\ ~c[i].trst
  <2>1. i \in 1 .. n \/ \E j \in 1 .. m : i = n + j
    <3>1. CASE i <= n
      BY ONLY <3>1, <1>n, i \in 1 .. n + m
    <3>2. CASE i > n
      <4>1. i - n \in 1 .. m /\ i = n + (i - n)
        BY ONLY <3>2, <1>n, i \in 1 .. n + m
      <4> QED BY <4>1
    <3> QED BY <3>1, <3>2, <1>n
  <2> QED BY ONLY <1>7, <1>8, <2>1
<1> QED BY <1>2, <1>9 DEF Sends, c

(* A stream sends its bits.                                                *)
LEMMA SendsStream ==
    ASSUME NEW bits \in Seq(Bits), NEW w \in BOOLEAN
    PROVE  Sends(Stream(bits, w), Len(bits), IF w THEN {Len(bits)} ELSE {}, bits)
BY StreamPackets DEF Sends

(* The opcode between zeros, as shifted into the instruction register.     *)
SetIrBits(opcode, l) ==
    [i \in 1 .. l + 6 |-> IF i \in 5 .. l + 4 THEN OpcodeBit(opcode, i - 4) ELSE 0]

(* Opcodes have bits.                                                      *)
LEMMA OpcodeBits ==
    /\ \A opcode \in Seq(Bits) : \A i \in Nat \ {0} : OpcodeBit(opcode, i) \in Bits
    /\ Opcode.IDCODE \in Seq(Bits) /\ Opcode.DEBUG \in Seq(Bits)
<1>1. ASSUME NEW opcode \in Seq(Bits), NEW i \in Nat \ {0} PROVE OpcodeBit(opcode, i) \in Bits
  <2>1. i <= Len(opcode) => opcode[i] \in Bits
    OBVIOUS
  <2>2. 0 \in Bits
    BY DEF Bits
  <2> QED BY <2>1, <2>2 DEF OpcodeBit
<1>2. Opcode.IDCODE \in Seq(Bits) /\ Opcode.DEBUG \in Seq(Bits)
  BY DEF Opcode, Bits
<1> QED BY <1>1, <1>2

(* tap_set_ir: into the IR, the opcode, and back to Run-Test/Idle.         *)
LEMMA SetIrSends ==
    ASSUME get_IR_size \in Nat \ {0}, NEW opcode \in Seq(Bits)
    PROVE  Sends(SetIr(opcode), get_IR_size + 6, {1, 2, get_IR_size + 4, get_IR_size + 5},
                 SetIrBits(opcode, get_IR_size))
<1> DEFINE l == get_IR_size
           w == [i \in 1 .. l |-> OpcodeBit(opcode, i)]
<1>1. l \in Nat \ {0}
  OBVIOUS
<1>2. SetIr(opcode) = <<TMS, TMS, Zero, Zero>> \o Stream(w, TRUE) \o <<TMS, Zero>>
  BY DEF SetIr, tap_set_ir, Fitted, OpcodeBit
<1> HIDE DEF l
<1>3. w \in Seq(Bits) /\ Len(w) = l /\ \A i \in 1 .. l : w[i] = OpcodeBit(opcode, i)
  BY <1>1, OpcodeBits
<1> HIDE DEF w
<1>4. Sends(Stream(w, TRUE), l, {l}, w)
  BY <1>3, SendsStream
<1> DEFINE g == [i \in 1 .. l + 4 |-> IF i \in 5 .. l + 4 THEN OpcodeBit(opcode, i - 4) ELSE 0]
<1>5. \A i \in 1 .. 4 : (i \in {1, 2, l + 4} <=> i \in {1, 2}) /\ g[i] = Zeros(4)[i]
  BY <1>1 DEF Zeros
<1>6. \A i \in 1 .. l : (4 + i \in {1, 2, l + 4} <=> i \in {l}) /\ g[4 + i] = w[i]
  <2> TAKE i \in 1 .. l
  <2>1. 4 + i \in 5 .. l + 4 /\ (4 + i) - 4 = i /\ 4 + i \in 1 .. l + 4
    BY <1>1
  <2>2. g[4 + i] = OpcodeBit(opcode, i)
    BY <2>1
  <2> QED BY <1>1, <1>3, <2>2
<1>7. \A i \in 1 .. 2 : (4 + l + i \in {1, 2, l + 4, l + 5} <=> i \in {1})
                        /\ SetIrBits(opcode, l)[4 + l + i] = Zeros(2)[i]
  BY <1>1 DEF Zeros, SetIrBits
<1>8. \A i \in 1 .. 4 + l : (i \in {1, 2, l + 4, l + 5} <=> i \in {1, 2, l + 4})
                            /\ SetIrBits(opcode, l)[i] = g[i]
  BY <1>1 DEF SetIrBits
<1> HIDE DEF g
<1>9a. Joined(4, l, {1, 2}, {l}, {1, 2, l + 4}, Zeros(4), w, g)
  BY ONLY <1>5, <1>6 DEF Joined
<1>9. Sends(<<TMS, TMS, Zero, Zero>> \o Stream(w, TRUE), 4 + l, {1, 2, l + 4}, g)
  <2>1. l \in Nat /\ 4 \in Nat
    BY <1>1
  <2>2. Sends(<<TMS, TMS, Zero, Zero>>, 4, {1, 2}, Zeros(4))
    BY Moves
  <2> QED BY ONLY <1>4, <1>9a, <2>1, <2>2, SendsBoth, Zenon
<1>10. Sends(<<TMS, Zero>>, 2, {1}, Zeros(2))
  BY Moves DEF tap_move_from_exit_1_to_idle
<1>11. Sends(SetIr(opcode), 4 + l + 2, {1, 2, l + 4, l + 5}, SetIrBits(opcode, l))
  <2>1. 4 + l \in Nat /\ 2 \in Nat
    BY <1>1
  <2>3. Joined(4 + l, 2, {1, 2, l + 4}, {1}, {1, 2, l + 4, l + 5}, g, Zeros(2),
               SetIrBits(opcode, l))
    BY ONLY <1>7, <1>8 DEF Joined
  <2>2. Sends((<<TMS, TMS, Zero, Zero>> \o Stream(w, TRUE)) \o <<TMS, Zero>>, 4 + l + 2,
              {1, 2, l + 4, l + 5}, SetIrBits(opcode, l))
    BY ONLY <2>1, <2>3, <1>9, <1>10, SendsBoth, ZenonT(60)
  <2> QED BY <1>2, <2>2
<1> QED BY <1>1, <1>11 DEF l

(* What follows the script.                                                *)
Matches(at, l, c, n, T, bits) ==
    /\ n <= Clocks(at, l, Size(c))
    /\ \A i \in 1 .. n :
         /\ i \in T <=> n + 1 - i \in HasTms(at, l, Size(c))
         /\ at \notin Varied => bits[i] = TdiOf(at, l, c, n + 1 - i)

(* What is sent follows the script of its label.                           *)
LEMMA Follows ==
    ASSUME NEW at, at # "next device", NEW l, NEW c, NEW n \in Nat, NEW T, NEW bits, NEW q,
           Sends(q, n, T, bits), Matches(at, l, c, n, T, bits)
    PROVE  FollowsScript(at, l, c, q) /\ Len(q) = n
<1>1. q \in Seq(Packet) /\ Len(q) = n /\ n <= Clocks(at, l, Size(c))
  BY DEF Sends, Matches
<1>2. ASSUME NEW i \in 1 .. n
      PROVE  /\ q[i].tms = IF n + 1 - i \in HasTms(at, l, Size(c)) THEN 1 ELSE 0
             /\ ~q[i].trst
             /\ at \notin Varied => q[i].tdi = TdiOf(at, l, c, n + 1 - i)
  <2>1. q[i].tms = (IF i \in T THEN 1 ELSE 0) /\ q[i].tdi = bits[i] /\ ~q[i].trst
    BY DEF Sends
  <2>2. /\ i \in T <=> n + 1 - i \in HasTms(at, l, Size(c))
        /\ at \notin Varied => bits[i] = TdiOf(at, l, c, n + 1 - i)
    BY DEF Matches
  <2> QED BY ONLY <2>1, <2>2
<1> QED BY <1>1, <1>2 DEF FollowsScript

(* The number of clocks is one.                                            *)
LEMMA ClocksNat == \A at \in Labels : \A l, m \in Nat : Clocks(at, l, m) \in Nat
<1> SUFFICES ASSUME NEW at \in Labels, NEW l \in Nat, NEW m \in Nat PROVE Clocks(at, l, m) \in Nat
  OBVIOUS
<1>1. IdBits \in Nat /\ ManufBits \in Nat /\ RestBits \in Nat /\ DataBits \in Nat
  BY Sizes
<1> DEFINE k == Clocks(at, l, m)
<1>0. /\ at = "next device" => k = 14
      /\ at = "identify" => k = l + 9
      /\ at = "serving" => k = l + 8
      /\ at = "command" => k = m + 8
      /\ at = "finish" => k = 5
      /\ at = "configure" => k = 3
      /\ at = "exit" => k = 2
      /\ at = "idcode" => k = IdBits
      /\ at = "manufacturer" => k = ManufBits
      /\ at = "rest" => k = RestBits
      /\ at = "data" => k = DataBits
      /\ at \in {"start bit", "ack", "error"} => k = 1
      /\ at \in {"started", "enumerated"} => k = 0
  BY ClocksTable
<1> SUFFICES k \in Nat
  OBVIOUS
<1> HIDE DEF k
<1>2. l \in Nat /\ m \in Nat
  OBVIOUS
<1>3. CASE at = "next device"
  <2>1. k = 14
    BY ONLY <1>0, <1>3
  <2> QED BY ONLY <2>1
<1>4. CASE at = "finish"
  BY ONLY <1>0, <1>1, <1>2, <1>4
<1>5. CASE at = "configure"
  BY ONLY <1>0, <1>1, <1>2, <1>5
<1>6. CASE at = "exit"
  <2>1. k = 2
    BY ONLY <1>0, <1>6
  <2> QED BY ONLY <2>1
<1>7. CASE at \in {"start bit", "ack", "error"}
  <2>1. k = 1
    BY ONLY <1>0, <1>7
  <2> QED BY ONLY <2>1
<1>8. CASE at = "idcode"
  BY ONLY <1>0, <1>1, <1>2, <1>8
<1>9. CASE at = "manufacturer"
  BY ONLY <1>0, <1>1, <1>2, <1>9
<1>10. CASE at = "rest"
  BY ONLY <1>0, <1>1, <1>2, <1>10
<1>11. CASE at = "data"
  BY ONLY <1>0, <1>1, <1>2, <1>11
<1>12. CASE at = "identify"
  BY ONLY <1>0, <1>1, <1>2, <1>12
<1>13. CASE at = "serving"
  BY ONLY <1>0, <1>1, <1>2, <1>13
<1>14. CASE at = "command"
  BY ONLY <1>0, <1>1, <1>2, <1>14
<1>15. CASE at \in {"started", "enumerated"}
  <2>1. k = 0
    BY ONLY <1>0, <1>15
  <2> QED BY ONLY <2>1
<1> QED BY <1>3, <1>4, <1>5, <1>6, <1>7, <1>8, <1>9, <1>10, <1>11, <1>12, <1>13, <1>14,
           <1>15 DEF Labels

(* No clocks follow any script.                                            *)
LEMMA NoClocks ==
    ASSUME NEW at \in Labels, NEW l \in Nat, NEW c, Size(c) \in Nat
    PROVE  FollowsScript(at, l, c, <<>>) /\ 0 <= Clocks(at, l, Size(c))
<1>1. <<>> \in Seq(Packet) /\ Len(<<>>) = 0
  OBVIOUS
<1>2. Clocks(at, l, Size(c)) \in Nat
  BY ClocksNat
<1> QED BY ONLY <1>1, <1>2 DEF FollowsScript

(* What a script's next packet is, and what is left after it.              *)
Advances(at, l, c, q) ==
    /\ FollowsScript(at, l, c, Tail(q)) /\ Len(Tail(q)) = Len(q) - 1
    /\ Len(q) \in Nat \ {0} /\ Len(q) <= Clocks(at, l, Size(c))
    /\ Head(q) = q[1] /\ Head(q) \in Packet
    /\ Head(q).tms = IF Len(q) \in HasTms(at, l, Size(c)) THEN 1 ELSE 0
    /\ Head(q).trst <=> at = "next device" /\ Len(q) = 5
    /\ at \notin Varied => Head(q).tdi = TdiOf(at, l, c, Len(q))

(* The clocks that are left of a script follow it, and the one made does.  *)
LEMMA RestFollows ==
    ASSUME NEW at \in Labels, NEW l \in Nat, NEW c, Size(c) \in Nat, NEW q,
           FollowsScript(at, l, c, q), q # <<>>
    PROVE  Advances(at, l, c, q)
<1> DEFINE n == Len(q)
           t == Tail(q)
           D(k, i, p) == /\ p.tms = IF k + 1 - i \in HasTms(at, l, Size(c)) THEN 1 ELSE 0
                         /\ p.trst <=> (at = "next device" /\ k + 1 - i = 5)
                         /\ at \notin Varied => p.tdi = TdiOf(at, l, c, k + 1 - i)
<1>1. q \in Seq(Packet) /\ n <= Clocks(at, l, Size(c)) /\ \A i \in 1 .. n : D(n, i, q[i])
  BY DEF FollowsScript
<1>0. q \in Seq(Packet) /\ q # <<>>
  BY <1>1
<1>2. n \in Nat \ {0} /\ t \in Seq(Packet) /\ Len(t) = n - 1 /\ Head(q) = q[1]
      /\ \A i \in 1 .. n - 1 : t[i] = q[i + 1]
  BY ONLY <1>0
<1>3. q[1] \in Packet /\ 1 \in 1 .. n /\ n + 1 - 1 = n
  BY ONLY <1>0, <1>2
<1>6. n - 1 <= Clocks(at, l, Size(c))
  <2> DEFINE k == Clocks(at, l, Size(c))
  <2>1. n <= k /\ n \in Nat /\ k \in Nat
    BY <1>1, <1>2, ClocksNat
  <2> HIDE DEF n, k
  <2>2. n - 1 <= k
    BY ONLY <2>1
  <2> QED BY <2>2 DEF n, k
<1> HIDE DEF n, t
<1>5. ASSUME NEW i \in 1 .. n - 1 PROVE D(n - 1, i, t[i])
  <2>1. i + 1 \in 1 .. n /\ t[i] = q[i + 1] /\ n + 1 - (i + 1) = (n - 1) + 1 - i
    BY ONLY <1>2, i \in 1 .. n - 1
  <2>2. D(n, i + 1, q[i + 1])
    BY <1>1, <2>1
  <2> QED BY ONLY <2>1, <2>2
<1>4. D(n, 1, q[1])
  BY <1>1, <1>3
<1>7. FollowsScript(at, l, c, t)
  BY <1>2, <1>5, <1>6 DEF FollowsScript
<1>8. /\ q[1].tms = IF n \in HasTms(at, l, Size(c)) THEN 1 ELSE 0
      /\ q[1].trst <=> at = "next device" /\ n = 5
      /\ at \notin Varied => q[1].tdi = TdiOf(at, l, c, n)
  BY ONLY <1>3, <1>4
<1>9. FollowsScript(at, l, c, t) /\ Len(t) = n - 1 /\ n \in Nat \ {0}
      /\ n <= Clocks(at, l, Size(c)) /\ Head(q) = q[1] /\ q[1] \in Packet
  BY ONLY <1>1, <1>2, <1>3, <1>7
<1> QED BY ONLY <1>8, <1>9 DEF n, t, Advances

(* Nothing but zeros is shifted in at most labels.                         *)
LEMMA TdiZero ==
    \A l, c, r : \A at \in {"next device", "configure", "idcode", "finish", "exit", "ack",
                          "error", "data"} : TdiOf(at, l, c, r) = 0
BY ZenonT(60) DEF TdiOf

(* The clocks with TMS, and what is shifted in, at each label.             *)
LEMMA ScriptTable ==
    ASSUME NEW l \in Nat, NEW m \in Nat, NEW c, NEW r \in Nat
    PROVE  /\ HasTms("configure", l, m) = {2, 3}
           /\ HasTms("identify", l, m) = {3, 5, 6, l + 8, l + 9}
           /\ HasTms("idcode", l, m) = {1}
           /\ HasTms("serving", l, m) = {2, 3, l + 5, l + 6, l + 8}
           /\ HasTms("command", l, m) = {3, 5, 6, m + 8}
           /\ HasTms("finish", l, m) = {2, 3}
           /\ HasTms("exit", l, m) = {2}
           /\ HasTms("next device", l, m) = 6 .. 13 \cup {3}
           /\ \A at \in {"start bit", "manufacturer", "rest", "ack", "error", "data"} :
                 HasTms(at, l, m) = {}
           /\ TdiOf("identify", l, c, r) =
                IF r \in 6 .. l + 5 THEN OpcodeBit(Opcode.IDCODE, l + 6 - r) ELSE 0
           /\ TdiOf("command", l, c, r) =
                IF r \in 6 .. Size(c) + 5 THEN CommandBits(c)[Size(c) + 6 - r] ELSE 0
<1>1. /\ HasTms("configure", l, m) = {2, 3}
      /\ HasTms("identify", l, m) = {3, 5, 6, l + 8, l + 9}
      /\ HasTms("idcode", l, m) = {1}
      /\ HasTms("serving", l, m) = {2, 3, l + 5, l + 6, l + 8}
  BY DEF HasTms
<1>2. /\ HasTms("command", l, m) = {3, 5, 6, m + 8}
      /\ HasTms("finish", l, m) = {2, 3}
      /\ HasTms("exit", l, m) = {2}
      /\ HasTms("next device", l, m) = 6 .. 13 \cup {3}
  BY DEF HasTms
<1>3. \A at \in {"start bit", "manufacturer", "rest", "ack", "error", "data"} :
         HasTms(at, l, m) = {}
  BY DEF HasTms
<1>4. /\ TdiOf("identify", l, c, r) =
           IF r \in 6 .. l + 5 THEN OpcodeBit(Opcode.IDCODE, l + 6 - r) ELSE 0
      /\ TdiOf("command", l, c, r) =
           IF r \in 6 .. Size(c) + 5 THEN CommandBits(c)[Size(c) + 6 - r] ELSE 0
  BY DEF TdiOf
<1> QED BY <1>1, <1>2, <1>3, <1>4

(* Zeros are bits.                                                         *)
LEMMA ZerosAre ==
    ASSUME NEW n \in Nat
    PROVE  /\ Zeros(n) \in Seq(Bits) /\ Len(Zeros(n)) = n /\ Zeros(n) \in BitString(n)
           /\ \A i \in 1 .. n : Zeros(n)[i] = 0
BY DEF Zeros, Bits, BitString

(* The sizes of what is sent.                                              *)
LEMMA SizeNat == \A c \in AnyCall : Size(c) \in Nat \ {0}
<1> SUFFICES ASSUME NEW c \in AnyCall PROVE Size(c) \in Nat \ {0}
  OBVIOUS
<1>1. CASE c = NoCall
  BY <1>1 DEF Size
<1>2. CASE c # NoCall
  <2>1. c \in Calls
    BY <1>2 DEF AnyCall
  <2>0. Size(c) = Len(CommandBits(c))
    BY <2>1, CommandIs, Zenon
  <2>2. CASE c.kind = "stalled"
    <3>1. CommandBits(c) = <<1, 0, 0>>
      BY <2>1, <2>2, CommandIs, Zenon
    <3> QED BY ONLY <2>0, <3>1
  <2>3. CASE c.kind = "read"
    <3>1. Len(CommandBits(c)) = SprBits + 3
      BY <2>1, <2>3, CommandIs, Zenon
    <3> QED BY <2>0, <3>1, Sizes
  <2>4. CASE c.kind \notin {"stalled", "read"}
    <3>1. Len(CommandBits(c)) = DataBits + SprBits + 3
      BY <2>1, <2>4, CommandIs, Zenon
    <3> QED BY <2>0, <3>1, Sizes
  <2> QED BY <2>2, <2>3, <2>4
<1> QED BY <1>1, <1>2

(* The tables, for the command of a call.                                  *)
LEMMA Script ==
    ASSUME NEW l \in Nat, NEW c \in AnyCall
    PROVE  /\ Clocks("configure", l, Size(c)) = 3 /\ Clocks("exit", l, Size(c)) = 2
           /\ Clocks("ack", l, Size(c)) = 1 /\ Clocks("error", l, Size(c)) = 1
           /\ Clocks("idcode", l, Size(c)) = IdBits /\ Clocks("data", l, Size(c)) = DataBits
           /\ Clocks("finish", l, Size(c)) = 5 /\ Clocks("identify", l, Size(c)) = l + 9
           /\ Clocks("serving", l, Size(c)) = l + 8
           /\ Clocks("command", l, Size(c)) = Size(c) + 8
           /\ Clocks("next device", l, Size(c)) = 14
           /\ Clocks("start bit", l, Size(c)) = 1
           /\ Clocks("manufacturer", l, Size(c)) = ManufBits
           /\ Clocks("rest", l, Size(c)) = RestBits
           /\ HasTms("configure", l, Size(c)) = {2, 3}
           /\ HasTms("identify", l, Size(c)) = {3, 5, 6, l + 8, l + 9}
           /\ HasTms("idcode", l, Size(c)) = {1}
           /\ HasTms("serving", l, Size(c)) = {2, 3, l + 5, l + 6, l + 8}
           /\ HasTms("command", l, Size(c)) = {3, 5, 6, Size(c) + 8}
           /\ HasTms("finish", l, Size(c)) = {2, 3}
           /\ HasTms("exit", l, Size(c)) = {2}
           /\ HasTms("next device", l, Size(c)) = 6 .. 13 \cup {3}
           /\ \A at \in {"start bit", "manufacturer", "rest", "ack", "error", "data"} :
                 HasTms(at, l, Size(c)) = {}
<1> DEFINE m == Size(c)
<1>1. m \in Nat
  BY SizeNat
<1> HIDE DEF m
<1>2. /\ HasTms("configure", l, m) = {2, 3}
      /\ HasTms("identify", l, m) = {3, 5, 6, l + 8, l + 9}
      /\ HasTms("idcode", l, m) = {1}
      /\ HasTms("serving", l, m) = {2, 3, l + 5, l + 6, l + 8}
      /\ HasTms("command", l, m) = {3, 5, 6, m + 8}
      /\ HasTms("finish", l, m) = {2, 3}
      /\ HasTms("exit", l, m) = {2}
      /\ HasTms("next device", l, m) = 6 .. 13 \cup {3}
      /\ \A at \in {"start bit", "manufacturer", "rest", "ack", "error", "data"} :
            HasTms(at, l, m) = {}
  BY <1>1, ScriptTable
<1>3. /\ Clocks("configure", l, m) = 3 /\ Clocks("exit", l, m) = 2
      /\ Clocks("ack", l, m) = 1 /\ Clocks("error", l, m) = 1
      /\ Clocks("idcode", l, m) = IdBits /\ Clocks("data", l, m) = DataBits
      /\ Clocks("finish", l, m) = 5 /\ Clocks("identify", l, m) = l + 9
      /\ Clocks("serving", l, m) = l + 8 /\ Clocks("command", l, m) = m + 8
      /\ Clocks("next device", l, m) = 14 /\ Clocks("start bit", l, m) = 1
      /\ Clocks("manufacturer", l, m) = ManufBits /\ Clocks("rest", l, m) = RestBits
  BY <1>1, ClocksTable
<1> QED BY <1>2, <1>3 DEF m

(* The short ones.                                                         *)
LEMMA ShortScripts ==
    ASSUME NEW l \in Nat, NEW c \in AnyCall
    PROVE  /\ FollowsScript("configure", l, c, <<TMS>> \o tap_move_from_exit_1_to_idle)
           /\ Len(<<TMS>> \o tap_move_from_exit_1_to_idle) = 3
           /\ FollowsScript("exit", l, c, tap_move_from_exit_1_to_idle)
           /\ Len(tap_move_from_exit_1_to_idle) = 2
           /\ FollowsScript("ack", l, c, <<Zero>>) /\ FollowsScript("error", l, c, <<Zero>>)
<1>0. Size(c) \in Nat
  BY SizeNat
<1>1. Sends(<<TMS>> \o tap_move_from_exit_1_to_idle, 1 + 2, {1, 2}, Zeros(3))
  <2>1. Joined(1, 2, {1}, {1}, {1, 2}, Zeros(1), Zeros(2), Zeros(3))
    BY DEF Joined, Zeros
  <2>2. 1 \in Nat /\ 2 \in Nat
    OBVIOUS
  <2> QED BY ONLY <2>1, <2>2, Moves, SendsBoth, Zenon
<1>2. Matches("configure", l, c, 3, {1, 2}, Zeros(3))
  <2>0. Clocks("configure", l, Size(c)) = 3
    BY Script, Zenon
  <2>1. 3 <= Clocks("configure", l, Size(c))
    BY <1>0, <2>0
  <2>2. ASSUME NEW i \in 1 .. 3
        PROVE  /\ i \in {1, 2} <=> 3 + 1 - i \in HasTms("configure", l, Size(c))
               /\ Zeros(3)[i] = TdiOf("configure", l, c, 3 + 1 - i)
    <3>1. 3 + 1 - i \in Nat /\ Zeros(3)[i] = 0
      BY ZerosAre
    <3>2. HasTms("configure", l, Size(c)) = {2, 3}
      BY Script, Zenon
    <3>3. TdiOf("configure", l, c, 3 + 1 - i) = 0
      BY TdiZero, Zenon
    <3> QED BY <3>1, <3>2, <3>3
  <2> QED BY <2>1, <2>2 DEF Matches
<1>3. Matches("exit", l, c, 2, {1}, Zeros(2))
  <2>0. Clocks("exit", l, Size(c)) = 2
    BY Script, Zenon
  <2>1. 2 <= Clocks("exit", l, Size(c))
    BY <1>0, <2>0
  <2>2. ASSUME NEW i \in 1 .. 2
        PROVE  /\ i \in {1} <=> 2 + 1 - i \in HasTms("exit", l, Size(c))
               /\ Zeros(2)[i] = TdiOf("exit", l, c, 2 + 1 - i)
    <3>1. 2 + 1 - i \in Nat /\ Zeros(2)[i] = 0
      BY ZerosAre
    <3>2. HasTms("exit", l, Size(c)) = {2}
      BY Script, Zenon
    <3>3. TdiOf("exit", l, c, 2 + 1 - i) = 0
      BY TdiZero, Zenon
    <3> QED BY <3>1, <3>2, <3>3
  <2> QED BY <2>1, <2>2 DEF Matches
<1>4. \A at \in {"ack", "error"} : Matches(at, l, c, 1, {}, Zeros(1))
  <2> TAKE at \in {"ack", "error"}
  <2>0. Clocks(at, l, Size(c)) = 1
    <3>1. Clocks("ack", l, Size(c)) = 1 /\ Clocks("error", l, Size(c)) = 1
      BY Script, Zenon
    <3> QED BY <3>1
  <2>1. 1 <= Clocks(at, l, Size(c))
    BY <1>0, <2>0
  <2>2. ASSUME NEW i \in 1 .. 1
        PROVE  /\ i \in {} <=> 1 + 1 - i \in HasTms(at, l, Size(c))
               /\ Zeros(1)[i] = TdiOf(at, l, c, 1 + 1 - i)
    <3>1. 1 + 1 - i \in Nat /\ Zeros(1)[i] = 0
      BY ZerosAre
    <3>2. HasTms(at, l, Size(c)) = {}
      BY Script, Zenon
    <3>3. TdiOf(at, l, c, 1 + 1 - i) = 0
      BY TdiZero, Zenon
    <3> QED BY <3>1, <3>2, <3>3
  <2> QED BY <2>1, <2>2 DEF Matches
<1>5. 1 + 2 = 3 /\ 1 \in Nat /\ 2 \in Nat /\ 3 \in Nat
  OBVIOUS
<1>6. FollowsScript("configure", l, c, <<TMS>> \o tap_move_from_exit_1_to_idle)
      /\ Len(<<TMS>> \o tap_move_from_exit_1_to_idle) = 3
  <2>1. FollowsScript("configure", l, c, <<TMS>> \o tap_move_from_exit_1_to_idle)
    BY ONLY <1>1, <1>2, <1>5, Follows, Zenon
  <2>2. Len(<<TMS>> \o tap_move_from_exit_1_to_idle) = 3
    BY <1>1, <1>2, <1>5 DEF Sends
  <2> QED BY <2>1, <2>2
<1>7. FollowsScript("exit", l, c, tap_move_from_exit_1_to_idle)
      /\ Len(tap_move_from_exit_1_to_idle) = 2
  <2>1. FollowsScript("exit", l, c, tap_move_from_exit_1_to_idle)
    BY ONLY <1>3, <1>5, Moves, Follows, Zenon
  <2>2. Len(tap_move_from_exit_1_to_idle) = 2
    BY <1>3, <1>5, Moves DEF Sends
  <2> QED BY <2>1, <2>2
<1>8. FollowsScript("ack", l, c, <<Zero>>)
  BY ONLY <1>4, <1>5, Moves, Follows, Zenon
<1>9. FollowsScript("error", l, c, <<Zero>>)
  BY ONLY <1>4, <1>5, Moves, Follows, Zenon
<1> QED BY ONLY <1>6, <1>7, <1>8, <1>9, Zenon

(* Zeros and data, shifted without moving.                                 *)
LEMMA ZeroScripts ==
    ASSUME NEW l \in Nat, NEW c \in AnyCall
    PROVE  /\ FollowsScript("idcode", l, c, Stream(Zeros(IdBits), TRUE))
           /\ Len(Stream(Zeros(IdBits), TRUE)) = IdBits
           /\ FollowsScript("data", l, c, Stream(Zeros(DataBits), FALSE))
           /\ Len(Stream(Zeros(DataBits), FALSE)) = DataBits
           /\ FollowsScript("finish", l, c,
                            Stream(Zeros(3), TRUE) \o tap_move_from_exit_1_to_idle)
           /\ Len(Stream(Zeros(3), TRUE) \o tap_move_from_exit_1_to_idle) = 5
<1>0. Size(c) \in Nat /\ IdBits \in Nat /\ DataBits \in Nat /\ 3 \in Nat
  BY SizeNat, Sizes
<1>1. /\ Sends(Stream(Zeros(IdBits), TRUE), IdBits, {IdBits}, Zeros(IdBits))
      /\ Sends(Stream(Zeros(3), TRUE), 3, {3}, Zeros(3))
      /\ Sends(Stream(Zeros(DataBits), FALSE), DataBits, {}, Zeros(DataBits))
  BY <1>0, ZerosAre, SendsStream
<1>2. Matches("idcode", l, c, IdBits, {IdBits}, Zeros(IdBits))
  <2>0. Clocks("idcode", l, Size(c)) = IdBits
    BY Script, Zenon
  <2>1. IdBits <= Clocks("idcode", l, Size(c))
    BY <1>0, <2>0
  <2>2. ASSUME NEW i \in 1 .. IdBits
        PROVE  /\ i \in {IdBits} <=> IdBits + 1 - i \in HasTms("idcode", l, Size(c))
               /\ Zeros(IdBits)[i] = TdiOf("idcode", l, c, IdBits + 1 - i)
    <3>1. IdBits + 1 - i \in Nat /\ Zeros(IdBits)[i] = 0
      BY <1>0, ZerosAre
    <3>2. HasTms("idcode", l, Size(c)) = {1}
      BY Script, Zenon
    <3>3. TdiOf("idcode", l, c, IdBits + 1 - i) = 0
      BY TdiZero, Zenon
    <3> QED BY <1>0, <3>1, <3>2, <3>3
  <2> QED BY <2>1, <2>2 DEF Matches
<1>3. Matches("data", l, c, DataBits, {}, Zeros(DataBits))
  <2>0. Clocks("data", l, Size(c)) = DataBits
    BY Script, Zenon
  <2>1. DataBits <= Clocks("data", l, Size(c))
    BY <1>0, <2>0
  <2>2. ASSUME NEW i \in 1 .. DataBits
        PROVE  /\ i \in {} <=> DataBits + 1 - i \in HasTms("data", l, Size(c))
               /\ Zeros(DataBits)[i] = TdiOf("data", l, c, DataBits + 1 - i)
    <3>1. DataBits + 1 - i \in Nat /\ Zeros(DataBits)[i] = 0
      BY <1>0, ZerosAre
    <3>2. HasTms("data", l, Size(c)) = {}
      BY Script, Zenon
    <3>3. TdiOf("data", l, c, DataBits + 1 - i) = 0
      BY TdiZero, Zenon
    <3> QED BY <1>0, <3>1, <3>2, <3>3
  <2> QED BY <2>1, <2>2 DEF Matches
<1>4. Sends(Stream(Zeros(3), TRUE) \o tap_move_from_exit_1_to_idle, 3 + 2, {3, 4}, Zeros(5))
  <2>1. Joined(3, 2, {3}, {1}, {3, 4}, Zeros(3), Zeros(2), Zeros(5))
    BY DEF Joined, Zeros
  <2>2. 3 \in Nat /\ 2 \in Nat
    OBVIOUS
  <2> QED BY ONLY <1>1, <2>1, <2>2, Moves, SendsBoth, Zenon
<1>5. Matches("finish", l, c, 5, {3, 4}, Zeros(5))
  <2>0. Clocks("finish", l, Size(c)) = 5
    BY Script, Zenon
  <2>1. 5 <= Clocks("finish", l, Size(c))
    BY <1>0, <2>0
  <2>2. ASSUME NEW i \in 1 .. 5
        PROVE  /\ i \in {3, 4} <=> 5 + 1 - i \in HasTms("finish", l, Size(c))
               /\ Zeros(5)[i] = TdiOf("finish", l, c, 5 + 1 - i)
    <3>1. 5 + 1 - i \in Nat /\ Zeros(5)[i] = 0
      BY ZerosAre
    <3>2. HasTms("finish", l, Size(c)) = {2, 3}
      BY Script, Zenon
    <3>3. TdiOf("finish", l, c, 5 + 1 - i) = 0
      BY TdiZero, Zenon
    <3> QED BY <3>1, <3>2, <3>3
  <2> QED BY <2>1, <2>2 DEF Matches
<1>6. 3 + 2 = 5 /\ 5 \in Nat
  OBVIOUS
<1>7. FollowsScript("idcode", l, c, Stream(Zeros(IdBits), TRUE))
      /\ Len(Stream(Zeros(IdBits), TRUE)) = IdBits
  <2>1. FollowsScript("idcode", l, c, Stream(Zeros(IdBits), TRUE))
    BY ONLY <1>0, <1>1, <1>2, Follows, Zenon
  <2>2. Len(Stream(Zeros(IdBits), TRUE)) = IdBits
    BY <1>0, <1>1, <1>2 DEF Sends
  <2> QED BY <2>1, <2>2
<1>8. FollowsScript("data", l, c, Stream(Zeros(DataBits), FALSE))
      /\ Len(Stream(Zeros(DataBits), FALSE)) = DataBits
  <2>1. FollowsScript("data", l, c, Stream(Zeros(DataBits), FALSE))
    BY ONLY <1>0, <1>1, <1>3, Follows, Zenon
  <2>2. Len(Stream(Zeros(DataBits), FALSE)) = DataBits
    BY <1>0, <1>1, <1>3 DEF Sends
  <2> QED BY <2>1, <2>2
<1>9. FollowsScript("finish", l, c, Stream(Zeros(3), TRUE) \o tap_move_from_exit_1_to_idle)
      /\ Len(Stream(Zeros(3), TRUE) \o tap_move_from_exit_1_to_idle) = 5
  <2>1. FollowsScript("finish", l, c, Stream(Zeros(3), TRUE) \o tap_move_from_exit_1_to_idle)
    BY ONLY <1>4, <1>5, <1>6, Follows, Zenon
  <2>2. Len(Stream(Zeros(3), TRUE) \o tap_move_from_exit_1_to_idle) = 5
    BY <1>4, <1>5, <1>6 DEF Sends
  <2> QED BY <2>1, <2>2
<1> QED BY ONLY <1>7, <1>8, <1>9, Zenon

(* What is shifted in, bit by bit.                                         *)
LEMMA TdiTable ==
    ASSUME NEW l, NEW c, NEW r
    PROVE  /\ TdiOf("identify", l, c, r) =
                IF r \in 6 .. l + 5 THEN OpcodeBit(Opcode.IDCODE, l + 6 - r) ELSE 0
           /\ TdiOf("command", l, c, r) =
                IF r \in 6 .. Size(c) + 5 THEN CommandBits(c)[Size(c) + 6 - r] ELSE 0
BY DEF TdiOf

(* The instruction is set, and a data register selected.                   *)
LEMMA IdentifySent ==
    ASSUME get_IR_size \in Nat \ {0}, NEW c \in AnyCall
    PROVE  LET q == SetIr(Opcode.IDCODE) \o tap_move_from_idle_to_shift_dr
           IN  FollowsScript("identify", get_IR_size, c, q) /\ Len(q) = get_IR_size + 9
<1> DEFINE l == get_IR_size
           op == Opcode.IDCODE
           q == SetIr(op) \o tap_move_from_idle_to_shift_dr
           T == {1, 2, l + 4, l + 5, l + 7}
           bits == [i \in 1 .. l + 9 |-> IF i \in 5 .. l + 4 THEN OpcodeBit(op, i - 4) ELSE 0]
<1>0. l \in Nat \ {0} /\ l \in Nat /\ l + 6 \in Nat /\ 3 \in Nat /\ l + 9 \in Nat
      /\ l + 6 + 3 = l + 9
  OBVIOUS
<1>1. Sends(SetIr(op), l + 6, {1, 2, l + 4, l + 5}, SetIrBits(op, l))
  BY SetIrSends, OpcodeBits
<1> HIDE DEF l, op
<1>2. Joined(l + 6, 3, {1, 2, l + 4, l + 5}, {1}, T, SetIrBits(op, l), Zeros(3), bits)
  <2>1. ASSUME NEW i \in 1 .. l + 6
        PROVE (i \in T <=> i \in {1, 2, l + 4, l + 5}) /\ bits[i] = SetIrBits(op, l)[i]
    BY <1>0 DEF SetIrBits
  <2>2. ASSUME NEW i \in 1 .. 3
        PROVE (l + 6 + i \in T <=> i \in {1}) /\ bits[l + 6 + i] = Zeros(3)[i]
    BY <1>0 DEF Zeros
  <2> QED BY <2>1, <2>2 DEF Joined
<1> HIDE DEF bits
<1>3. Sends(q, l + 6 + 3, T, bits)
  BY ONLY <1>0, <1>1, <1>2, Moves, SendsBoth, Zenon DEF q
<1>4. Matches("identify", l, c, l + 9, T, bits)
  <2>0. Clocks("identify", l, Size(c)) = l + 9
    BY <1>0, Script, ZenonT(60)
  <2>1. l + 9 <= Clocks("identify", l, Size(c))
    BY <1>0, <2>0
  <2>2. ASSUME NEW i \in 1 .. l + 9
        PROVE  /\ i \in T <=> l + 9 + 1 - i \in HasTms("identify", l, Size(c))
               /\ bits[i] = TdiOf("identify", l, c, l + 9 + 1 - i)
    <3>1. l + 9 + 1 - i \in Nat
      BY <1>0
    <3>2. HasTms("identify", l, Size(c)) = {3, 5, 6, l + 8, l + 9}
      BY <1>0, Script, Zenon
    <3>3. TdiOf("identify", l, c, l + 9 + 1 - i) =
             IF l + 9 + 1 - i \in 6 .. l + 5 THEN OpcodeBit(op, l + 6 - (l + 9 + 1 - i)) ELSE 0
      BY TdiTable DEF op
    <3>4. l + 6 - (l + 9 + 1 - i) = i - 4 /\ (l + 9 + 1 - i \in 6 .. l + 5 <=> i \in 5 .. l + 4)
      BY <1>0
    <3>5. bits[i] = IF i \in 5 .. l + 4 THEN OpcodeBit(op, i - 4) ELSE 0
      BY DEF bits
    <3>6. i \in T <=> l + 9 + 1 - i \in {3, 5, 6, l + 8, l + 9}
      BY <1>0
    <3> QED BY ONLY <3>2, <3>3, <3>4, <3>5, <3>6
  <2> QED BY <2>1, <2>2 DEF Matches
<1>5. FollowsScript("identify", l, c, q)
  BY ONLY <1>0, <1>3, <1>4, Follows, Zenon
<1>6. Len(q) = l + 9
  BY <1>0, <1>3 DEF Sends
<1> QED BY <1>5, <1>6 DEF l, op

(* Out of the data register, and the last opcode sent,                     *)
LEMMA ServingSent ==
    ASSUME get_IR_size \in Nat \ {0}, NEW c \in AnyCall, NEW op \in Seq(Bits)
    PROVE  LET q == tap_move_from_exit_1_to_idle \o SetIr(op)
           IN  /\ FollowsScript("serving", get_IR_size, c, q) /\ Len(q) = get_IR_size + 8
               /\ OpcodeAhead(op, get_IR_size, q)
<1> DEFINE l == get_IR_size
           q == tap_move_from_exit_1_to_idle \o SetIr(op)
           T == {1, 3, 4, l + 6, l + 7}
           bits == [i \in 1 .. l + 8 |-> IF i \in 7 .. l + 6 THEN OpcodeBit(op, i - 6) ELSE 0]
<1>0. l \in Nat \ {0} /\ l \in Nat /\ l + 6 \in Nat /\ 2 \in Nat /\ l + 8 \in Nat
      /\ 2 + (l + 6) = l + 8
  OBVIOUS
<1>1. Sends(SetIr(op), l + 6, {1, 2, l + 4, l + 5}, SetIrBits(op, l))
  BY SetIrSends
<1> HIDE DEF l
<1>2. Joined(2, l + 6, {1}, {1, 2, l + 4, l + 5}, T, Zeros(2), SetIrBits(op, l), bits)
  <2>1. ASSUME NEW i \in 1 .. 2
        PROVE (i \in T <=> i \in {1}) /\ bits[i] = Zeros(2)[i]
    BY <1>0 DEF Zeros
  <2>2. ASSUME NEW i \in 1 .. l + 6
        PROVE (2 + i \in T <=> i \in {1, 2, l + 4, l + 5}) /\ bits[2 + i] = SetIrBits(op, l)[i]
    <3>1. 2 + i \in T <=> i \in {1, 2, l + 4, l + 5}
      BY <1>0
    <3>2. 2 + i \in 1 .. l + 8 /\ (2 + i) - 6 = i - 4 /\ (2 + i \in 7 .. l + 6 <=> i \in 5 .. l + 4)
      BY <1>0
    <3>3. bits[2 + i] = IF i \in 5 .. l + 4 THEN OpcodeBit(op, i - 4) ELSE 0
      BY <3>2
    <3>4. SetIrBits(op, l)[i] = IF i \in 5 .. l + 4 THEN OpcodeBit(op, i - 4) ELSE 0
      BY DEF SetIrBits
    <3> QED BY <3>1, <3>3, <3>4
  <2> QED BY <2>1, <2>2 DEF Joined
<1> HIDE DEF bits
<1>3. Sends(q, 2 + (l + 6), T, bits)
  BY ONLY <1>0, <1>1, <1>2, Moves, SendsBoth, Zenon DEF q
<1>4. Matches("serving", l, c, l + 8, T, bits)
  <2>0. Clocks("serving", l, Size(c)) = l + 8
    BY <1>0, Script, Zenon
  <2>1. l + 8 <= Clocks("serving", l, Size(c))
    BY <1>0, <2>0
  <2>2. ASSUME NEW i \in 1 .. l + 8
        PROVE  i \in T <=> l + 8 + 1 - i \in HasTms("serving", l, Size(c))
    <3>2. HasTms("serving", l, Size(c)) = {2, 3, l + 5, l + 6, l + 8}
      BY <1>0, Script, Zenon
    <3>6. i \in T <=> l + 8 + 1 - i \in {2, 3, l + 5, l + 6, l + 8}
      BY <1>0
    <3> QED BY ONLY <3>2, <3>6
  <2> QED BY <2>1, <2>2 DEF Matches, Varied
<1>5. FollowsScript("serving", l, c, q)
  BY ONLY <1>0, <1>3, <1>4, Follows, Zenon
<1>6. Len(q) = l + 8
  BY <1>0, <1>3 DEF Sends
<1>7. OpcodeAhead(op, l, q)
  <2>1. ASSUME NEW i \in 1 .. l + 8
        PROVE  q[i].tdi = IF l + 8 + 1 - i \in 3 .. l + 2
                            THEN OpcodeBit(op, l + 3 - (l + 8 + 1 - i)) ELSE 0
    <3>1. q[i].tdi = bits[i]
      BY <1>0, <1>3 DEF Sends
    <3>2. l + 3 - (l + 8 + 1 - i) = i - 6 /\ (l + 8 + 1 - i \in 3 .. l + 2 <=> i \in 7 .. l + 6)
      BY <1>0
    <3>3. bits[i] = IF i \in 7 .. l + 6 THEN OpcodeBit(op, i - 6) ELSE 0
      BY DEF bits
    <3> QED BY ONLY <3>1, <3>2, <3>3
  <2> QED BY <1>6, <2>1 DEF OpcodeAhead
<1> QED BY <1>5, <1>6, <1>7 DEF l

(* A command is shifted in and latched.                                    *)
LEMMA CommandSent ==
    ASSUME NEW l \in Nat, NEW c \in Calls
    PROVE  LET q == tap_move_from_idle_to_shift_dr \o Stream(CommandBits(c), TRUE)
                      \o tap_move_from_exit_1_to_idle \o tap_move_from_idle_to_shift_dr
           IN  FollowsScript("command", l, c, q) /\ Len(q) = Size(c) + 8
<1> DEFINE m == Size(c)
           b == CommandBits(c)
           u == tap_move_from_idle_to_shift_dr
           v == tap_move_from_exit_1_to_idle
           q == u \o Stream(b, TRUE) \o v \o u
           T == {1, m + 3, m + 4, m + 6}
           f == [i \in 1 .. m + 3 |-> IF i \in 4 .. m + 3 THEN b[i - 3] ELSE 0]
           g == [i \in 1 .. m + 5 |-> IF i \in 4 .. m + 3 THEN b[i - 3] ELSE 0]
           bits == [i \in 1 .. m + 8 |-> IF i \in 4 .. m + 3 THEN b[i - 3] ELSE 0]
<1>0. m \in Nat \ {0} /\ m \in Nat /\ c \in AnyCall
  BY SizeNat DEF AnyCall
<1>1. b \in Seq(Bits)
  BY CommandIs, Zenon
<1>2. Len(b) = m
  BY CommandIs, Zenon
<1> HIDE DEF m, b
<1>3. Sends(Stream(b, TRUE), m, {m}, b)
  BY <1>1, <1>2, SendsStream
<1>4. Sends(u, 3, {1}, Zeros(3)) /\ Sends(v, 2, {1}, Zeros(2))
  BY Moves
<1> HIDE DEF u, v
<1>5. Joined(3, m, {1}, {m}, {1, m + 3}, Zeros(3), b, f)
  <2>1. ASSUME NEW i \in 1 .. 3
        PROVE (i \in {1, m + 3} <=> i \in {1}) /\ f[i] = Zeros(3)[i]
    BY <1>0 DEF Zeros
  <2>2. ASSUME NEW i \in 1 .. m
        PROVE (3 + i \in {1, m + 3} <=> i \in {m}) /\ f[3 + i] = b[i]
    <3>1. 3 + i \in 1 .. m + 3 /\ 3 + i \in 4 .. m + 3 /\ (3 + i) - 3 = i
      BY <1>0
    <3>2. f[3 + i] = b[(3 + i) - 3]
      BY <3>1
    <3> QED BY <1>0, <3>1, <3>2
  <2> QED BY <2>1, <2>2 DEF Joined
<1>6. Joined(3 + m, 2, {1, m + 3}, {1}, {1, m + 3, m + 4}, f, Zeros(2), g)
  <2>1. ASSUME NEW i \in 1 .. 3 + m
        PROVE (i \in {1, m + 3, m + 4} <=> i \in {1, m + 3}) /\ g[i] = f[i]
    BY <1>0
  <2>2. ASSUME NEW i \in 1 .. 2
        PROVE (3 + m + i \in {1, m + 3, m + 4} <=> i \in {1}) /\ g[3 + m + i] = Zeros(2)[i]
    BY <1>0 DEF Zeros
  <2> QED BY <2>1, <2>2 DEF Joined
<1>7. Joined(3 + m + 2, 3, {1, m + 3, m + 4}, {1}, T, g, Zeros(3), bits)
  <2>1. ASSUME NEW i \in 1 .. 3 + m + 2
        PROVE (i \in T <=> i \in {1, m + 3, m + 4}) /\ bits[i] = g[i]
    BY <1>0
  <2>2. ASSUME NEW i \in 1 .. 3
        PROVE (3 + m + 2 + i \in T <=> i \in {1}) /\ bits[3 + m + 2 + i] = Zeros(3)[i]
    BY <1>0 DEF Zeros
  <2> QED BY <2>1, <2>2 DEF Joined
<1> HIDE DEF f, g, bits
<1>8. /\ 3 \in Nat /\ 2 \in Nat /\ 3 + m \in Nat /\ 3 + m + 2 \in Nat /\ m + 8 \in Nat
      /\ 3 + m + 2 + 3 = m + 8
  BY <1>0
<1>9. Sends(u \o Stream(b, TRUE), 3 + m, {1, m + 3}, f)
  BY ONLY <1>0, <1>3, <1>4, <1>5, <1>8, SendsBoth, Zenon
<1>10. Sends(u \o Stream(b, TRUE) \o v, 3 + m + 2, {1, m + 3, m + 4}, g)
  <2>1. 3 + m \in Nat /\ 2 \in Nat /\ Sends(v, 2, {1}, Zeros(2))
    BY ONLY <1>4, <1>8, Zenon
  <2> QED BY ONLY <1>6, <1>9, <2>1, SendsBoth, ZenonT(60)
<1>11. Sends(q, 3 + m + 2 + 3, T, bits)
  <2>1. 3 + m + 2 \in Nat /\ 3 \in Nat /\ Sends(u, 3, {1}, Zeros(3))
    BY ONLY <1>4, <1>8, Zenon
  <2> DEFINE k == 3 + m + 2
             w == u \o Stream(b, TRUE) \o v
             U == {1, m + 3, m + 4}
  <2>2. k \in Nat /\ 3 \in Nat /\ Sends(w, k, U, g) /\ Sends(u, 3, {1}, Zeros(3))
        /\ Joined(k, 3, U, {1}, T, g, Zeros(3), bits)
    BY <1>7, <1>10, <2>1
  <2> HIDE DEF k, w, U, T
  <2>3. Sends(w \o u, k + 3, T, bits)
    BY ONLY <2>2, SendsBoth, Zenon
  <2> QED BY <2>3 DEF k, w, U, T
<1>12. Matches("command", l, c, m + 8, T, bits)
  <2>0. Clocks("command", l, Size(c)) = m + 8
    BY <1>0, Script, Zenon DEF m
  <2>1. m + 8 <= Clocks("command", l, Size(c))
    BY <1>0, <2>0
  <2>2. ASSUME NEW i \in 1 .. m + 8
        PROVE  /\ i \in T <=> m + 8 + 1 - i \in HasTms("command", l, Size(c))
               /\ bits[i] = TdiOf("command", l, c, m + 8 + 1 - i)
    <3>2. HasTms("command", l, Size(c)) = {3, 5, 6, m + 8}
      BY <1>0, Script, Zenon DEF m
    <3>3. TdiOf("command", l, c, m + 8 + 1 - i) =
             IF m + 8 + 1 - i \in 6 .. m + 5 THEN b[m + 6 - (m + 8 + 1 - i)] ELSE 0
      BY TdiTable DEF m, b
    <3>4. m + 6 - (m + 8 + 1 - i) = i - 3 /\ (m + 8 + 1 - i \in 6 .. m + 5 <=> i \in 4 .. m + 3)
      BY <1>0
    <3>5. bits[i] = IF i \in 4 .. m + 3 THEN b[i - 3] ELSE 0
      BY DEF bits
    <3>6. i \in T <=> m + 8 + 1 - i \in {3, 5, 6, m + 8}
      BY <1>0
    <3> QED BY ONLY <3>2, <3>3, <3>4, <3>5, <3>6
  <2> QED BY <2>1, <2>2 DEF Matches
<1>13. FollowsScript("command", l, c, q)
  BY ONLY <1>8, <1>11, <1>12, Follows, Zenon
<1>14. Len(q) = m + 8
  BY <1>8, <1>11 DEF Sends
<1> QED BY <1>13, <1>14 DEF m, b, u, v

(* Two sequences of packets.                                               *)
LEMMA PacketsInTwo ==
    ASSUME NEW a \in Seq(Packet), NEW b \in Seq(Packet)
    PROVE  /\ a \o b \in Seq(Packet) /\ Len(a \o b) = Len(a) + Len(b)
           /\ \A i \in 1 .. Len(a) : (a \o b)[i] = a[i]
           /\ \A i \in 1 .. Len(b) : (a \o b)[Len(a) + i] = b[i]
OBVIOUS

(* The reset of the TAPs.                                                  *)
LEMMA ResetSent ==
    ASSUME NEW l \in Nat, NEW c \in AnyCall
    PROVE  LET q == tap_reset \o tap_move_from_idle_to_shift_dr
           IN  FollowsScript("next device", l, c, q) /\ Len(q) = 14
<1> DEFINE a == tap_reset
           b == tap_move_from_idle_to_shift_dr
           q == a \o b
<1>1. a \in Seq(Packet) /\ Len(a) = 11
  BY PacketParts DEF tap_reset
<1>2. /\ a[1] = Zero /\ a[2] = TMS /\ a[3] = TMS /\ a[4] = TMS /\ a[5] = TMS /\ a[6] = TMS
      /\ a[7] = TMS /\ a[8] = TMS /\ a[9] = TMS /\ a[10] = TRST /\ a[11] = Zero
  BY DEF tap_reset
<1>3. b \in Seq(Packet) /\ Len(b) = 3 /\ b[1] = TMS /\ b[2] = Zero /\ b[3] = Zero
  BY PacketParts DEF tap_move_from_idle_to_shift_dr
<1> HIDE DEF a, b
<1>0. /\ q \in Seq(Packet) /\ Len(q) = Len(a) + Len(b)
      /\ \A i \in 1 .. Len(a) : q[i] = a[i]
      /\ \A i \in 1 .. Len(b) : q[Len(a) + i] = b[i]
  BY <1>1, <1>3, PacketsInTwo, Zenon
<1> HIDE DEF q
<1>4. q \in Seq(Packet) /\ Len(q) = 14
  BY ONLY <1>0, <1>1, <1>3
<1>5. /\ q[1] = Zero /\ q[2] = TMS /\ q[3] = TMS /\ q[4] = TMS /\ q[5] = TMS /\ q[6] = TMS
      /\ q[7] = TMS /\ q[8] = TMS /\ q[9] = TMS /\ q[10] = TRST /\ q[11] = Zero
  <2>1. \A i \in 1 .. 11 : q[i] = a[i]
    BY ONLY <1>0, <1>1
  <2> QED BY ONLY <1>2, <2>1
<1>6. q[12] = TMS /\ q[13] = Zero /\ q[14] = Zero
  <2>1. \A i \in 1 .. 3 : q[11 + i] = b[i]
    BY ONLY <1>0, <1>1, <1>3
  <2>2. q[11 + 1] = b[1] /\ q[11 + 2] = b[2] /\ q[11 + 3] = b[3]
    BY ONLY <2>1
  <2>3. 11 + 1 = 12 /\ 11 + 2 = 13 /\ 11 + 3 = 14
    OBVIOUS
  <2> QED BY ONLY <1>3, <2>2, <2>3
<1> HIDE DEF q
<1> DEFINE D(i) == /\ q[i].tms = IF 14 + 1 - i \in 6 .. 13 \cup {3} THEN 1 ELSE 0
                   /\ q[i].trst <=> 14 + 1 - i = 5
                   /\ q[i].tdi = 0
<1>7. \A i \in 1 .. 14 : D(i)
  <2>1. D(1) /\ D(2) /\ D(3) /\ D(4)
    BY <1>5, PacketParts
  <2>2. D(5) /\ D(6) /\ D(7) /\ D(8)
    BY <1>5, PacketParts
  <2>3. D(9) /\ D(10) /\ D(11)
    BY <1>5, PacketParts
  <2>4. D(12) /\ D(13) /\ D(14)
    BY <1>6, PacketParts
  <2> HIDE DEF D
  <2>5. \A i \in 1 .. 14 : i \in {1, 2, 3, 4, 5, 6, 7, 8, 9, 10, 11, 12, 13, 14}
    OBVIOUS
  <2> QED BY ONLY <2>1, <2>2, <2>3, <2>4, <2>5
<1>8. Clocks("next device", l, Size(c)) = 14
      /\ HasTms("next device", l, Size(c)) = 6 .. 13 \cup {3}
  BY Script, Zenon
<1>9. 14 <= Clocks("next device", l, Size(c))
  <2> DEFINE k == Clocks("next device", l, Size(c))
  <2>1. k = 14
    BY <1>8
  <2> HIDE DEF k
  <2>2. 14 <= k
    BY ONLY <2>1
  <2> QED BY <2>2 DEF k
<1>10. \A r : TdiOf("next device", l, c, r) = 0
  BY TdiZero, Zenon
<1>11. ASSUME NEW i \in 1 .. 14
       PROVE  /\ q[i].tms = IF 14 + 1 - i \in HasTms("next device", l, Size(c)) THEN 1 ELSE 0
              /\ q[i].trst <=> ("next device" = "next device" /\ 14 + 1 - i = 5)
              /\ q[i].tdi = TdiOf("next device", l, c, 14 + 1 - i)
  BY ONLY <1>7, <1>8, <1>10, i \in 1 .. 14
<1>12. FollowsScript("next device", l, c, q)
  BY <1>4, <1>9, <1>11 DEF FollowsScript
<1> QED BY <1>4, <1>12 DEF q, a, b

(* The marker.                                                             *)
MarkerStream(n, k) == Stream([i \in 1 .. n |-> IF k + i <= MarkerBits THEN 1 ELSE 0], FALSE)

(* The marker, from its k-th bit on.                                       *)
LEMMA MarkerSent ==
    ASSUME NEW l \in Nat, NEW c \in AnyCall, NEW n \in Nat, NEW k \in Nat,
           NEW at \in Enumerating, n = Clocks(at, l, Size(c))
    PROVE  /\ FollowsScript(at, l, c, MarkerStream(n, k)) /\ Len(MarkerStream(n, k)) = n
           /\ \A i \in 1 .. n : MarkerStream(n, k)[i].tdi = Marker(k + i)
<1> DEFINE b == [i \in 1 .. n |-> IF k + i <= MarkerBits THEN 1 ELSE 0]
           q == Stream(b, FALSE)
<1>1. b \in Seq(Bits) /\ Len(b) = n /\ \A i \in 1 .. n : b[i] = Marker(k + i)
  BY DEF Bits, Marker
<1> HIDE DEF b
<1>2. Sends(q, n, {}, b)
  BY <1>1, SendsStream
<1> HIDE DEF q
<1>3. n <= Clocks(at, l, Size(c))
  <2> DEFINE m == Clocks(at, l, Size(c))
  <2>1. n = m /\ n \in Nat
    OBVIOUS
  <2> HIDE DEF m
  <2>2. n <= m
    BY <2>1
  <2> QED BY <2>2 DEF m
<1>4. HasTms(at, l, Size(c)) = {}
  <2>1. \A x \in {"start bit", "manufacturer", "rest", "ack", "error", "data"} :
           HasTms(x, l, Size(c)) = {}
    BY Script, Zenon
  <2> QED BY <2>1 DEF Enumerating
<1>5. Matches(at, l, c, n, {}, b)
  BY <1>3, <1>4 DEF Matches, Varied
<1>6. at # "next device"
  BY DEF Enumerating
<1>7. FollowsScript(at, l, c, q)
  BY ONLY <1>2, <1>5, <1>6, n \in Nat, Follows, Zenon
<1>8. Len(q) = n /\ \A i \in 1 .. n : q[i].tdi = Marker(k + i)
  BY <1>1, <1>2 DEF Sends
<1> QED BY <1>7, <1>8 DEF q, b, MarkerStream

-----------------------------------------------------------------------------
(* The program follows its scripts.                                        *)

\* The labels at whose every clock the TAPs shift data.
AlwaysShift == {"start bit", "manufacturer", "rest", "enumerated", "ack", "error", "data"}

(* Reading the ID codes and the answers, the TAPs shift data throughout;   *)
(* before the program has clocked them, they may be anywhere.              *)
LEMMA WhereThroughout ==
    ASSUME NEW l, NEW m
    PROVE  /\ \A r : \A at \in AlwaysShift : Where(at, l, m, r) = {"shift_dr"}
           /\ \A r \in Nat \ {0} : Where("idcode", l, m, r) = {"shift_dr"}
           /\ \A r : Where("started", l, m, r) = State
<1>1. \A r : \A at \in AlwaysShift : Where(at, l, m, r) = {"shift_dr"}
  BY DEF Where, AlwaysShift
<1>2. /\ \A r \in Nat \ {0} : Where("idcode", l, m, r) = {"shift_dr"}
      /\ \A r : Where("started", l, m, r) = State
  BY DEF Where
<1> QED BY <1>1, <1>2

(* The states the scripts begin and end in.                                *)
LEMMA WhereTable ==
    ASSUME NEW l \in Nat \ {0}, NEW m \in Nat \ {0}
    PROVE  /\ Where("next device", l, m, 14) = State /\ Where("next device", l, m, 0) = {"shift_dr"}
           /\ Where("configure", l, m, 3) = {"shift_dr"}
           /\ Where("configure", l, m, 0) = {"run_test_idle"}
           /\ Where("identify", l, m, l + 9) = {"run_test_idle"}
           /\ Where("identify", l, m, 0) = {"shift_dr"}
           /\ Where("idcode", l, m, 0) = {"exit1_dr"}
           /\ Where("serving", l, m, l + 8) = {"exit1_dr"}
           /\ Where("serving", l, m, 0) = {"run_test_idle"}
           /\ Where("command", l, m, m + 8) = {"run_test_idle"}
           /\ Where("command", l, m, 0) = {"shift_dr"}
           /\ Where("finish", l, m, 5) = {"shift_dr"}
           /\ Where("finish", l, m, 0) = {"run_test_idle"}
           /\ Where("exit", l, m, 2) = {"exit1_dr"} /\ Where("exit", l, m, 0) = State
<1>1. Where("next device", l, m, 14) = State /\ Where("next device", l, m, 0) = {"shift_dr"}
  <2>1. WhereReset(14) = Near(14 - 8)
    BY DEF WhereReset
  <2>2. Near(14 - 8) = State
    BY States DEF Near
  <2>3. WhereReset(0) = {"shift_dr"}
    BY DEF WhereReset
  <2> QED BY <2>1, <2>2, <2>3 DEF Where
<1>3. WhereEnding(0) = {"run_test_idle"} /\ WhereEnding(2) = {"exit1_dr"}
      /\ WhereEnding(3) = {"shift_dr"} /\ WhereEnding(5) = {"shift_dr"}
  BY DEF WhereEnding
<1>4. WhereIdentify(l, l + 9) = {"run_test_idle"} /\ WhereIdentify(l, 0) = {"shift_dr"}
  BY DEF WhereIdentify
<1>5. WhereServing(l, l + 8) = {"exit1_dr"} /\ WhereServing(l, 0) = {"run_test_idle"}
  BY DEF WhereServing
<1>6. WhereCommand(m, m + 8) = {"run_test_idle"} /\ WhereCommand(m, 0) = {"shift_dr"}
  BY DEF WhereCommand
<1>7. /\ Where("configure", l, m, 3) = WhereEnding(3)
      /\ Where("configure", l, m, 0) = WhereEnding(0)
      /\ Where("finish", l, m, 5) = WhereEnding(5) /\ Where("finish", l, m, 0) = WhereEnding(0)
      /\ Where("exit", l, m, 2) = WhereEnding(2) /\ Where("exit", l, m, 0) = State
  BY DEF Where
<1>8. /\ Where("identify", l, m, l + 9) = WhereIdentify(l, l + 9)
      /\ Where("identify", l, m, 0) = WhereIdentify(l, 0)
      /\ Where("serving", l, m, l + 8) = WhereServing(l, l + 8)
      /\ Where("serving", l, m, 0) = WhereServing(l, 0)
      /\ Where("command", l, m, m + 8) = WhereCommand(m, m + 8)
      /\ Where("command", l, m, 0) = WhereCommand(m, 0)
  BY DEF Where
<1>9. Where("idcode", l, m, 0) = {"exit1_dr"}
  BY DEF Where
<1> QED BY <1>1, <1>3, <1>4, <1>5, <1>6, <1>7, <1>8, <1>9

(* What is known depends on the setup and on the devices discovered.       *)
LEMMA ConfiguredStays ==
    ASSUME UNCHANGED <<setup, discovered>>
    PROVE  /\ IsConfigured' <=> IsConfigured
           /\ get_IR_size' = get_IR_size /\ get_debug_cmd' = get_debug_cmd
BY DEF IsConfigured, get_IR_size, get_debug_cmd, bsdl_get_debug_cmd, KnowsTarget, Target

(* A step of the program leaves the hardware alone, and a step of the      *)
(* hardware the program.                                                   *)
Silent ==
    \/ ResetTap \/ NextDevice \/ StartBit \/ ManufacturerCode \/ RestOfIdCode
    \/ Enumerated \/ ConfigureChain \/ JtagGetIdCode \/ SanityCheck
    \/ PollAck \/ IsStalled \/ ErrorBit \/ ReadSpr \/ SprRead \/ Return
    \/ (\E c \in Calls : Call(c)) \/ Fail \/ Start

(* A step that only the CPU notices, or none.                              *)
Still == UNCHANGED <<setup, tap, devs, dbg, program, taken>>

(* Every step is a clock, an answer of the CPU, a step between clocks, or  *)
(* one that only the CPU notices.                                          *)
LEMMA ThreeKinds ==
    ASSUME [Next]_vars
    PROVE  Clock \/ CpuAnswers \/ Silent \/ (Still /\ abandoned' \in {FALSE, abandoned})
<1>1. CASE CpuRealises
  BY <1>1 DEF CpuRealises, Still
<1>2. CASE UNCHANGED vars
  BY <1>2 DEF vars, hardware, Still
<1>3. CASE Next /\ ~CpuRealises
  BY Zenon, <1>3 DEF Next, ProgramStep, Silent
<1> QED BY <1>1, <1>2, <1>3

(* The latter leave the hardware alone.                                    *)
LEMMA SilentIsSilent ==
    ASSUME Silent PROVE UNCHANGED <<setup, tap, devs, dbg, abandoned>>
BY DEF Silent, ResetTap, NextDevice, StartBit, ManufacturerCode, RestOfIdCode, Enumerated,
       ConfigureChain, JtagGetIdCode, SanityCheck, PollAck, IsStalled, ErrorBit, ReadSpr,
       SprRead, Return, Call, Fail, Start, hardware

(* What the program knows stays true.                                      *)
LEMMA BaseSilent ==
    ASSUME Base, Silent
    PROVE  Base'
<1>1. UNCHANGED <<setup, tap>>
  BY SilentIsSilent
<1>11. sent' \in 0 .. MarkerBits
  <2>0. sent \in 0 .. MarkerBits /\ MarkerBits \in Nat /\ ManufBits \in Nat /\ RestBits \in Nat
    BY Sizes DEF Base
  <2>1. ASSUME NEW n \in Nat, NEW at, SendMarker(n, at) PROVE sent' \in 0 .. MarkerBits
    BY <2>0, <2>1 DEF SendMarker
  <2>2. CASE NextDevice \/ StartBit \/ ManufacturerCode
    <3>1. \/ UNCHANGED sent
          \/ SendMarker(1, "start bit") \/ SendMarker(ManufBits, "manufacturer")
          \/ SendMarker(RestBits, "rest")
      BY <2>2 DEF NextDevice, StartBit, ManufacturerCode
    <3>2. 1 \in Nat
      OBVIOUS
    <3> QED BY <2>0, <2>1, <3>1, <3>2
  <2>3. CASE Start
    BY <2>0, <2>3 DEF Start
  <2>4. CASE ~(NextDevice \/ StartBit \/ ManufacturerCode \/ Start)
    <3>1. UNCHANGED sent
      BY <2>4 DEF Silent, ResetTap, RestOfIdCode, Enumerated, ConfigureChain, JtagGetIdCode,
         SanityCheck, PollAck, IsStalled, ErrorBit, ReadSpr, SprRead, Return, Call, Fail
    <3> QED BY <2>0, <3>1
  <2> QED BY <2>2, <2>3, <2>4
<1>2. setup' \in Setups /\ tap' \in State /\ sent' \in 0 .. MarkerBits
  BY <1>1, <1>11 DEF Base
<1> DEFINE Stay == UNCHANGED <<discovered, call>>
<1>3. CASE ResetTap \/ NextDevice \/ ManufacturerCode \/ Enumerated
  <2>1. Stay /\ pc' \in {"next device", "start bit", "enumerated", "rest", "configure", "exit"}
    BY <1>3 DEF ResetTap, NextDevice, ManufacturerCode, Enumerated, Send, SendMarker, Quit
  <2> QED BY <1>2, <2>1 DEF Base, Configured, InCall, Labels
<1>4. CASE StartBit \/ RestOfIdCode \/ Start
  <2>1. pc' \in {"next device", "manufacturer", "started"} /\ call' = call
    BY <1>4 DEF StartBit, RestOfIdCode, Discover, SendMarker, Send, Start
  <2> QED BY <1>2, <2>1 DEF Base, Configured, InCall, Labels
<1>5. CASE ConfigureChain
  <2>1. Stay /\ (pc' = "exit" \/ pc' = "identify")
    BY <1>5 DEF ConfigureChain, Send
  <2>2. pc' = "identify" => IsConfigured
    <3> SUFFICES ASSUME pc' = "identify" PROVE IsConfigured
      OBVIOUS
    <3>1. /\ Len(discovered) = 1 /\ setup.target = 0
          /\ get_IR_size # 0 /\ get_debug_cmd # <<>> /\ bsdl_get_idcode_cmd # <<>>
      BY <1>5 DEF ConfigureChain, Send
    <3>2. KnowsTarget
      BY <3>1 DEF bsdl_get_idcode_cmd
    <3>3. get_debug_cmd \in Seq(Bits) /\ get_debug_cmd # <<>>
      <4>1. setup.debug_cmd \in Seq(Bits)
        BY ChainAssumption DEF Base
      <4> QED BY <3>1, <4>1, OpcodeBits DEF get_debug_cmd, bsdl_get_debug_cmd
    <3>4. setup.ir_length \in Nat
      BY ChainAssumption DEF Base
    <3>5. get_IR_size \in Nat \ {0}
      BY <3>1, <3>4 DEF get_IR_size, IrLength
    <3> QED BY <3>1, <3>2, <3>3, <3>5 DEF IsConfigured
  <2>3. pc' = "identify" => IsConfigured'
    BY <1>1, <2>1, <2>2, ConfiguredStays
  <2> QED BY <1>2, <2>1, <2>3 DEF Base, Configured, InCall, Labels
<1>6. CASE JtagGetIdCode \/ SanityCheck
  <2>1. Stay /\ pc' \in {"idcode", "serving", "exit"} /\ pc \in {"identify", "idcode"}
    BY <1>6 DEF JtagGetIdCode, SanityCheck, Send, At
  <2>2. IsConfigured'
    BY <1>1, <2>1, ConfiguredStays DEF Base, Configured
  <2> QED BY <1>2, <2>1, <2>2 DEF Base, Configured, InCall, Labels
<1>7. CASE PollAck \/ IsStalled \/ ErrorBit \/ ReadSpr \/ SprRead
  <2>1. Stay /\ pc' \in {"ack", "error", "data", "finish"} /\ InCall
    BY <1>7 DEF PollAck, IsStalled, ErrorBit, ReadSpr, SprRead, Send, At, InCall,
                finish_and_leave_a_dbg_nop_cmd_in_place
  <2>2. IsConfigured'
    BY <1>1, <2>1, ConfiguredStays DEF Base, Configured
  <2> QED BY <1>2, <2>1, <2>2 DEF Base, Configured, InCall, Labels
<1>8. CASE Return
  <2>1. Stay /\ pc' = "serving" /\ InCall
    BY <1>8 DEF Return, Send, At, InCall
  <2>2. IsConfigured'
    BY <1>1, <2>1, ConfiguredStays DEF Base, Configured
  <2> QED BY <1>2, <2>1, <2>2 DEF Base, Configured, InCall, Labels
<1>9. CASE \E c \in Calls : Call(c)
  <2>1. UNCHANGED discovered /\ pc' = "command" /\ pc = "serving" /\ call' \in Calls
    BY <1>9 DEF Call, Send, At
  <2>2. IsConfigured'
    BY <1>1, <2>1, ConfiguredStays DEF Base, Configured
  <2> QED BY <1>2, <2>1, <2>2 DEF Base, Configured, InCall, Labels, AnyCall
<1>10. CASE Fail
  <2>1. Stay /\ (pc' = "exit" \/ (pc' = "serving" /\ InCall))
    BY <1>10 DEF Fail, Send
  <2>2. pc' = "serving" => IsConfigured'
    BY <1>1, <2>1, ConfiguredStays DEF Base, Configured
  <2> QED BY <1>2, <2>1, <2>2 DEF Base, Configured, InCall, Labels
<1> QED BY <1>3, <1>4, <1>5, <1>6, <1>7, <1>8, <1>9, <1>10 DEF Silent

(* Once a label's clocks have been made, the TAPs are where it leads.      *)
LEMMA Landed ==
    ASSUME Base, OnScript, todo = <<>>
    PROVE  /\ pc \in {"next device", "start bit", "manufacturer", "rest", "enumerated", "identify",
                      "command", "ack", "error", "data"} => tap = "shift_dr"
           /\ pc \in {"configure", "serving", "finish"} => tap = "run_test_idle"
           /\ pc = "idcode" => tap = "exit1_dr"
<1> DEFINE l == IrBits
           m == Size(call)
<1>1. l \in Nat \ {0}
  BY DEF Base, Configured, IsConfigured, IrBits
<1>2. m \in Nat \ {0}
  BY SizeNat DEF Base
<1>3. tap \in Where(pc, l, m, 0)
  <2>1. Len(todo) = 0
    OBVIOUS
  <2> QED BY <2>1 DEF OnScript
<1> HIDE DEF l, m
<1>4. CASE pc \in {"start bit", "manufacturer", "rest", "enumerated", "ack", "error", "data"}
  <2>1. Where(pc, l, m, 0) = {"shift_dr"}
    <3>1. pc \in AlwaysShift
      BY <1>4 DEF AlwaysShift
    <3> QED BY <3>1, WhereThroughout
  <2> QED BY <1>3, <1>4, <2>1
<1>5. Where("next device", l, m, 0) = {"shift_dr"} /\ Where("identify", l, m, 0) = {"shift_dr"}
      /\ Where("command", l, m, 0) = {"shift_dr"}
  BY <1>1, <1>2, WhereTable, Zenon
<1>6. Where("configure", l, m, 0) = {"run_test_idle"} /\ Where("idcode", l, m, 0) = {"exit1_dr"}
      /\ Where("serving", l, m, 0) = {"run_test_idle"}
      /\ Where("finish", l, m, 0) = {"run_test_idle"}
  BY <1>1, <1>2, WhereTable, Zenon
<1> QED BY ONLY <1>3, <1>4, <1>5, <1>6

(* Each step of the program sends the script of its label.                 *)
LEMMA ScriptSilent ==
    ASSUME Base, Base', OnScript, ~CatchErrors, Silent
    PROVE  OnScript'
<1> DEFINE l == IrBits'
           m == Size(call')
           F(at) == FollowsScript(at, l, call', todo')
           W(at) == tap' \in Where(at, l, m, Len(todo'))
<1>0. tap' = tap /\ tap \in State /\ call' \in AnyCall
  BY SilentIsSilent DEF Base
<1>1. l \in Nat \ {0} /\ l \in Nat
  BY DEF Base, Configured, IsConfigured, IrBits
<1>2. m \in Nat \ {0} /\ m \in Nat
  BY <1>0, SizeNat
<1>3. ASSUME F(pc'), W(pc'), pc' \in {"started", "enumerated"} => todo' = <<>>
      PROVE  OnScript'
  BY <1>3 DEF OnScript
<1>4. \A at : F(at) = FollowsScript(at, l, call', todo')
  OBVIOUS
<1>5. l = IF pc' \in {"identify", "idcode", "serving"} THEN get_IR_size' ELSE 1
  BY DEF IrBits
<1> HIDE DEF l, m
<1>6. ASSUME todo' = <<>> PROVE F(pc') /\ Len(todo') = 0
  <2>1. FollowsScript(pc', l, call', <<>>)
    BY <1>0, <1>1, SizeNat, NoClocks DEF Base
  <2> QED BY <1>6, <2>1
<1>7. /\ Where("next device", l, m, 14) = State /\ Where("next device", l, m, 0) = {"shift_dr"}
      /\ \A r : \A at \in {"start bit", "manufacturer", "rest", "enumerated", "ack", "error",
                           "data"} : Where(at, l, m, r) = {"shift_dr"}
      /\ Where("configure", l, m, 3) = {"shift_dr"}
      /\ Where("identify", l, m, l + 9) = {"run_test_idle"}
  <2>1. /\ Where("next device", l, m, 14) = State /\ Where("next device", l, m, 0) = {"shift_dr"}
        /\ Where("configure", l, m, 3) = {"shift_dr"}
        /\ Where("identify", l, m, l + 9) = {"run_test_idle"}
    BY <1>1, <1>2, WhereTable, ZenonT(60)
  <2>2. \A r : \A at \in AlwaysShift : Where(at, l, m, r) = {"shift_dr"}
    BY ONLY WhereThroughout
  <2> QED BY ONLY <2>1, <2>2 DEF AlwaysShift
<1>8. /\ Where("idcode", l, m, IdBits) = {"shift_dr"}
      /\ Where("serving", l, m, l + 8) = {"exit1_dr"}
      /\ Where("serving", l, m, 0) = {"run_test_idle"}
      /\ Where("command", l, m, m + 8) = {"run_test_idle"}
      /\ Where("finish", l, m, 5) = {"shift_dr"}
      /\ Where("exit", l, m, 2) = {"exit1_dr"} /\ Where("exit", l, m, 0) = State
      /\ Where("started", l, m, 0) = State
  <2>1. IdBits \in Nat \ {0}
    BY Sizes
  <2>2. \A r \in Nat \ {0} : Where("idcode", l, m, r) = {"shift_dr"}
    BY WhereThroughout
  <2>3. /\ Where("serving", l, m, l + 8) = {"exit1_dr"}
        /\ Where("serving", l, m, 0) = {"run_test_idle"}
        /\ Where("command", l, m, m + 8) = {"run_test_idle"}
        /\ Where("finish", l, m, 5) = {"shift_dr"}
        /\ Where("exit", l, m, 2) = {"exit1_dr"} /\ Where("exit", l, m, 0) = State
    BY <1>1, <1>2, WhereTable, Zenon
  <2>4. \A r : Where("started", l, m, r) = State
    BY WhereThroughout
  <2> QED BY <2>1, <2>2, <2>3, <2>4
<1>9. CASE ResetTap
  <2>1. pc' = "next device" /\ todo' = tap_reset \o tap_move_from_idle_to_shift_dr
    BY <1>9 DEF ResetTap, Send
  <2>2. F("next device") /\ Len(todo') = 14
    BY <1>0, <1>1, <2>1, ResetSent
  <2>3. W("next device")
    BY <1>0, <1>7, <2>2
  <2> QED BY <1>3, <2>1, <2>2, <2>3
<1>10. CASE NextDevice \/ StartBit \/ ManufacturerCode \/ RestOfIdCode
  <2>1. todo = <<>> /\ pc \in {"next device", "start bit", "manufacturer", "rest"}
    BY <1>10 DEF NextDevice, StartBit, ManufacturerCode, RestOfIdCode, At
  <2>2. tap = "shift_dr"
    BY <2>1, Landed
  <2>3. \/ todo' = <<>> /\ pc' \in {"next device", "enumerated"}
        \/ /\ SendMarker(1, "start bit") \/ SendMarker(ManufBits, "manufacturer")
              \/ SendMarker(RestBits, "rest")
    BY <1>10 DEF NextDevice, StartBit, ManufacturerCode, RestOfIdCode, Discover, Send
  <2>4. CASE todo' = <<>> /\ pc' \in {"next device", "enumerated"}
    <3>1. W(pc')
      BY <1>0, <1>6, <1>7, <2>2, <2>4
    <3> QED BY <1>3, <1>6, <2>4, <3>1
  <2>5. ASSUME NEW n \in Nat, NEW at \in Enumerating, n = Clocks(at, l, Size(call')),
               SendMarker(n, at)
        PROVE OnScript'
    <3> DEFINE q == MarkerStream(n, sent)
    <3>0. sent \in Nat
      BY DEF Base
    <3>1. pc' = at /\ todo' = q
      BY <2>5 DEF SendMarker, Send, MarkerStream
    <3>2. FollowsScript(at, l, call', q)
      <4>1. call' \in AnyCall /\ l \in Nat /\ n \in Nat /\ at \in Enumerating
            /\ n = Clocks(at, l, Size(call'))
        BY <1>0, <1>1, <2>5
      <4> QED BY ONLY <3>0, <4>1, MarkerSent, Zenon
    <3>3. W(at)
      BY <1>0, <1>7, <2>2 DEF Enumerating
    <3>4. at \notin {"started", "enumerated"}
      BY DEF Enumerating
    <3> HIDE DEF q
    <3> QED BY <1>3, <3>1, <3>2, <3>3, <3>4
  <2>6. /\ Clocks("start bit", l, Size(call')) = 1
        /\ Clocks("manufacturer", l, Size(call')) = ManufBits
        /\ Clocks("rest", l, Size(call')) = RestBits
    BY <1>0, <1>1, Script, Zenon
  <2>7. 1 \in Nat /\ ManufBits \in Nat /\ RestBits \in Nat
        /\ "start bit" \in Enumerating /\ "manufacturer" \in Enumerating /\ "rest" \in Enumerating
    BY Sizes DEF Enumerating
  <2> QED BY ONLY <2>3, <2>4, <2>5, <2>6, <2>7, Zenon
<1>11. CASE Enumerated
  <2>1. todo = <<>> /\ pc = "enumerated" /\ UNCHANGED call
        /\ \/ todo' = <<>> /\ pc' = "exit"
           \/ todo' = <<TMS>> \o tap_move_from_exit_1_to_idle /\ pc' = "configure"
    BY <1>11 DEF Enumerated, At, Send, Quit
  <2>2. tap = "shift_dr"
    BY <2>1, Landed
  <2>3. CASE todo' = <<>> /\ pc' = "exit"
    <3>1. W(pc')
      BY <1>0, <1>6, <1>8, <2>3
    <3> QED BY <1>3, <1>6, <2>3, <3>1
  <2>4. CASE todo' = <<TMS>> \o tap_move_from_exit_1_to_idle /\ pc' = "configure"
    <3>1. F("configure") /\ Len(todo') = 3
      BY <1>0, <1>1, <2>4, ShortScripts, Zenon
    <3>2. W("configure")
      BY <1>0, <1>7, <2>2, <3>1
    <3> QED BY <1>3, <2>4, <3>1, <3>2
  <2> QED BY <2>1, <2>3, <2>4
<1>12. CASE ConfigureChain
  <2>1. todo = <<>> /\ pc = "configure"
        /\ \/ todo' = <<>> /\ pc' = "exit"
           \/ /\ todo' = SetIr(bsdl_get_idcode_cmd) \o tap_move_from_idle_to_shift_dr
              /\ pc' = "identify" /\ bsdl_get_idcode_cmd # <<>>
    BY <1>12 DEF ConfigureChain, At, Send
  <2>2. tap = "run_test_idle"
    BY <2>1, Landed
  <2>3. CASE todo' = <<>> /\ pc' = "exit"
    <3>1. W(pc')
      BY <1>0, <1>6, <1>8, <2>3
    <3> QED BY <1>3, <1>6, <2>3, <3>1
  <2>4. CASE todo' = SetIr(bsdl_get_idcode_cmd) \o tap_move_from_idle_to_shift_dr
             /\ pc' = "identify" /\ bsdl_get_idcode_cmd # <<>>
    <3>1. bsdl_get_idcode_cmd = Opcode.IDCODE
      BY <2>4 DEF bsdl_get_idcode_cmd
    <3>2. get_IR_size = l
      <4>1. UNCHANGED <<setup, discovered>>
        BY <1>12 DEF ConfigureChain
      <4> QED BY <1>5, <2>4, <4>1, ConfiguredStays
    <3> DEFINE q == SetIr(Opcode.IDCODE) \o tap_move_from_idle_to_shift_dr
    <3>3. FollowsScript("identify", get_IR_size, call', q) /\ Len(q) = get_IR_size + 9
      BY <1>0, <1>1, <3>2, IdentifySent
    <3>4. F("identify") /\ Len(todo') = l + 9
      BY <2>4, <3>1, <3>2, <3>3
    <3>5. W("identify")
      BY <1>0, <1>7, <2>2, <3>4
    <3> QED BY <1>3, <2>4, <3>4, <3>5
  <2> QED BY <2>1, <2>3, <2>4
<1>13. CASE JtagGetIdCode
  <2>1. todo = <<>> /\ pc = "identify" /\ pc' = "idcode" /\ todo' = Stream(Zeros(IdBits), TRUE)
    BY <1>13 DEF JtagGetIdCode, At, Send
  <2>2. tap = "shift_dr"
    BY <2>1, Landed
  <2>3. F("idcode") /\ Len(todo') = IdBits
    BY <1>0, <1>1, <2>1, ZeroScripts, Zenon
  <2>4. W("idcode")
    BY <1>0, <1>8, <2>2, <2>3
  <2> QED BY <1>3, <2>1, <2>3, <2>4
<1>14. CASE SanityCheck
  <2>1. todo = <<>> /\ pc = "idcode" /\ UNCHANGED <<setup, discovered>>
        /\ \/ /\ todo' = tap_move_from_exit_1_to_idle \o SetIr(get_debug_cmd)
              /\ pc' = "serving"
           \/ todo' = tap_move_from_exit_1_to_idle /\ pc' = "exit"
    BY <1>14 DEF SanityCheck, At, Send
  <2>2. tap = "exit1_dr"
    BY <2>1, Landed
  <2>3. CASE todo' = tap_move_from_exit_1_to_idle \o SetIr(get_debug_cmd) /\ pc' = "serving"
    <3>1. get_debug_cmd \in Seq(Bits)
      BY <2>1 DEF Base, Configured, IsConfigured
    <3>2. get_IR_size = l
      BY <1>5, <2>1, <2>3, ConfiguredStays
    <3> DEFINE q == tap_move_from_exit_1_to_idle \o SetIr(get_debug_cmd)
    <3>3. FollowsScript("serving", get_IR_size, call', q) /\ Len(q) = get_IR_size + 8
      BY <1>0, <1>1, <3>1, <3>2, ServingSent
    <3>4. F("serving") /\ Len(todo') = l + 8
      BY <2>3, <3>1, <3>2, <3>3
    <3>5. W("serving")
      BY <1>0, <1>8, <2>2, <3>4
    <3> QED BY <1>3, <2>3, <3>4, <3>5
  <2>4. CASE todo' = tap_move_from_exit_1_to_idle /\ pc' = "exit"
    <3>1. F("exit") /\ Len(todo') = 2
      BY <1>0, <1>1, <2>4, ShortScripts, Zenon
    <3>2. W("exit")
      BY <1>0, <1>8, <2>2, <3>1
    <3> QED BY <1>3, <2>4, <3>1, <3>2
  <2> QED BY <2>1, <2>3, <2>4
<1>15. CASE PollAck \/ ErrorBit
  <2>1. todo = <<>> /\ pc \in {"command", "ack"} /\ pc' \in {"ack", "error"} /\ todo' = <<Zero>>
    BY <1>15 DEF PollAck, ErrorBit, At, Send
  <2>2. tap = "shift_dr"
    BY <2>1, Landed
  <2>3. F(pc')
    BY <1>0, <1>1, <2>1, ShortScripts
  <2>4. W(pc')
    BY <1>0, <1>7, <2>1, <2>2
  <2> QED BY <1>3, <2>1, <2>3, <2>4
<1>16. CASE IsStalled \/ ReadSpr \/ SprRead
  <2>1. todo = <<>> /\ pc \in {"ack", "error", "data"}
        /\ \/ /\ todo' = Stream(Zeros(3), TRUE) \o tap_move_from_exit_1_to_idle
              /\ pc' = "finish"
           \/ todo' = Stream(Zeros(DataBits), FALSE) /\ pc' = "data"
    BY <1>16 DEF IsStalled, ReadSpr, SprRead, At, Send, finish_and_leave_a_dbg_nop_cmd_in_place
  <2>2. tap = "shift_dr"
    BY <2>1, Landed
  <2>3. CASE todo' = Stream(Zeros(3), TRUE) \o tap_move_from_exit_1_to_idle /\ pc' = "finish"
    <3>1. F("finish") /\ Len(todo') = 5
      BY <1>0, <1>1, <2>3, ZeroScripts, Zenon
    <3>2. W("finish")
      BY <1>0, <1>8, <2>2, <3>1
    <3> QED BY <1>3, <2>3, <3>1, <3>2
  <2>4. CASE todo' = Stream(Zeros(DataBits), FALSE) /\ pc' = "data"
    <3>1. F("data")
      BY <1>0, <1>1, <2>4, ZeroScripts, Zenon
    <3>2. W("data")
      BY <1>0, <1>7, <2>2, <3>1
    <3> QED BY <1>3, <2>4, <3>1, <3>2
  <2> QED BY <2>1, <2>3, <2>4
<1>17. CASE Return
  <2>1. todo = <<>> /\ pc = "finish" /\ pc' = "serving" /\ todo' = <<>>
    BY <1>17 DEF Return, At, Send
  <2>2. tap = "run_test_idle"
    BY <2>1, Landed
  <2>3. W("serving")
    BY <1>0, <1>6, <1>8, <2>1, <2>2
  <2> QED BY <1>3, <1>6, <2>1, <2>3
<1>18. CASE \E c \in Calls : Call(c)
  <2>1. PICK c \in Calls : Call(c)
    BY <1>18
  <2> DEFINE q == tap_move_from_idle_to_shift_dr \o Stream(CommandBits(c), TRUE)
                    \o tap_move_from_exit_1_to_idle \o tap_move_from_idle_to_shift_dr
  <2>2. todo = <<>> /\ pc = "serving" /\ pc' = "command" /\ todo' = q /\ call' = c
    BY <2>1 DEF Call, At, Send
  <2>3. tap = "run_test_idle"
    BY <2>2, Landed
  <2>4. FollowsScript("command", l, c, q) /\ Len(q) = Size(c) + 8
    BY <1>1, CommandSent
  <2> HIDE DEF q
  <2>5. F("command") /\ Len(todo') = m + 8
    BY <2>2, <2>4 DEF m
  <2>6. W("command")
    BY <1>0, <1>8, <2>3, <2>5
  <2> QED BY <1>3, <2>2, <2>5, <2>6
<1>19. CASE Fail \/ Start
  <2>1. todo' = <<>> /\ pc' \in {"exit", "started"}
    BY <1>19 DEF Fail, Start, Send
  <2>2. W(pc')
    BY <1>0, <1>6, <1>8, <2>1
  <2> QED BY <1>3, <1>6, <2>1, <2>2
<1> QED BY <1>9, <1>10, <1>11, <1>12, <1>13, <1>14, <1>15, <1>16, <1>17, <1>18, <1>19 DEF Silent

(* A clock, as the scripts have it.                                        *)
LEMMA ClockFacts ==
    ASSUME Base, OnScript, Clock
    PROVE  /\ todo # <<>> /\ todo' = Tail(todo) /\ Len(todo') = Len(todo) - 1
           /\ Len(todo) \in Nat \ {0} /\ Len(todo) <= Clocks(pc, IrBits, Size(call))
           /\ Head(todo) = todo[1] /\ Head(todo) \in Packet
           /\ Head(todo).tms =
                IF Len(todo) \in HasTms(pc, IrBits, Size(call)) THEN 1 ELSE 0
           /\ Head(todo).trst <=> pc = "next device" /\ Len(todo) = 5
           /\ pc \notin Varied => Head(todo).tdi = TdiOf(pc, IrBits, call, Len(todo))
           /\ UNCHANGED <<setup, pc, kept, sent, discovered, call, result>>
           /\ FollowsScript(pc, IrBits, call, Tail(todo))
           /\ pc \notin {"started", "enumerated"}
<1>1. todo # <<>> /\ todo' = Tail(todo)
      /\ UNCHANGED <<setup, pc, kept, sent, discovered, call, result>>
  BY DEF Clock
<1>2. FollowsScript(pc, IrBits, call, todo) /\ pc \in Labels /\ IrBits \in Nat
      /\ Size(call) \in Nat
  <2>1. IrBits \in Nat
    BY DEF Base, Configured, IsConfigured, IrBits
  <2>2. Size(call) \in Nat
    BY SizeNat DEF Base
  <2> QED BY <2>1, <2>2 DEF OnScript, Base
<1>3. /\ FollowsScript(pc, IrBits, call, Tail(todo)) /\ Len(Tail(todo)) = Len(todo) - 1
      /\ Len(todo) \in Nat \ {0} /\ Len(todo) <= Clocks(pc, IrBits, Size(call))
      /\ Head(todo) = todo[1] /\ Head(todo) \in Packet
      /\ Head(todo).tms =
           IF Len(todo) \in HasTms(pc, IrBits, Size(call)) THEN 1 ELSE 0
      /\ Head(todo).trst <=> pc = "next device" /\ Len(todo) = 5
      /\ pc \notin Varied => Head(todo).tdi = TdiOf(pc, IrBits, call, Len(todo))
  <2>1. Advances(pc, IrBits, call, todo)
    BY <1>1, <1>2, RestFollows
  <2> QED BY ONLY <2>1 DEF Advances
<1>4. pc \notin {"started", "enumerated"}
  BY <1>1 DEF OnScript
<1> QED BY <1>1, <1>3, <1>4

(* Where a clock leads.                                                    *)
Resets == Head(todo).trst /\ setup.trst
(* The TAPs follow TMS, or are reset.                                      *)
LEMMA TapClock ==
    ASSUME Clock
    PROVE  tap' = IF Resets THEN "test_logic_reset" ELSE After(tap, Head(todo).tms)
BY DEF Clock, Resets

(* A clock keeps to the script.                                            *)
LEMMA ScriptClock ==
    ASSUME Base, OnScript, Clock
    PROVE  Base' /\ OnScript'
<1> DEFINE l == IrBits
           m == Size(call)
           r == Len(todo)
<1>1. /\ todo # <<>> /\ todo' = Tail(todo) /\ Len(todo') = r - 1
      /\ r \in Nat \ {0} /\ r <= Clocks(pc, l, m)
      /\ Head(todo) \in Packet
      /\ Head(todo).tms = IF r \in HasTms(pc, l, m) THEN 1 ELSE 0
      /\ Head(todo).trst <=> pc = "next device" /\ r = 5
      /\ UNCHANGED <<setup, pc, sent, discovered, call>>
      /\ FollowsScript(pc, l, call, Tail(todo))
      /\ pc \notin {"started", "enumerated"}
  BY ClockFacts
<1>2. l' = l /\ m' = m
  BY <1>1, ConfiguredStays DEF IrBits, Size
<1>3. l \in Nat \ {0} /\ m \in Nat \ {0} /\ pc \in Labels /\ tap \in Where(pc, l, m, r)
  <2>1. m \in Nat \ {0}
    BY SizeNat DEF Base
  <2> QED BY <2>1 DEF Base, Configured, IsConfigured, IrBits, OnScript
<1> HIDE DEF l, m
<1>4. /\ tap \in State
      /\ After(tap, IF r \in HasTms(pc, l, m) THEN 1 ELSE 0) \in Where(pc, l, m, r - 1)
      /\ pc = "next device" /\ r = 5 => "test_logic_reset" \in Where(pc, l, m, r - 1)
  BY ONLY <1>1, <1>3, WhereStep
<1>5. tap' \in Where(pc, l, m, r - 1)
  <2>1. tap' = IF Resets THEN "test_logic_reset" ELSE After(tap, Head(todo).tms)
    BY TapClock
  <2>2. Resets => pc = "next device" /\ r = 5
    BY <1>1 DEF Resets
  <2> QED BY <1>1, <1>4, <2>1, <2>2
<1>6. tap' \in State
  <2>1. tap' = IF Resets THEN "test_logic_reset" ELSE After(tap, Head(todo).tms)
    BY TapClock
  <2>2. Head(todo).tms \in {0, 1}
    BY <1>1
  <2>3. "test_logic_reset" \in State
    BY States
  <2> QED BY <1>4, <2>1, <2>2, <2>3, AfterIsState
<1>7. Base'
  BY <1>1, <1>6, ConfiguredStays DEF Base, Configured, InCall
<1>8. OnScript'
  <2>1. FollowsScript(pc', l', call', todo') /\ tap' \in Where(pc', l', m', Len(todo'))
    BY <1>1, <1>2, <1>5
  <2> QED BY <1>1, <2>1 DEF OnScript, l, m
<1> QED BY <1>7, <1>8

(* Together.                                                               *)
SoundStart == ~CatchErrors /\ \A s \in Setups : s.ir_length # 1
Scripted == Base /\ OnScript

(* The script holds before the program is started,                         *)
LEMMA ScriptedInit ==
    ASSUME Init PROVE Scripted
<1>1. setup \in Setups /\ tap = "test_logic_reset" /\ pc = "exit" /\ todo = <<>> /\ sent = 0
      /\ call = NoCall
  BY DEF Init
<1>2. tap \in State
  BY <1>1, States
<1>3. Base
  BY <1>1, <1>2, Sizes DEF Base, Labels, AnyCall, InCall, Configured
<1>4. FollowsScript("exit", 1, NoCall, <<>>)
  <2>1. Size(NoCall) \in Nat /\ "exit" \in Labels /\ 1 \in Nat
    BY SizeNat DEF AnyCall, Labels
  <2> QED BY ONLY <2>1, NoClocks
<1>5. Where("exit", 1, Size(NoCall), 0) = State
  <2>1. Size(NoCall) \in Nat \ {0} /\ 1 \in Nat \ {0}
    BY SizeNat DEF AnyCall
  <2> QED BY ONLY <2>1, WhereTable
<1>6. OnScript
  BY <1>1, <1>2, <1>4, <1>5 DEF OnScript, IrBits
<1> QED BY <1>3, <1>6 DEF Scripted

(* and every step keeps it.                                                *)
LEMMA ScriptedStep ==
    ASSUME ~CatchErrors, Scripted, [Next]_vars
    PROVE  Scripted'
<1>1. CASE Clock
  BY <1>1, ScriptClock DEF Scripted
<1>2. CASE Silent
  BY <1>2, BaseSilent, ScriptSilent DEF Scripted
<1>3. CASE CpuAnswers \/ Still
  <2>1. UNCHANGED <<setup, tap, pc, todo, sent, discovered, call>>
    BY <1>3 DEF CpuAnswers, program, Still
  <2>2. Base'
    BY <2>1, ConfiguredStays DEF Scripted, Base, Configured, InCall
  <2>3. OnScript'
    BY <2>1, ConfiguredStays DEF Scripted, OnScript, IrBits, Size
  <2> QED BY <2>2, <2>3 DEF Scripted
<1> QED BY <1>1, <1>2, <1>3, ThreeKinds

-----------------------------------------------------------------------------
(* What is read, and the registers.                                        *)

(* Reading, the TAPs shift data.                                           *)
LEMMA ReadingShifts ==
    ASSUME Scripted, Reading, todo # <<>>
    PROVE  tap = "shift_dr"
<1> DEFINE l == IrBits
           m == Size(call)
           r == Len(todo)
<1>1. l \in Nat \ {0} /\ m \in Nat \ {0} /\ tap \in Where(pc, l, m, r) /\ r \in Nat \ {0}
  <2>1. m \in Nat \ {0}
    BY SizeNat DEF Base, Scripted
  <2>2. todo \in Seq(Packet)
    BY DEF Scripted, OnScript, FollowsScript
  <2>3. r \in Nat \ {0}
    BY <2>2
  <2> QED BY <2>1, <2>3 DEF Scripted, Base, Configured, IsConfigured, IrBits, OnScript
<1> HIDE DEF l, m, r
<1>4. l \in Nat \ {0} /\ m \in Nat \ {0}
  BY <1>1
<1>2. \A x : \A at \in AlwaysShift : Where(at, l, m, x) = {"shift_dr"}
  BY ONLY WhereThroughout
<1>3. \A x \in Nat \ {0} : Where("idcode", l, m, x) = {"shift_dr"}
  BY ONLY WhereThroughout
<1> QED BY <1>1, <1>2, <1>3 DEF Reading, AlwaysShift

(* How many bits have been read.                                           *)
LEMMA MarkerLength ==
    ASSUME NEW n \in Nat, NEW at, SendMarker(n, at), sent \in Nat
    PROVE  /\ todo' = MarkerStream(n, sent) /\ Len(todo') = n /\ pc' = at /\ got' = <<>>
           /\ Len(got') + Len(todo') = n
<1> DEFINE b == [i \in 1 .. n |-> IF sent + i <= MarkerBits THEN 1 ELSE 0]
<1>1. b \in Seq(Bits) /\ Len(b) = n
  BY DEF Bits
<1>2. todo' = Stream(b, FALSE) /\ pc' = at /\ got' = <<>>
  BY DEF SendMarker, Send
<1> HIDE DEF b
<1>4. FALSE \in BOOLEAN /\ b \in Seq(Bits)
  BY <1>1
<1>3. Len(Stream(b, FALSE)) = n
  BY <1>1, <1>4, StreamPackets, Zenon
<1>5. Len(todo') = n
  BY <1>2, <1>3
<1>6. Len(got') + Len(todo') = n
  <2>1. Len(got') = 0
    BY <1>2
  <2> QED BY <1>5, <2>1
<1> QED BY <1>2, <1>5, <1>6 DEF MarkerStream, b

(* What is to be read is counted when it is asked for.                     *)
LEMMA ReadsAllSilent ==
    ASSUME Scripted, Silent
    PROVE  ReadsAll'
<1>0. sent \in Nat /\ ManufBits \in Nat /\ RestBits \in Nat /\ IdBits \in Nat /\ DataBits \in Nat
  BY Sizes DEF Scripted, Base
<1>6. 1 \in Nat /\ NoCall \in AnyCall
  BY DEF AnyCall
<1>1. CASE NextDevice \/ StartBit \/ ManufacturerCode
  <2>1. \/ pc' \in {"next device", "enumerated"}
        \/ SendMarker(1, "start bit") \/ SendMarker(ManufBits, "manufacturer")
        \/ SendMarker(RestBits, "rest")
    BY <1>1 DEF NextDevice, StartBit, ManufacturerCode, Discover, Send
  <2>2. CASE pc' \in {"next device", "enumerated"}
    BY <2>2 DEF ReadsAll
  <2>3. CASE SendMarker(1, "start bit")
    <3>1. 1 \in Nat
      BY <1>0
    <3>2. Len(got') + Len(todo') = 1 /\ pc' = "start bit"
      BY ONLY <1>0, <2>3, <3>1, MarkerLength
    <3> QED BY <3>2 DEF ReadsAll
  <2>4. CASE SendMarker(ManufBits, "manufacturer")
    <3>1. ManufBits \in Nat
      BY <1>0
    <3>2. Len(got') + Len(todo') = ManufBits /\ pc' = "manufacturer"
      BY ONLY <1>0, <2>4, <3>1, MarkerLength
    <3> QED BY <3>2 DEF ReadsAll
  <2>5. CASE SendMarker(RestBits, "rest")
    <3>1. RestBits \in Nat
      BY <1>0
    <3>2. Len(got') + Len(todo') = RestBits /\ pc' = "rest"
      BY ONLY <1>0, <2>5, <3>1, MarkerLength
    <3> QED BY <3>2 DEF ReadsAll
  <2> QED BY <2>1, <2>2, <2>3, <2>4, <2>5
<1>2. CASE JtagGetIdCode
  <2>1. pc' = "idcode" /\ todo' = Stream(Zeros(IdBits), TRUE) /\ got' = <<>>
    BY <1>2 DEF JtagGetIdCode, Send
  <2>2. Len(Stream(Zeros(IdBits), TRUE)) = IdBits
    BY <1>6, ZeroScripts, Zenon
  <2>4. Len(got') = 0
    BY <2>1
  <2>3. Len(todo') = IdBits /\ Len(got') = 0
    BY <2>1, <2>2, <2>4, Zenon
  <2>5. Len(got') + Len(todo') = IdBits
    BY <1>0, <2>3
  <2> QED BY <2>1, <2>5 DEF ReadsAll
<1>3. CASE PollAck \/ ErrorBit
  <2>1. pc' \in {"ack", "error"} /\ todo' = <<Zero>> /\ got' = <<>>
    BY <1>3 DEF PollAck, ErrorBit, Send
  <2> QED BY <2>1 DEF ReadsAll
<1>4. CASE IsStalled \/ ReadSpr \/ SprRead
  <2>1. pc' = "finish" \/ (pc' = "data" /\ todo' = Stream(Zeros(DataBits), FALSE) /\ got' = <<>>)
    BY <1>4 DEF IsStalled, ReadSpr, SprRead, Send, finish_and_leave_a_dbg_nop_cmd_in_place
  <2>2. Len(Stream(Zeros(DataBits), FALSE)) = DataBits
    BY <1>6, ZeroScripts, Zenon
  <2>6. pc' = "data" => Len(got') = 0
    BY <2>1
  <2>3. pc' = "data" => Len(todo') = DataBits /\ Len(got') = 0
    BY <2>1, <2>2, <2>6, Zenon
  <2>4. CASE pc' = "finish"
    BY <2>4 DEF ReadsAll
  <2>5. CASE pc' = "data"
    BY <1>0, <2>3, <2>5 DEF ReadsAll
  <2> QED BY <2>1, <2>4, <2>5
<1>5. CASE ~(NextDevice \/ StartBit \/ ManufacturerCode \/ JtagGetIdCode \/ PollAck \/ ErrorBit
             \/ IsStalled \/ ReadSpr \/ SprRead)
  <2>1. pc' \in {"next device", "configure", "identify", "serving", "exit", "command", "started"}
    BY <1>5 DEF Silent, ResetTap, RestOfIdCode, Discover, Enumerated, Quit, ConfigureChain,
       SanityCheck, Return, Call, Fail, Start, Send
  <2> QED BY <2>1 DEF ReadsAll
<1> QED BY <1>1, <1>2, <1>3, <1>4, <1>5

(* The tables of devices.                                                  *)
LEMMA Chain ==
    ASSUME setup \in Setups
    PROVE  /\ setup.chain \in Seq(DOMAIN IdCode) /\ setup.chain # <<>>
           /\ Len(setup.chain) \in Nat \ {0}
           /\ setup.trst \in BOOLEAN /\ setup.tdo \in {"ok", "0", "1"}
           /\ \A i \in 1 .. Len(setup.chain) :
                Id(setup, i) # <<>> =>
                  /\ Id(setup, i) \in BitString(IdBits) /\ Id(setup, i)[1] = 1
                  /\ SubSeq(Id(setup, i), 2, 1 + ManufBits) # DoneCode
<1>1. /\ setup.chain \in Seq(DOMAIN IdCode) /\ setup.chain # <<>>
      /\ setup.trst \in BOOLEAN /\ setup.tdo \in {"ok", "0", "1"}
      /\ \A i \in DOMAIN setup.chain :
           IdCode[setup.chain[i]] # <<>> =>
             /\ IdCode[setup.chain[i]] \in BitString(IdBits)
             /\ IdCode[setup.chain[i]][1] = 1
             /\ SubSeq(IdCode[setup.chain[i]], 2, 1 + ManufBits) # DoneCode
  BY ChainAssumption
<1>2. DOMAIN setup.chain = 1 .. Len(setup.chain) /\ Len(setup.chain) \in Nat \ {0}
  BY <1>1
<1> QED BY <1>1, <1>2 DEF Id

(* A reset leaves a TAP with its first instruction.                        *)
LEMMA ResetSync ==
    ASSUME NEW kind
    PROVE  /\ reset_sync(kind) \in Device /\ reset_sync(kind).ir = <<>>
           /\ reset_sync(kind).dr = <<>>
           /\ reset_sync(kind).instruction =
                IF IdCode[kind] = <<>> THEN Opcode.BYPASS ELSE Opcode.IDCODE
<1>1. Opcode.BYPASS \in BitString(IrLength) /\ Opcode.IDCODE \in BitString(IrLength)
  BY Words DEF Bits
<1> QED BY <1>1 DEF reset_sync, Device

(* The rising edge of a clock, in a TAP.                                   *)
LEMMA PosEdge ==
    ASSUME NEW kind, IdCode[kind] = <<>> \/ IdCode[kind] \in BitString(IdBits),
           NEW d, Typed(tap, d), NEW tdi \in Bits
    PROVE  LET e == tck_posedge(kind, d, tdi)
           IN  /\ tap = "test_logic_reset" => e = reset_sync(kind)
               /\ e \in Device
               /\ tap \notin {"test_logic_reset", "update_ir"} => e.instruction = d.instruction
               /\ tap = "update_ir" => e.instruction = d.ir /\ d.ir \in BitString(IrLength)
               /\ tap = "capture_ir" => e.ir = <<1, 0, 1, 0>> /\ e.ir \in BitString(IrLength)
               /\ tap = "shift_ir" =>
                    /\ e.ir = Append(Tail(d.ir), tdi) /\ e.ir \in BitString(IrLength)
               /\ tap \notin {"test_logic_reset", "capture_ir", "shift_ir"} => e.ir = d.ir
               /\ tap = "capture_dr" /\ ~Debugging(d) =>
                    e.dr = do_capture_dr(kind, d) /\ e.dr \in DataRegister
               /\ tap = "shift_dr" /\ ~Debugging(d) =>
                    /\ e.dr = Append(Tail(d.dr), tdi) /\ e.dr \in DataRegister
               /\ tap \notin {"test_logic_reset", "capture_dr", "shift_dr"} => e.dr = d.dr
<1> DEFINE e == tck_posedge(kind, d, tdi)
<1>0. d \in Device
  BY DEF Typed
<1>1. CASE tap = "test_logic_reset"
  BY <1>1, ResetSync DEF tck_posedge
<1>2. CASE tap = "capture_ir"
  <2>1. e = [d EXCEPT !.ir = <<1, 0, 1, 0>>]
    BY <1>2 DEF tck_posedge
  <2>2. <<1, 0, 1, 0>> \in BitString(IrLength)
    BY Words DEF Bits
  <2> QED BY <1>0, <1>2, <2>1, <2>2 DEF Device
<1>3. CASE tap = "shift_ir"
  <2>1. e = [d EXCEPT !.ir = Append(Tail(@), tdi)]
    BY <1>3 DEF tck_posedge
  <2>2. d.ir \in BitString(IrLength)
    BY <1>3 DEF Typed, ShiftsIr
  <2>3. Append(Tail(d.ir), tdi) \in BitString(IrLength)
    <3>1. IrLength \in Nat \ {0}
      BY DEF IrLength
    <3> QED BY <2>2, <3>1, ShiftIn DEF BitString
  <2> QED BY <1>0, <1>3, <2>1, <2>3 DEF Device
<1>4. CASE tap = "update_ir"
  <2>1. e = [d EXCEPT !.instruction = d.ir]
    BY <1>4 DEF tck_posedge
  <2>2. d.ir \in BitString(IrLength)
    BY <1>4 DEF Typed, ShiftsIr
  <2> QED BY <1>0, <1>4, <2>1, <2>2 DEF Device
<1>5. CASE tap = "capture_dr" /\ ~Debugging(d)
  <2>1. e = [d EXCEPT !.dr = do_capture_dr(kind, d)]
    BY <1>5 DEF tck_posedge
  <2>2. do_capture_dr(kind, d) \in DataRegister
    <3>1. <<0>> \in BitString(1)
      BY DEF BitString, Bits
    <3> QED BY <3>1 DEF do_capture_dr, DataRegister
  <2> QED BY <1>0, <1>5, <2>1, <2>2 DEF Device
<1>6. CASE tap = "shift_dr" /\ ~Debugging(d)
  <2>1. e = [d EXCEPT !.dr = Append(Tail(@), tdi)]
    BY <1>6 DEF tck_posedge
  <2>2. d.dr \in DataRegister
    BY <1>6 DEF Typed, ShiftsDr
  <2>3. Append(Tail(d.dr), tdi) \in DataRegister
    <3>1. 1 \in Nat \ {0} /\ IdBits \in Nat \ {0}
      BY Sizes
    <3> QED BY <2>2, <3>1, ShiftIn DEF BitString, DataRegister
  <2> QED BY <1>0, <1>6, <2>1, <2>3 DEF Device
<1>7. CASE tap \notin {"test_logic_reset", "capture_ir", "shift_ir", "update_ir"}
           /\ ~(tap \in {"capture_dr", "shift_dr"} /\ ~Debugging(d))
  <2>1. e = d
    BY <1>7 DEF tck_posedge
  <2> QED BY <1>0, <1>7, <2>1
<1> QED BY <1>1, <1>2, <1>3, <1>4, <1>5, <1>6, <1>7

(* The bit a TAP gets from the next one, or from the cable.                *)
TdiAt(i) ==
    IF i = Len(devs) THEN Head(todo).tdi
    ELSE IF tap \in {"shift_ir", "shift_dr"} THEN Tdo(devs[i + 1]) ELSE 0
Selected == ~Resets /\ tap # "test_logic_reset" /\ Debugging(devs[1])

(* The parts of a clock, by name.                                          *)
LEMMA ClockParts ==
    ASSUME Clock
    PROVE  /\ devs' = [i \in DOMAIN devs |->
                         IF Resets THEN reset_sync(setup.chain[i])
                         ELSE tck_posedge(setup.chain[i], devs[i], TdiAt(i))]
           /\ got' = IF Reading THEN Append(got, CableTdo) ELSE got
           /\ \/ ~Selected /\ dbg' = Reset(dbg) /\ UNCHANGED taken
              \/ /\ Selected /\ tap # "update_dr"
                 /\ dbg' = step_state_machine_tick(step_state_machine_shift(dbg, Head(todo).tdi))
                 /\ UNCHANGED taken
              \/ /\ Selected /\ tap = "update_dr"
                 /\ \E opcode \in Reads(SubSeq(dbg.in, DataBits + SprBits + 1, ShiftRegLen)),
                       stalled \in {0, 1} :
                      /\ dbg' = step_state_machine_update(opcode, stalled)
                      /\ IF opcode = Cmd.IS_CPU_STALLED
                           THEN Takes([kind |-> "stalled"], [stalled |-> stalled])
                           ELSE stalled = 0 /\ UNCHANGED taken
BY DEF Clock, TdiAt, Resets, Selected, DebugClock, Latch

(* The output of a TAP is a bit.                                           *)
LEMMA TdoIsBit ==
    ASSUME NEW d, Typed(tap, d), dbg \in Submodule, tap \in {"shift_ir", "shift_dr"}
    PROVE  /\ Tdo(d) \in Bits
           /\ tap = "shift_ir" => Tdo(d) = d.ir[1]
           /\ tap = "shift_dr" /\ Debugging(d) => Tdo(d) = dbg.out[1]
           /\ tap = "shift_dr" /\ ~Debugging(d) => Tdo(d) = d.dr[1]
<1>1. CASE tap = "shift_ir"
  <2>1. d.ir \in [1 .. IrLength -> Bits] /\ IrLength \in Nat \ {0}
    BY <1>1 DEF Typed, ShiftsIr, BitString, IrLength
  <2>2. Head(d.ir) = d.ir[1] /\ d.ir[1] \in Bits
    BY <2>1, ShiftIn
  <2> QED BY <1>1, <2>2 DEF Tdo
<1>2. CASE tap = "shift_dr" /\ Debugging(d)
  <2>1. dbg.out \in [1 .. 2 + DataBits -> Bits] /\ 2 + DataBits \in Nat \ {0}
    BY Sizes DEF Submodule, BitString
  <2>2. Head(dbg.out) = dbg.out[1] /\ dbg.out[1] \in Bits
    BY <2>1, ShiftIn
  <2> QED BY <1>2, <2>2 DEF Tdo
<1>3. CASE tap = "shift_dr" /\ ~Debugging(d)
  <2>1. d.dr \in [1 .. 1 -> Bits] \/ d.dr \in [1 .. IdBits -> Bits]
    BY <1>3 DEF Typed, ShiftsDr, BitString, DataRegister
  <2>2. 1 \in Nat \ {0} /\ IdBits \in Nat \ {0}
    BY Sizes
  <2>3. Head(d.dr) = d.dr[1] /\ d.dr[1] \in Bits
    BY <2>1, <2>2, ShiftIn
  <2> QED BY <1>3, <2>3 DEF Tdo
<1> QED BY <1>1, <1>2, <1>3

(* So are the bits shifted in.                                             *)
LEMMA TdiIsBit ==
    ASSUME Scripted, Types, Clock
    PROVE  /\ Head(todo).tdi \in Bits /\ DOMAIN devs = 1 .. Len(setup.chain)
           /\ Len(devs) = Len(setup.chain) /\ Len(setup.chain) \in Nat \ {0}
           /\ \A i \in 1 .. Len(setup.chain) : TdiAt(i) \in Bits
<1>1. DOMAIN devs = 1 .. Len(setup.chain) /\ Len(setup.chain) \in Nat \ {0}
  BY Chain DEF Types, Scripted, Base
<1>2. Len(devs) = Len(setup.chain)
  BY <1>1, LenProperties DEF Types
<1>3. Head(todo) \in Packet
  BY ClockFacts DEF Scripted
<1>4. Head(todo).tdi \in Bits
  BY <1>3 DEF Packet, Bits
<1>5. ASSUME NEW i \in 1 .. Len(setup.chain) PROVE TdiAt(i) \in Bits
  <2>1. CASE i = Len(devs)
    BY <1>4, <2>1 DEF TdiAt
  <2>2. CASE i # Len(devs) /\ tap \in {"shift_ir", "shift_dr"}
    <3>1. i + 1 \in 1 .. Len(setup.chain)
      BY <1>1, <1>2, <2>2
    <3>2. Typed(tap, devs[i + 1]) /\ dbg \in Submodule
      BY <3>1 DEF Types
    <3>3. Tdo(devs[i + 1]) \in Bits
      BY <2>2, <3>2, TdoIsBit
    <3> QED BY <2>2, <3>3 DEF TdiAt
  <2>3. CASE i # Len(devs) /\ tap \notin {"shift_ir", "shift_dr"}
    BY <2>3 DEF TdiAt, Bits
  <2> QED BY <2>1, <2>2, <2>3
<1> QED BY <1>1, <1>2, <1>4, <1>5

(* The states a TAP shifts in follow those it captures in.                 *)
LEMMA BeforeShifts ==
    ASSUME NEW t \in State, NEW tms \in {0, 1}
    PROVE  /\ After(t, tms) \in ShiftsIr =>
                t \in {"capture_ir", "shift_ir", "exit1_ir", "pause_ir", "exit2_ir"}
           /\ After(t, tms) \in ShiftsDr =>
                t \in {"capture_dr", "shift_dr", "exit1_dr", "pause_dr", "exit2_dr"}
<1>1. t \in {"test_logic_reset", "run_test_idle", "select_dr_scan", "capture_dr",
             "shift_dr", "exit1_dr", "pause_dr", "exit2_dr", "update_dr", "select_ir_scan",
             "capture_ir", "shift_ir", "exit1_ir", "pause_ir", "exit2_ir", "update_ir"}
  BY States
<1>2. CASE t \in {"test_logic_reset", "run_test_idle", "select_dr_scan", "update_dr",
                  "select_ir_scan", "update_ir"}
  <2>1. After(t, tms) \notin ShiftsIr /\ After(t, tms) \notin ShiftsDr
    BY <1>2, AfterTable DEF ShiftsIr, ShiftsDr
  <2> QED BY <2>1
<1>3. CASE t \in {"capture_dr", "shift_dr", "exit1_dr", "pause_dr", "exit2_dr"}
  <2>1. After(t, tms) \notin ShiftsIr
    BY <1>3, AfterTable DEF ShiftsIr
  <2> QED BY <1>3, <2>1
<1>4. CASE t \in {"capture_ir", "shift_ir", "exit1_ir", "pause_ir", "exit2_ir"}
  <2>1. After(t, tms) \notin ShiftsDr
    BY <1>4, AfterTable DEF ShiftsDr
  <2> QED BY <1>4, <2>1
<1> QED BY <1>1, <1>2, <1>3, <1>4

(* What a clock does to a TAP.                                             *)
LEMMA DeviceClock ==
    ASSUME Scripted, Types, Clock, NEW i \in 1 .. Len(setup.chain)
    PROVE  /\ devs'[i] = IF Resets THEN reset_sync(setup.chain[i])
                         ELSE tck_posedge(setup.chain[i], devs[i], TdiAt(i))
           /\ Typed(tap', devs'[i])
<1>1. devs'[i] = IF Resets THEN reset_sync(setup.chain[i])
                 ELSE tck_posedge(setup.chain[i], devs[i], TdiAt(i))
  BY ClockParts, TdiIsBit
<1>2. tap' = IF Resets THEN "test_logic_reset" ELSE After(tap, Head(todo).tms)
  BY TapClock
<1>3. tap \in State /\ Head(todo).tms \in {0, 1}
  <2>1. Head(todo) \in Packet
    BY ClockFacts DEF Scripted
  <2> QED BY <2>1 DEF Packet, Scripted, Base
<1>4. CASE Resets
  BY <1>1, <1>2, <1>4, ResetSync DEF Typed, ShiftsIr, ShiftsDr
<1>5. CASE ~Resets
  <2> DEFINE e == tck_posedge(setup.chain[i], devs[i], TdiAt(i))
  <2>1. Typed(tap, devs[i]) /\ TdiAt(i) \in Bits
    BY TdiIsBit DEF Types
  <2>2. IdCode[setup.chain[i]] = <<>> \/ IdCode[setup.chain[i]] \in BitString(IdBits)
    BY Chain DEF Scripted, Base, Id
  <2>3. /\ e \in Device
        /\ tap \notin {"test_logic_reset", "update_ir"} => e.instruction = devs[i].instruction
        /\ tap = "capture_ir" => e.ir \in BitString(IrLength)
        /\ tap = "shift_ir" => e.ir \in BitString(IrLength)
        /\ tap \notin {"test_logic_reset", "capture_ir", "shift_ir"} => e.ir = devs[i].ir
        /\ tap = "capture_dr" /\ ~Debugging(devs[i]) => e.dr \in DataRegister
        /\ tap = "shift_dr" /\ ~Debugging(devs[i]) => e.dr \in DataRegister
        /\ tap \notin {"test_logic_reset", "capture_dr", "shift_dr"} => e.dr = devs[i].dr
    BY ONLY <2>1, <2>2, PosEdge DEF e
  <2> HIDE DEF e
  <2>4. devs'[i] = e /\ tap' = After(tap, Head(todo).tms)
    BY <1>1, <1>2, <1>5 DEF e
  <2>5. tap' \in ShiftsIr => e.ir \in BitString(IrLength)
    <3> SUFFICES ASSUME tap' \in ShiftsIr PROVE e.ir \in BitString(IrLength)
      OBVIOUS
    <3>1. tap \in {"capture_ir", "shift_ir", "exit1_ir", "pause_ir", "exit2_ir"}
      BY <1>3, <2>4, BeforeShifts
    <3> QED BY <2>1, <2>3, <3>1 DEF Typed, ShiftsIr
  <2>6. tap' \in ShiftsDr /\ ~Debugging(e) => e.dr \in DataRegister
    <3> SUFFICES ASSUME tap' \in ShiftsDr, ~Debugging(e) PROVE e.dr \in DataRegister
      OBVIOUS
    <3>1. tap \in {"capture_dr", "shift_dr", "exit1_dr", "pause_dr", "exit2_dr"}
      BY <1>3, <2>4, BeforeShifts
    <3>2. ~Debugging(devs[i])
      BY <2>3, <3>1 DEF Debugging
    <3> QED BY <2>1, <2>3, <3>1, <3>2 DEF Typed, ShiftsDr
  <2> QED BY <1>1, <2>3, <2>4, <2>5, <2>6 DEF Typed
<1> QED BY <1>1, <1>4, <1>5

-----------------------------------------------------------------------------
(* The debug submodule: what each operation does to its registers.         *)
LEMMA ShiftedAt ==
    ASSUME NEW n \in Nat \ {0}, NEW S, NEW s \in [1 .. n -> S], NEW x \in S, NEW i \in 1 .. n
    PROVE  Append(Tail(s), x)[i] = IF i < n THEN s[i + 1] ELSE x
<1>1. \A j \in 1 .. n : Append(Tail(s), x)[j] = IF j < n THEN s[j + 1] ELSE x
  BY ONLY n \in Nat \ {0}, s \in [1 .. n -> S], x \in S, ShiftIn
<1> QED BY <1>1

(* A part of a sequence: its type                                          *)
LEMMA PartOf ==
    ASSUME NEW n \in Nat, NEW S, NEW s \in [1 .. n -> S], NEW k \in Nat, NEW m \in Nat,
           k + m <= n
    PROVE  SubSeq(s, k + 1, k + m) \in [1 .. m -> S]
<1>1. \A i \in k + 1 .. k + m : s[i] \in S
  OBVIOUS
<1>2. SubSeq(s, k + 1, k + m) \in Seq(S) /\ Len(SubSeq(s, k + 1, k + m)) = m
  BY <1>1, SubSeqProperties
<1> QED BY <1>2, SeqOfLength

(* and its elements.                                                       *)
LEMMA PartAt ==
    ASSUME NEW n \in Nat, NEW S, NEW s \in [1 .. n -> S], NEW k \in Nat, NEW m \in Nat,
           k + m <= n, NEW i \in 1 .. m
    PROVE  SubSeq(s, k + 1, k + m)[i] = s[k + i]
<1> DEFINE a == k + 1
           b == k + m
<1>1. s \in Seq(S) /\ Len(s) = n /\ a \in 1 .. n + 1 /\ b \in a - 1 .. n
  OBVIOUS
<1>2. b - a + 1 = m /\ a + i - 1 = k + i
  OBVIOUS
<1> HIDE DEF a, b
<1>3. SubSeq(s, a, b) = [j \in 1 .. b - a + 1 |-> s[a + j - 1]]
  BY <1>1, SubSeqProperties
<1>4. SubSeq(s, a, b)[i] = s[k + i]
  BY <1>2, <1>3
<1> QED BY <1>4 DEF a, b

(* An output of zeros.                                                     *)
LEMMA ZeroOut ==
    /\ Zeros(2 + DataBits) \in BitString(2 + DataBits)
    /\ \A i \in 1 .. 2 + DataBits : Zeros(2 + DataBits)[i] = 0
<1>1. 2 + DataBits \in Nat
  BY Sizes
<1> QED BY <1>1, ZerosAre

(* The debug submodule, idle,                                              *)
LEMMA IdleIs ==
    ASSUME NEW d \in Submodule
    PROVE  /\ Idle(d) \in Submodule /\ Idle(d).busy = FALSE /\ Idle(d).cmd = NoCall
           /\ Idle(d).answer = NoCall /\ Idle(d).in = d.in /\ Idle(d).out = d.out
BY DEF Idle, Submodule

(* reset,                                                                  *)
LEMMA ResetIs ==
    ASSUME NEW d \in Submodule
    PROVE  /\ Reset(d) \in Submodule /\ Reset(d).busy = FALSE /\ Reset(d).out = d.out
           /\ \A i \in 1 .. ShiftRegLen : Reset(d).in[i] = X
<1>1. [i \in 1 .. ShiftRegLen |-> X] \in [1 .. ShiftRegLen -> Loaded]
  BY DEF Loaded
<1> QED BY <1>1, IdleIs DEF Reset, Submodule

(* shifted by a bit,                                                       *)
LEMMA ShiftIs ==
    ASSUME NEW d \in Submodule, NEW tdi \in Bits
    PROVE  LET e == step_state_machine_shift(d, tdi)
           IN  /\ e \in Submodule /\ e.busy = d.busy /\ e.cmd = d.cmd /\ e.answer = d.answer
               /\ tap # "shift_dr" => e = d
               /\ tap = "shift_dr" =>
                    /\ \A i \in 1 .. ShiftRegLen :
                          e.in[i] = IF i < ShiftRegLen THEN d.in[i + 1] ELSE tdi
                    /\ \A i \in 1 .. 2 + DataBits :
                          e.out[i] = IF i < 2 + DataBits THEN d.out[i + 1] ELSE 0
<1>1. CASE tap # "shift_dr"
  BY <1>1 DEF step_state_machine_shift
<1>2. CASE tap = "shift_dr"
  <2> DEFINE in == d.in
             out == d.out
             n == ShiftRegLen
             m == 2 + DataBits
             i == Append(Tail(in), tdi)
             o == Append(Tail(out), 0)
  <2>1. step_state_machine_shift(d, tdi) = [d EXCEPT !.in = i, !.out = o]
    BY <1>2 DEF step_state_machine_shift
  <2>2. /\ in \in [1 .. n -> Loaded] /\ tdi \in Loaded /\ n \in Nat \ {0}
        /\ out \in [1 .. m -> Bits] /\ 0 \in Bits /\ m \in Nat \ {0}
    BY Sizes DEF Submodule, Loaded, Bits, BitString
  <2> HIDE DEF in, out, n, m
  <2>3. /\ i \in [1 .. n -> Loaded]
        /\ \A j \in 1 .. n : i[j] = IF j < n THEN in[j + 1] ELSE tdi
    <3>1. i \in [1 .. n -> Loaded]
      BY <2>2, ShiftIn DEF i
    <3>2. ASSUME NEW j \in 1 .. n PROVE i[j] = IF j < n THEN in[j + 1] ELSE tdi
      BY <2>2, ShiftedAt DEF i
    <3> QED BY <3>1, <3>2
  <2>4. /\ o \in [1 .. m -> Bits]
        /\ \A j \in 1 .. m : o[j] = IF j < m THEN out[j + 1] ELSE 0
    <3>1. o \in [1 .. m -> Bits]
      BY <2>2, ShiftIn DEF o
    <3>2. ASSUME NEW j \in 1 .. m PROVE o[j] = IF j < m THEN out[j + 1] ELSE 0
      BY <2>2, ShiftedAt DEF o
    <3> QED BY <3>1, <3>2
  <2> HIDE DEF i, o
  <2> QED BY <1>2, <2>1, <2>3, <2>4 DEF Submodule, BitString, in, out, n, m
<1> QED BY <1>1, <1>2

(* The bits of an answer.                                                  *)
LEMMA OutIs ==
    ASSUME NEW a \in Answer
    PROVE  /\ OutBits(a) \in BitString(2 + DataBits)
           /\ OutBits(a)[1] = 1 /\ OutBits(a)[2] = a.err
           /\ a.err = 0 => \A i \in 1 .. DataBits : OutBits(a)[2 + i] = a.data[i]
<1> DEFINE t == IF a.err = 1 THEN Zeros(DataBits) ELSE a.data
<1>1. DataBits \in Nat /\ a.err \in Bits /\ a.data \in [1 .. DataBits -> Bits]
  BY Sizes DEF Answer, BitString
<1>2. t \in [1 .. DataBits -> Bits] /\ (a.err = 0 => t = a.data)
  <2>1. Zeros(DataBits) \in [1 .. DataBits -> Bits]
    BY <1>1, ZerosAre DEF BitString
  <2>2. a.err = 0 => a.err # 1
    OBVIOUS
  <2> QED BY <1>1, <2>1, <2>2
<1> HIDE DEF t
<1>3. <<1, a.err>> \o t = [i \in 1 .. 2 + DataBits |-> IF i <= 2 THEN <<1, a.err>>[i] ELSE t[i - 2]]
  BY <1>1, <1>2
<1>4. OutBits(a) = [i \in 1 .. 2 + DataBits |->
                      IF i = 1 THEN 1 ELSE IF i = 2 THEN a.err ELSE t[i - 2]]
  BY <1>1, <1>3 DEF OutBits, t
<1>5. 1 \in Bits
  BY DEF Bits
<1>6. OutBits(a)[1] = 1 /\ OutBits(a)[2] = a.err
      /\ \A i \in 1 .. DataBits : OutBits(a)[2 + i] = t[i]
  BY <1>1, <1>4
<1>7. OutBits(a) \in BitString(2 + DataBits)
  BY <1>1, <1>2, <1>4, <1>5 DEF BitString
<1> QED BY <1>2, <1>6, <1>7

(* and at any clock;                                                       *)
LEMMA TickIs ==
    ASSUME NEW d \in Submodule
    PROVE  LET e == step_state_machine_tick(d)
           IN  /\ e \in Submodule /\ e.in = d.in
               /\ ~d.busy => e = d
               /\ d.busy /\ d.answer = NoCall =>
                    /\ e.busy /\ e.answer = NoCall /\ e.cmd = d.cmd
                    /\ e.out = Zeros(2 + DataBits)
               /\ d.busy /\ d.answer # NoCall =>
                    d.answer \in Answer /\ ~e.busy /\ e.out = OutBits(d.answer)
<1>1. CASE ~d.busy
  BY <1>1 DEF step_state_machine_tick
<1>2. CASE d.busy /\ d.answer = NoCall
  BY <1>2, ZeroOut DEF step_state_machine_tick, Submodule
<1>3. CASE d.busy /\ d.answer # NoCall
  <2>1. d.answer \in Answer
    BY <1>3 DEF Submodule
  <2>2. step_state_machine_tick(d) = [Idle(d) EXCEPT !.out = OutBits(d.answer)]
    BY <1>3 DEF step_state_machine_tick, OutBits
  <2> QED BY <1>3, <2>1, <2>2, OutIs, IdleIs DEF Submodule
<1> QED BY <1>1, <1>2, <1>3

(* the command that is in its shift register,                              *)
LEMMA DecodedIs ==
    ASSUME dbg \in Submodule, NEW opcode
    PROVE  /\ Decoded(opcode) \in SprCommand
           /\ Decoded(opcode).kind = IF opcode = Cmd.READ_CPU_SPR THEN "read" ELSE "write"
           /\ DOMAIN Decoded(opcode) = IF opcode = Cmd.READ_CPU_SPR THEN {"kind", "spr"}
                                       ELSE {"kind", "spr", "data"}
           /\ Decoded(opcode).spr \in [1 .. SprBits -> Loaded]
           /\ \A i \in 1 .. SprBits : Decoded(opcode).spr[i] = dbg.in[DataBits + i]
           /\ opcode # Cmd.READ_CPU_SPR =>
                /\ Decoded(opcode).data \in [1 .. DataBits -> Loaded]
                /\ \A i \in 1 .. DataBits : Decoded(opcode).data[i] = dbg.in[i]
<1> DEFINE in == dbg.in
           n == ShiftRegLen
           s == SubSeq(in, DataBits + 1, DataBits + SprBits)
           t == SubSeq(in, 1, DataBits)
<1>1. /\ in \in [1 .. n -> Loaded] /\ n \in Nat /\ DataBits \in Nat \ {0} /\ SprBits \in Nat \ {0}
      /\ n = DataBits + SprBits + 3
  BY Sizes DEF Submodule
<1> HIDE DEF in, n
<1>2. s \in [1 .. SprBits -> Loaded] /\ \A i \in 1 .. SprBits : s[i] = in[DataBits + i]
  <2>1. DataBits \in Nat /\ SprBits \in Nat /\ DataBits + SprBits <= n
    BY <1>1
  <2>2. s \in [1 .. SprBits -> Loaded]
    BY <1>1, <2>1, PartOf
  <2>3. ASSUME NEW i \in 1 .. SprBits PROVE s[i] = in[DataBits + i]
    BY <1>1, <2>1, PartAt
  <2> QED BY <2>2, <2>3
<1>3. t \in [1 .. DataBits -> Loaded] /\ \A i \in 1 .. DataBits : t[i] = in[i]
  <2>1. 0 \in Nat /\ DataBits \in Nat /\ 0 + DataBits <= n
    BY <1>1
  <2>2. t = SubSeq(in, 0 + 1, 0 + DataBits)
    BY <2>1
  <2>3. SubSeq(in, 0 + 1, 0 + DataBits) \in [1 .. DataBits -> Loaded]
    BY ONLY <1>1, <2>1, PartOf
  <2> HIDE DEF t
  <2>4. ASSUME NEW i \in 1 .. DataBits PROVE t[i] = in[i]
    <3>1. SubSeq(in, 0 + 1, 0 + DataBits)[i] = in[0 + i]
      BY <1>1, <2>1, PartAt
    <3>2. 0 + i = i
      OBVIOUS
    <3> QED BY <2>2, <3>1, <3>2
  <2>5. t \in [1 .. DataBits -> Loaded]
    BY <2>2, <2>3
  <2> QED BY <2>4, <2>5
<1>4. Decoded(opcode) = IF opcode = Cmd.READ_CPU_SPR THEN [kind |-> "read", spr |-> s]
                        ELSE [kind |-> "write", spr |-> s, data |-> t]
  BY DEF Decoded, in
<1> HIDE DEF s, t
<1>5. CASE opcode = Cmd.READ_CPU_SPR
  BY <1>2, <1>4, <1>5 DEF SprCommand, in
<1>6. CASE opcode # Cmd.READ_CPU_SPR
  BY <1>2, <1>3, <1>4, <1>6 DEF SprCommand, in
<1> QED BY <1>5, <1>6

(* and what Update-DR makes of it.                                         *)
LEMMA UpdateIs ==
    ASSUME dbg \in Submodule, NEW opcode, NEW stalled \in Bits
    PROVE  LET e == step_state_machine_update(opcode, stalled)
           IN  /\ e \in Submodule /\ e.in = dbg.in
               /\ opcode \in {Cmd.READ_CPU_SPR, Cmd.WRITE_CPU_SPR} =>
                    /\ e.busy /\ e.cmd = Decoded(opcode) /\ e.answer = NoCall
                    /\ e.out = Zeros(2 + DataBits)
               /\ opcode \notin {Cmd.READ_CPU_SPR, Cmd.WRITE_CPU_SPR} =>
                    /\ ~e.busy
                    /\ e.out[1] = IF opcode = Cmd.IS_CPU_STALLED THEN stalled ELSE 0
<1>1. CASE opcode \in {Cmd.READ_CPU_SPR, Cmd.WRITE_CPU_SPR}
  <2>1. step_state_machine_update(opcode, stalled) =
          [dbg EXCEPT !.busy = TRUE, !.cmd = Decoded(opcode), !.answer = NoCall,
                      !.out = Zeros(2 + DataBits)]
    BY <1>1 DEF step_state_machine_update
  <2>2. Decoded(opcode) \in SprCommand
    BY DecodedIs
  <2> QED BY <1>1, <2>1, <2>2, ZeroOut DEF Submodule
<1>2. CASE opcode \notin {Cmd.READ_CPU_SPR, Cmd.WRITE_CPU_SPR}
  <2> DEFINE b == IF opcode = Cmd.IS_CPU_STALLED THEN stalled ELSE 0
             o == <<b>> \o Zeros(1 + DataBits)
  <2>1. step_state_machine_update(opcode, stalled) = [Idle(dbg) EXCEPT !.out = o]
    BY <1>2 DEF step_state_machine_update
  <2>2. b \in Bits
    BY DEF Bits
  <2> HIDE DEF b
  <2>3. o \in BitString(2 + DataBits) /\ o[1] = b
    <3>1. 1 + DataBits \in Nat /\ 1 + (1 + DataBits) = 2 + DataBits /\ 2 + DataBits \in Nat \ {0}
      BY Sizes
    <3>2. Zeros(1 + DataBits) \in Seq(Bits) /\ Len(Zeros(1 + DataBits)) = 1 + DataBits
      BY <3>1, ZerosAre
    <3>3. o \in Seq(Bits) /\ Len(o) = 2 + DataBits /\ o[1] = b
      BY <2>2, <3>1, <3>2
    <3> QED BY <3>3, SeqOfLength DEF BitString
  <2> HIDE DEF o
  <2>4. [Idle(dbg) EXCEPT !.out = o] \in Submodule
    BY <2>3, IdleIs DEF Submodule
  <2> QED BY <1>2, <2>1, <2>3, <2>4, IdleIs DEF b, Submodule
<1> QED BY <1>1, <1>2

(* The submodule keeps to its types, whatever the clock.                   *)
LEMMA SubmoduleClock ==
    ASSUME Scripted, Types, Clock
    PROVE  dbg' \in Submodule
<1>1. dbg \in Submodule /\ Head(todo).tdi \in Bits
  BY TdiIsBit DEF Types
<1>2. CASE dbg' = Reset(dbg)
  BY <1>1, <1>2, ResetIs
<1>3. CASE dbg' = step_state_machine_tick(step_state_machine_shift(dbg, Head(todo).tdi))
  <2>1. step_state_machine_shift(dbg, Head(todo).tdi) \in Submodule
    BY <1>1, ShiftIs
  <2> QED BY <1>3, <2>1, TickIs
<1>4. CASE \E opcode : \E stalled \in {0, 1} : dbg' = step_state_machine_update(opcode, stalled)
  <2>1. PICK opcode : \E stalled \in Bits : dbg' = step_state_machine_update(opcode, stalled)
    BY <1>4 DEF Bits
  <2> QED BY <1>1, <2>1, UpdateIs
<1>5. \/ dbg' = Reset(dbg)
      \/ dbg' = step_state_machine_tick(step_state_machine_shift(dbg, Head(todo).tdi))
      \/ \E opcode : \E stalled \in {0, 1} : dbg' = step_state_machine_update(opcode, stalled)
  BY ClockParts
<1> QED BY <1>2, <1>3, <1>4, <1>5, Zenon

(* What is read is bits.                                                   *)
LEMMA CableBit ==
    ASSUME Scripted, Types, Clock, Reading
    PROVE  /\ CableTdo \in Bits /\ tap = "shift_dr" /\ Typed(tap, devs[1])
           /\ setup.tdo = "ok" => CableTdo = Tdo(devs[1])
           /\ setup.tdo # "ok" => CableTdo = IF setup.tdo = "0" THEN 0 ELSE 1
<1>1. tap = "shift_dr"
  BY ReadingShifts DEF Clock
<1>2. Typed(tap, devs[1]) /\ dbg \in Submodule
  BY TdiIsBit DEF Types
<1>3. Tdo(devs[1]) \in Bits
  BY <1>1, <1>2, TdoIsBit
<1> QED BY <1>1, <1>2, <1>3 DEF CableTdo, Bits

(* A clock reads one of the bits to be read.                               *)
LEMMA ReadsAllClock ==
    ASSUME Scripted, Types, ReadsAll, Clock
    PROVE  ReadsAll'
<1>1. pc' = pc /\ Len(todo') = Len(todo) - 1 /\ Len(todo) \in Nat \ {0}
  BY ClockFacts DEF Scripted
<1>2. CASE Reading
  <2>1. got \in Seq(Bits) /\ got' = Append(got, CableTdo) /\ CableTdo \in Bits
    BY <1>2, ClockParts, CableBit DEF Types
  <2>2. Len(got) \in Nat /\ Len(got') = Len(got) + 1
    BY <2>1
  <2>3. Len(got') + Len(todo') = Len(got) + Len(todo)
    BY <1>1, <2>2
  <2> QED BY <1>1, <2>3 DEF ReadsAll
<1>3. CASE ~Reading
  BY <1>1, <1>3 DEF Reading, ReadsAll
<1> QED BY <1>2, <1>3

(* A clock, and a step between clocks, keep the types.                     *)
LEMMA TypesClock ==
    ASSUME Scripted, Types, Clock
    PROVE  Types'
<1>1. UNCHANGED <<setup, pc, kept, discovered>>
  BY ClockFacts DEF Scripted
<1>2. devs' \in [1 .. Len(setup.chain) -> Device]
      /\ \A i \in 1 .. Len(setup.chain) : Typed(tap', devs'[i])
  <2>1. \A i \in 1 .. Len(setup.chain) : Typed(tap', devs'[i])
    BY DeviceClock
  <2>2. \A i \in 1 .. Len(setup.chain) : devs'[i] \in Device
    BY <2>1 DEF Typed
  <2>3. devs' = [i \in 1 .. Len(setup.chain) |-> devs'[i]]
    BY ClockParts, TdiIsBit
  <2> QED BY <2>1, <2>2, <2>3
<1>3. dbg' \in Submodule
  BY SubmoduleClock
<1>4. got' \in Seq(Bits)
  <2>1. got \in Seq(Bits)
    BY DEF Types
  <2>2. CASE Reading
    <3>1. CableTdo \in Bits /\ got' = Append(got, CableTdo)
      BY <2>2, ClockParts, CableBit
    <3> QED BY <2>1, <3>1
  <2>3. CASE ~Reading
    BY <2>1, <2>3, ClockParts
  <2> QED BY <2>2, <2>3
<1>5. /\ discovered' \in Seq({<<>>} \cup BitString(IdBits)) /\ Len(discovered') <= MaxDevices
      /\ pc' = "rest" => kept' \in BitString(ManufBits)
      /\ pc' \in Enumerating => Len(discovered') < MaxDevices
  BY <1>1 DEF Types
<1> QED BY <1>1, <1>2, <1>3, <1>4, <1>5 DEF Types

(* The same between clocks.                                                *)
LEMMA TypesSilent ==
    ASSUME Scripted, Types, ReadsAll, Silent
    PROVE  Types'
<1>1. UNCHANGED <<setup, tap, devs, dbg>>
  BY SilentIsSilent
<1>2. got' = <<>>
  BY DEF Silent, ResetTap, NextDevice, StartBit, ManufacturerCode, RestOfIdCode, Enumerated,
     ConfigureChain, JtagGetIdCode, SanityCheck, PollAck, IsStalled, ErrorBit, ReadSpr,
     SprRead, Return, Call, Fail, Start, Send, SendMarker, Discover, Quit,
     finish_and_leave_a_dbg_nop_cmd_in_place
<1>3. /\ devs' \in [1 .. Len(setup'.chain) -> Device]
      /\ \A i \in 1 .. Len(setup'.chain) : Typed(tap', devs'[i])
      /\ dbg' \in Submodule /\ got' \in Seq(Bits)
  BY <1>1, <1>2 DEF Types
<1> DEFINE Ids == {<<>>} \cup BitString(IdBits)
           Goal == /\ discovered' \in Seq(Ids) /\ Len(discovered') <= MaxDevices
                   /\ pc' = "rest" => kept' \in BitString(ManufBits)
                   /\ pc' \in Enumerating => Len(discovered') < MaxDevices
<1>4. discovered \in Seq(Ids) /\ Len(discovered) <= MaxDevices /\ Len(discovered) \in Nat
      /\ MaxDevices \in Nat \ {0} /\ got \in Seq(Bits) /\ Len(got) \in Nat
  <2>1. discovered \in Seq(Ids) /\ got \in Seq(Bits)
    BY DEF Types
  <2> QED BY <2>1, Sizes DEF Types
<1>11. SUFFICES Goal
  BY <1>1, <1>3 DEF Types
<1> HIDE DEF Ids
<1>5. CASE StartBit
  <2>1. pc = "start bit" /\ UNCHANGED kept
        /\ \/ pc' = "next device" /\ discovered' = Append(discovered, <<>>)
           \/ pc' = "manufacturer" /\ UNCHANGED discovered
    BY <1>5 DEF StartBit, At, Discover, Send, SendMarker
  <2>2. Len(discovered) < MaxDevices
    BY <2>1 DEF Types, Enumerating
  <2>3. <<>> \in Ids
    BY DEF Ids
  <2>4. Append(discovered, <<>>) \in Seq(Ids)
        /\ Len(Append(discovered, <<>>)) = Len(discovered) + 1
    BY <1>4, <2>3
  <2>5. Len(discovered) + 1 <= MaxDevices
    BY <1>4, <2>2
  <2>6. CASE pc' = "next device" /\ discovered' = Append(discovered, <<>>)
    BY ONLY <2>4, <2>5, <2>6 DEF Enumerating, Goal
  <2>7. CASE pc' = "manufacturer" /\ UNCHANGED discovered
    BY ONLY <1>4, <2>2, <2>7 DEF Enumerating, Goal
  <2> QED BY <2>1, <2>6, <2>7
<1>6. CASE RestOfIdCode
  <2>1. pc = "rest" /\ todo = <<>> /\ pc' = "next device"
        /\ discovered' = Append(discovered, <<1>> \o kept \o got)
    BY <1>6 DEF RestOfIdCode, At, Discover, Send
  <2>2. Len(discovered) < MaxDevices /\ kept \in BitString(ManufBits)
    BY <2>1 DEF Types, Enumerating
  <2>3. Len(got) = RestBits
    <3>1. Len(got) + Len(todo) = RestBits /\ Len(todo) = 0
      BY <2>1 DEF ReadsAll
    <3> QED BY <1>4, <3>1
  <2>4. <<1>> \o kept \o got \in Ids
    <3>1. kept \in Seq(Bits) /\ Len(kept) = ManufBits /\ ManufBits \in Nat /\ RestBits \in Nat
      BY <2>2, Sizes DEF BitString
    <3>2. <<1>> \in Seq(Bits) /\ Len(<<1>>) = 1
      BY DEF Bits
    <3>3. <<1>> \o kept \o got \in Seq(Bits) /\ Len(<<1>> \o kept \o got) = 1 + ManufBits + RestBits
      BY <1>4, <2>3, <3>1, <3>2, BitsInThree
    <3>4. <<1>> \o kept \o got \in BitString(IdBits)
      BY <3>3, SeqOfLength, Sizes DEF BitString
    <3> QED BY <3>4 DEF Ids
  <2> DEFINE id == <<1>> \o kept \o got
  <2> HIDE DEF id
  <2>6. Append(discovered, id) \in Seq(Ids) /\ Len(Append(discovered, id)) = Len(discovered) + 1
    BY <1>4, <2>4 DEF id
  <2>7. discovered' = Append(discovered, id)
    BY <2>1 DEF id
  <2>8. Len(discovered) + 1 <= MaxDevices /\ pc' = "next device"
    <3>1. pc' = "next device"
      BY <2>1
    <3>2. Len(discovered) + 1 <= MaxDevices
      BY ONLY <1>4, <2>2
    <3> QED BY <3>1, <3>2
  <2> QED BY ONLY <2>6, <2>7, <2>8 DEF Enumerating, Goal
<1>7. CASE NextDevice
  <2>1. UNCHANGED discovered /\ pc' \in {"start bit", "enumerated"}
        /\ (pc' = "start bit" => Len(discovered) < MaxDevices)
    BY <1>7 DEF NextDevice, Send, SendMarker
  <2> QED BY <1>4, <2>1 DEF Enumerating
<1>8. CASE ManufacturerCode
  <2>1. /\ pc = "manufacturer" /\ todo = <<>> /\ kept' = got /\ UNCHANGED discovered
        /\ pc' \in {"rest", "enumerated"}
    BY <1>8 DEF ManufacturerCode, At, Keep, Send, SendMarker
  <2>2. Len(discovered) < MaxDevices
    BY <2>1 DEF Types, Enumerating
  <2>3. Len(got) = ManufBits
    <3>1. Len(got) + Len(todo) = ManufBits /\ Len(todo) = 0
      BY <2>1 DEF ReadsAll
    <3> QED BY <1>4, <3>1
  <2>4. got \in BitString(ManufBits)
    BY <1>4, <2>3, SeqOfLength DEF BitString
  <2> QED BY <1>4, <2>1, <2>2, <2>4
<1>9. CASE Start
  <2>1. discovered' = <<>> /\ pc' = "started"
    BY <1>9 DEF Start, Send
  <2>2. <<>> \in Seq(Ids) /\ Len(<<>>) = 0
    OBVIOUS
  <2> QED BY <1>4, <2>1, <2>2 DEF Enumerating
<1>10. CASE ~(StartBit \/ RestOfIdCode \/ NextDevice \/ ManufacturerCode \/ Start)
  <2>1. UNCHANGED discovered
        /\ pc' \in {"next device", "configure", "identify", "idcode", "serving", "exit", "command",
                    "ack", "error", "data", "finish"}
    BY <1>10 DEF Silent, ResetTap, Enumerated, Quit, ConfigureChain, JtagGetIdCode,
       SanityCheck, PollAck, IsStalled, ErrorBit, ReadSpr, SprRead, Return, Call, Fail, Send,
       finish_and_leave_a_dbg_nop_cmd_in_place
  <2> QED BY <1>4, <2>1 DEF Enumerating
<1> QED BY <1>5, <1>6, <1>7, <1>8, <1>9, <1>10

(* The registers and what is read, from the start and through every step.  *)
Sound == Scripted /\ Types /\ ReadsAll

(* Before the program is started, all is sound,                            *)
LEMMA SoundInit ==
    ASSUME Init PROVE Sound
<1>1. Scripted
  BY ScriptedInit
<1>2. Len(setup.chain) \in Nat \ {0} /\ DOMAIN setup.chain = 1 .. Len(setup.chain)
  BY <1>1, Chain DEF Scripted, Base
<1>3. /\ devs \in [1 .. Len(setup.chain) -> Device]
      /\ \A i \in 1 .. Len(setup.chain) : Typed(tap, devs[i])
  <2>1. /\ devs = [i \in 1 .. Len(setup.chain) |-> reset_sync(setup.chain[i])]
        /\ tap = "test_logic_reset"
    BY <1>2 DEF Init
  <2>2. \A i \in 1 .. Len(setup.chain) : Typed(tap, reset_sync(setup.chain[i]))
    BY <2>1, ResetSync DEF Typed, ShiftsIr, ShiftsDr
  <2> QED BY <2>1, <2>2 DEF Typed
<1>4. dbg \in Submodule
  <2>1. [i \in 1 .. ShiftRegLen |-> X] \in [1 .. ShiftRegLen -> Loaded]
    BY DEF Loaded
  <2> QED BY <2>1, ZeroOut DEF Init, Submodule
<1>5. got \in Seq(Bits) /\ pc = "exit"
  BY DEF Init
<1>6. discovered \in Seq({<<>>} \cup BitString(IdBits)) /\ Len(discovered) <= MaxDevices
  <2>1. discovered = <<>> /\ MaxDevices \in Nat
    BY Sizes DEF Init
  <2>2. Len(discovered) = 0
    BY <2>1
  <2> QED BY <2>1, <2>2
<1>7. Types
  BY <1>3, <1>4, <1>5, <1>6 DEF Types, Enumerating
<1>8. ReadsAll
  BY <1>5 DEF ReadsAll
<1> QED BY <1>1, <1>7, <1>8 DEF Sound

(* and every step keeps it so.                                             *)
LEMMA SoundStep ==
    ASSUME ~CatchErrors, Sound, [Next]_vars
    PROVE  Sound'
<1>1. Scripted'
  BY ScriptedStep DEF Sound
<1>2. CASE Clock
  BY <1>1, <1>2, TypesClock, ReadsAllClock DEF Sound
<1>3. CASE Silent
  BY <1>1, <1>3, TypesSilent, ReadsAllSilent DEF Sound
<1>4. CASE CpuAnswers
  <2>1. UNCHANGED <<setup, tap, devs, pc, todo, got, kept, discovered>>
    BY <1>4 DEF CpuAnswers, program
  <2>2. dbg' \in Submodule
    <3>1. PICK answer \in Answer : dbg' = [dbg EXCEPT !.answer = answer]
      BY <1>4 DEF CpuAnswers
    <3> QED BY <3>1 DEF Sound, Types, Submodule
  <2>3. Types' /\ ReadsAll'
    BY <2>1, <2>2 DEF Sound, Types, ReadsAll
  <2> QED BY <1>1, <2>3 DEF Sound
<1>5. CASE Still
  <2>1. UNCHANGED <<setup, tap, devs, dbg, pc, todo, got, kept, discovered>>
    BY <1>5 DEF Still, program
  <2>2. Types' /\ ReadsAll'
    BY <2>1 DEF Sound, Types, ReadsAll
  <2> QED BY <1>1, <2>2 DEF Sound
<1> QED BY <1>2, <1>3, <1>4, <1>5, ThreeKinds

-----------------------------------------------------------------------------
(* The tape: where the register of each device begins.                     *)
(* Every set of numbers that is not empty has a least element.             *)
LEMMA LeastNatural ==
    ASSUME NEW T \in SUBSET Nat, T # {}
    PROVE  \E x \in T : \A y \in T : x <= y
<1>1. PICK x \in T : \A y \in T : ~ (<<y, x>> \in OpToRel(<, Nat))
  BY NatLessThanWellFounded, WFMin
<1>2. ASSUME NEW y \in T, y < x PROVE <<y, x>> \in OpToRel(<, Nat)
  BY <1>2 DEF OpToRel
<1>3. \A y \in T : ~(y < x)
  BY <1>1, <1>2
<1>4. x \in Nat /\ \A y \in T : y \in Nat
  OBVIOUS
<1> QED BY <1>3, <1>4

(* Induction, in terms of the set of the numbers that have the property.   *)
LEMMA SetInduction ==
    ASSUME NEW T, 0 \in T, \A n \in Nat : n \in T => n + 1 \in T
    PROVE  Nat \subseteq T
<1> SUFFICES ASSUME Nat \ T # {} PROVE FALSE
  OBVIOUS
<1>1. PICK x \in Nat \ T : \A y \in Nat \ T : x <= y
  BY LeastNatural
<1>2. x # 0 /\ x - 1 \in Nat /\ x - 1 \in T
  BY <1>1
<1>3. x - 1 + 1 \in T
  BY <1>2
<1> QED BY <1>3, <1>1

(* What a device shifts out of its data register at first.                 *)
LEMMA HeldIs ==
    ASSUME NEW s \in Setups, NEW i \in 1 .. Len(s.chain)
    PROVE  /\ Held(s, i) \in DataRegister /\ Len(Held(s, i)) \in Nat \ {0}
           /\ Id(s, i) = <<>> => Held(s, i)[1] = 0 /\ Len(Held(s, i)) = 1
           /\ Id(s, i) # <<>> =>
                /\ Held(s, i) = Id(s, i) /\ Len(Held(s, i)) = IdBits
                /\ Id(s, i) \in BitString(IdBits) /\ Held(s, i)[1] = 1
<1>1. CASE Id(s, i) = <<>>
  <2>1. Held(s, i) = <<0>>
    BY <1>1 DEF Held
  <2>2. <<0>> \in BitString(1) /\ Len(<<0>>) = 1 /\ <<0>>[1] = 0
    BY DEF BitString, Bits
  <2> QED BY <1>1, <2>1, <2>2 DEF DataRegister
<1>2. CASE Id(s, i) # <<>>
  <2>1. Id(s, i) \in BitString(IdBits) /\ Id(s, i)[1] = 1
    <3>0. s.chain \in Seq(DOMAIN IdCode)
      BY ChainAssumption
    <3>1. DOMAIN s.chain = 1 .. Len(s.chain)
      BY <3>0
    <3> QED BY <1>2, <3>1, ChainAssumption DEF Id
  <2>2. Held(s, i) = Id(s, i)
    BY <1>2 DEF Held
  <2>3. IdBits \in Nat \ {0}
    BY Sizes
  <2>4. Len(Id(s, i)) = IdBits
    BY <2>1, <2>3 DEF BitString
  <2> QED BY <1>2, <2>1, <2>2, <2>3, <2>4 DEF DataRegister
<1> QED BY <1>1, <1>2

(* Where each device begins on the tape.                                   *)
LEMMA OffsetsExist ==
    ASSUME NEW s \in Setups
    PROVE  /\ Len(s.chain) \in Nat \ {0}
           /\ Offsets(s, Offset(s))
<1> DEFINE n == Len(s.chain)
           Reaches(f, m) == /\ f \in [1 .. m + 1 -> Nat] /\ f[1] = 0
                            /\ \A i \in 1 .. m : f[i + 1] = f[i] + Len(Held(s, i))
           T == {m \in Nat : m <= n => \E f : Reaches(f, m)}
<1>0. n \in Nat \ {0}
  <2>1. s.chain \in Seq(DOMAIN IdCode) /\ s.chain # <<>>
    BY ChainAssumption
  <2> QED BY <2>1
<1> HIDE DEF n
<1>1. 0 \in T
  <2>1. Reaches([i \in 1 .. 1 |-> 0], 0)
    OBVIOUS
  <2> QED BY <2>1
<1>2. ASSUME NEW m \in Nat, m \in T PROVE m + 1 \in T
  <2>0. ASSUME m + 1 <= n PROVE \E f : Reaches(f, m + 1)
    <3>0. \E f : Reaches(f, m)
      <4> HIDE DEF Reaches
      <4>1. m <= n
        BY <1>0, <2>0
      <4> QED BY <1>2, <4>1
    <3>1. PICK f : Reaches(f, m)
      BY <3>0
    <3>2. m + 1 \in 1 .. n
      BY <1>0, <2>0
    <3>3. Len(Held(s, m + 1)) \in Nat
      BY <3>2, HeldIs DEF n
    <3> DEFINE h == Len(Held(s, m + 1))
               g == [i \in 1 .. m + 1 + 1 |-> IF i <= m + 1 THEN f[i] ELSE f[m + 1] + h]
    <3>4. f[m + 1] \in Nat
      BY <3>1
    <3>5. g \in [1 .. m + 1 + 1 -> Nat] /\ g[1] = 0
      <4> HIDE DEF h
      <4>1. h \in Nat
        BY <3>3 DEF h
      <4> QED BY <3>1, <3>4, <4>1
    <3>6. ASSUME NEW i \in 1 .. m + 1 PROVE g[i + 1] = g[i] + Len(Held(s, i))
      <4>1. CASE i = m + 1
        BY <4>1
      <4>2. CASE i # m + 1
        <5>1. i \in 1 .. m /\ i + 1 \in 1 .. m + 1
          BY <4>2
        <5>2. g[i] = f[i] /\ g[i + 1] = f[i + 1]
          BY <5>1
        <5> QED BY <5>1, <5>2, <3>1
      <4> QED BY <4>1, <4>2
    <3> HIDE DEF g
    <3>7. Reaches(g, m + 1)
      BY <3>5, <3>6
    <3> QED BY <3>7
  <2> HIDE DEF Reaches
  <2>1. m + 1 \in Nat
    OBVIOUS
  <2> QED BY <2>0, <2>1
<1> HIDE DEF T
<1>3. n \in T
  BY <1>0, <1>1, <1>2, SetInduction
<1>4. \E f : Reaches(f, n)
  BY <1>0, <1>3 DEF T
<1>5. \E f : Offsets(s, f)
  BY <1>4 DEF Offsets, n
<1> QED BY <1>0, <1>5 DEF Offset, n

(* The registers lie one behind the other.                                 *)
LEMMA OffsetsRise ==
    ASSUME NEW s \in Setups
    PROVE  /\ Offset(s) \in [1 .. Len(s.chain) + 1 -> Nat] /\ Offset(s)[1] = 0
           /\ \A i \in 1 .. Len(s.chain) : Offset(s)[i + 1] = Offset(s)[i] + Len(Held(s, i))
           /\ \A i \in 1 .. Len(s.chain) : \A j \in 1 .. Len(s.chain) + 1 :
                 i < j => Offset(s)[i] + Len(Held(s, i)) <= Offset(s)[j]
<1> DEFINE n == Len(s.chain)
           f == Offset(s)
           h(i) == Len(Held(s, i))
           T == {m \in Nat : \A i \in 1 .. n + 1 : i + m <= n + 1 => f[i] <= f[i + m]}
<1>1. /\ n \in Nat \ {0} /\ f \in [1 .. n + 1 -> Nat] /\ f[1] = 0
      /\ \A i \in 1 .. n : f[i + 1] = f[i] + h(i)
  BY OffsetsExist DEF Offsets
<1>2. \A i \in 1 .. n : h(i) \in Nat
  BY HeldIs
<1> HIDE DEF n, f, h
<1>3. 0 \in T
  BY <1>1
<1>4. ASSUME NEW m \in Nat, m \in T PROVE m + 1 \in T
  <2> SUFFICES ASSUME NEW i \in 1 .. n + 1, i + (m + 1) <= n + 1 PROVE f[i] <= f[i + (m + 1)]
    OBVIOUS
  <2>1. i + m \in 1 .. n /\ i + (m + 1) = (i + m) + 1 /\ i + m <= n + 1
    BY <1>1
  <2>2. f[i] <= f[i + m] /\ f[(i + m) + 1] = f[i + m] + h(i + m) /\ h(i + m) \in Nat
    BY <1>1, <1>2, <1>4, <2>1
  <2>3. f[i] \in Nat /\ f[i + m] \in Nat
    BY <1>1, <2>1
  <2> QED BY <2>1, <2>2, <2>3
<1> HIDE DEF T
<1>5. \A m \in Nat : m \in T
  BY <1>3, <1>4, SetInduction
<1>6. ASSUME NEW i \in 1 .. n, NEW j \in 1 .. n + 1, i < j PROVE f[i] + h(i) <= f[j]
  <2>1. j - (i + 1) \in Nat /\ i + 1 \in 1 .. n + 1 /\ (i + 1) + (j - (i + 1)) = j
        /\ (i + 1) + (j - (i + 1)) <= n + 1
    BY <1>1, <1>6
  <2>2. j - (i + 1) \in T
    BY <1>5, <2>1
  <2>3. f[i + 1] <= f[j]
    BY <2>1, <2>2 DEF T
  <2> QED BY <1>1, <2>3
<1> QED BY <1>1, <1>6 DEF n, f, h

-----------------------------------------------------------------------------
(* From the reset to the first instruction.                                *)

(* Where the TAPs are.                                                     *)
LEMMA WhereIs ==
    ASSUME Scripted
    PROVE  /\ Len(todo) \in Nat
           /\ pc = "next device" => tap \in WhereReset(Len(todo))
           /\ pc = "identify" =>
                /\ tap \in WhereIdentify(get_IR_size, Len(todo)) /\ get_IR_size \in Nat \ {0}
                /\ Len(todo) <= get_IR_size + 9
           /\ pc = "serving" =>
                /\ tap \in WhereServing(get_IR_size, Len(todo)) /\ get_IR_size \in Nat \ {0}
                /\ Len(todo) <= get_IR_size + 8
           /\ pc = "command" =>
                /\ tap \in WhereCommand(Size(call), Len(todo)) /\ Size(call) \in Nat \ {0}
                /\ Len(todo) <= Size(call) + 8
           /\ pc \in {"configure", "finish"} => tap \in WhereEnding(Len(todo))
           /\ pc = "idcode" => tap = IF Len(todo) = 0 THEN "exit1_dr" ELSE "shift_dr"
           /\ pc \in {"start bit", "manufacturer", "rest", "enumerated", "ack", "error", "data"} =>
                tap = "shift_dr"
           /\ pc = "exit" /\ Len(todo) # 0 => tap \in WhereEnding(Len(todo))
<1>1. tap \in Where(pc, IrBits, Size(call), Len(todo))
  BY DEF Scripted, OnScript
<1>2. Len(todo) \in Nat
  <2>1. todo \in Seq(Packet)
    BY DEF Scripted, OnScript, FollowsScript
  <2> QED BY <2>1
<1>3. Size(call) \in Nat \ {0} /\ call \in AnyCall
  BY SizeNat DEF Scripted, Base
<1>4. pc \in {"identify", "serving"} =>
        get_IR_size \in Nat \ {0} /\ IrBits = get_IR_size
  BY DEF Scripted, Base, Configured, IsConfigured, IrBits
<1>5. Len(todo) <= Clocks(pc, IrBits, Size(call))
  BY DEF Scripted, OnScript, FollowsScript
<1>6. pc = "next device" => tap \in WhereReset(Len(todo))
  BY <1>1 DEF Where
<1>7. pc = "identify" =>
        /\ tap \in WhereIdentify(get_IR_size, Len(todo)) /\ get_IR_size \in Nat \ {0}
        /\ Len(todo) <= get_IR_size + 9
  <2> SUFFICES ASSUME pc = "identify"
               PROVE  /\ tap \in WhereIdentify(get_IR_size, Len(todo))
                      /\ Len(todo) <= get_IR_size + 9
    BY <1>4
  <2>1. Clocks("identify", get_IR_size, Size(call)) = get_IR_size + 9
    BY <1>3, <1>4, Script
  <2> QED BY <1>1, <1>4, <1>5, <2>1 DEF Where
<1>8. pc = "serving" =>
        /\ tap \in WhereServing(get_IR_size, Len(todo)) /\ get_IR_size \in Nat \ {0}
        /\ Len(todo) <= get_IR_size + 8
  <2> SUFFICES ASSUME pc = "serving"
               PROVE  /\ tap \in WhereServing(get_IR_size, Len(todo))
                      /\ Len(todo) <= get_IR_size + 8
    BY <1>4
  <2>1. Clocks("serving", get_IR_size, Size(call)) = get_IR_size + 8
    BY <1>3, <1>4, Script
  <2> QED BY <1>1, <1>4, <1>5, <2>1 DEF Where
<1>9. pc = "command" =>
        /\ tap \in WhereCommand(Size(call), Len(todo))
        /\ Len(todo) <= Size(call) + 8
  <2> SUFFICES ASSUME pc = "command"
               PROVE  /\ tap \in WhereCommand(Size(call), Len(todo))
                      /\ Len(todo) <= Size(call) + 8
    OBVIOUS
  <2>1. 1 \in Nat /\ IrBits = 1
    BY DEF IrBits
  <2>2. Clocks("command", 1, Size(call)) = Size(call) + 8
    BY <1>3, <2>1, Script
  <2> QED BY <1>1, <1>5, <2>1, <2>2 DEF Where
<1>10. pc \in {"configure", "finish"} => tap \in WhereEnding(Len(todo))
  BY <1>1 DEF Where
<1>11. pc = "idcode" => tap = IF Len(todo) = 0 THEN "exit1_dr" ELSE "shift_dr"
  BY <1>1 DEF Where
<1>12. pc \in {"start bit", "manufacturer", "rest", "enumerated", "ack", "error", "data"} =>
         tap = "shift_dr"
  BY <1>1 DEF Where
<1>13. pc = "exit" /\ Len(todo) # 0 => tap \in WhereEnding(Len(todo))
  BY <1>1 DEF Where
<1> QED BY <1>2, <1>3, <1>6, <1>7, <1>8, <1>9, <1>10, <1>11, <1>12, <1>13

(* An instruction register changes in two states only.                     *)
LEMMA KeepsInstruction ==
    ASSUME Sound, Clock, NEW i \in 1 .. Len(setup.chain)
    PROVE  /\ HasFirst(setup, i, devs'[i]) \/ devs'[i].instruction = devs[i].instruction
              \/ tap = "update_ir"
           /\ tap = "test_logic_reset" => HasFirst(setup, i, devs'[i])
           /\ ~Resets /\ tap \notin {"test_logic_reset", "update_ir"} =>
                devs'[i].instruction = devs[i].instruction
           /\ ~Resets /\ tap = "update_ir" => devs'[i].instruction = devs[i].ir
<1>1. devs'[i] = IF Resets THEN reset_sync(setup.chain[i])
                 ELSE tck_posedge(setup.chain[i], devs[i], TdiAt(i))
  BY DeviceClock DEF Sound
<1>2. HasFirst(setup, i, reset_sync(setup.chain[i]))
  BY ResetSync DEF HasFirst, Id
<1>3. Typed(tap, devs[i]) /\ TdiAt(i) \in Bits
  BY TdiIsBit DEF Sound, Types
<1>4. IdCode[setup.chain[i]] = <<>> \/ IdCode[setup.chain[i]] \in BitString(IdBits)
  BY Chain DEF Sound, Scripted, Base, Id
<1> DEFINE e == tck_posedge(setup.chain[i], devs[i], TdiAt(i))
<1>5. /\ tap = "test_logic_reset" => e = reset_sync(setup.chain[i])
      /\ tap \notin {"test_logic_reset", "update_ir"} => e.instruction = devs[i].instruction
      /\ tap = "update_ir" => e.instruction = devs[i].ir
  BY ONLY <1>3, <1>4, PosEdge DEF e
<1> HIDE DEF e
<1>6. devs'[i] = IF Resets THEN reset_sync(setup.chain[i]) ELSE e
  BY <1>1 DEF e
<1> QED BY <1>2, <1>5, <1>6

(* When they are those of the reset.                                       *)
LEMMA ResetTable ==
    ASSUME NEW r
    PROVE  /\ ResetAt("next device", r) <=> r <= 7
           /\ ResetAt("identify", r) <=> r >= 4
           /\ \A at \in {"start bit", "manufacturer", "rest", "enumerated", "configure"} :
                 ResetAt(at, r)
           /\ \A at \in {"exit", "started", "idcode", "serving", "command", "ack", "error", "data",
                        "finish"} : ~ResetAt(at, r)
BY DEF ResetAt

(* Where the instructions stay those of the reset.                         *)
LEMMA ResetTap_ ==
    ASSUME Scripted, IsReset, todo # <<>>
    PROVE  /\ pc # "enumerated"
           /\ tap # "update_ir" \/ (pc = "identify" /\ Len(todo) = 4)
           /\ pc = "next device" => tap \in {"test_logic_reset", "run_test_idle", "select_dr_scan",
                                             "capture_dr"}
<1> DEFINE r == Len(todo)
           l == get_IR_size
<1>1. r \in Nat \ {0}
  <2>1. todo \in Seq(Packet)
    BY DEF Scripted, OnScript, FollowsScript
  <2> QED BY <2>1
<1>2. /\ pc = "next device" => tap \in WhereReset(r)
      /\ pc = "identify" => tap \in WhereIdentify(l, r) /\ l \in Nat \ {0}
      /\ pc = "configure" => tap \in WhereEnding(r)
      /\ pc \in {"start bit", "manufacturer", "rest"} => tap = "shift_dr"
      /\ pc # "enumerated"
      /\ ResetAt(pc, r)
  BY WhereIs DEF IsReset, Scripted, OnScript
<1> HIDE DEF r, l
<1> SUFFICES /\ tap # "update_ir" \/ (pc = "identify" /\ r = 4)
             /\ pc = "next device" => tap \in {"test_logic_reset", "run_test_idle",
                                               "select_dr_scan", "capture_dr"}
  BY <1>2 DEF r
<1>3. CASE pc = "next device"
  <2>1. r \in 1 .. 7 /\ tap \in WhereReset(r)
    <3>1. r <= 7
      BY <1>2, <1>3, ResetTable
    <3>2. r \in 1 .. 7
      BY <1>1, <3>1
    <3> QED BY <1>2, <1>3, <3>2
  <2>2. tap \in {"test_logic_reset", "run_test_idle", "select_dr_scan", "capture_dr"}
    BY <2>1 DEF WhereReset
  <2> QED BY <1>3, <2>2
<1>4. CASE pc \in {"start bit", "manufacturer", "rest"}
  BY <1>2, <1>4
<1>5. CASE pc = "configure"
  BY ONLY <1>1, <1>2, <1>5 DEF WhereEnding
<1>7. pc \in {"next device", "start bit", "manufacturer", "rest", "configure", "identify"}
  BY <1>2 DEF ResetAt
<1>6. CASE pc = "identify"
  <2>1. r >= 4 /\ tap \in WhereIdentify(l, r) /\ l \in Nat \ {0}
    BY <1>2, <1>6, ResetTable
  <2>2. r # 4 => tap # "update_ir"
    BY ONLY <1>1, <2>1 DEF WhereIdentify
  <2> QED BY <1>6, <2>2
<1> QED BY <1>2, <1>3, <1>4, <1>5, <1>6, <1>7

(* Until an opcode is shifted in, the TAPs keep their first instruction.   *)
LEMMA InstructionsClock ==
    ASSUME Sound, InstructionsReset, Clock
    PROVE  InstructionsReset'
<1>1. /\ UNCHANGED <<setup, pc>> /\ todo # <<>> /\ Len(todo') = Len(todo) - 1
      /\ Len(todo) \in Nat \ {0}
  BY ClockFacts DEF Sound, Scripted
<1> SUFFICES ASSUME IsReset', NEW i \in 1 .. Len(setup.chain)
             PROVE  HasFirst(setup, i, devs'[i])
  BY <1>1 DEF InstructionsReset
<1> DEFINE r == Len(todo)
           k == Len(todo')
<1>4. ResetAt(pc, k) /\ k = r - 1 /\ r \in Nat \ {0}
  BY <1>1 DEF IsReset
<1>5. IsReset <=> ResetAt(pc, r)
  BY DEF IsReset
<1> HIDE DEF r, k
<1>2. CASE IsReset
  <2>1. HasFirst(setup, i, devs[i])
    BY <1>2 DEF InstructionsReset
  <2>2. tap # "update_ir" \/ (pc = "identify" /\ r = 4)
    BY <1>1, <1>2, ResetTap_ DEF Sound, r
  <2>3. tap # "update_ir"
    <3>1. pc = "identify" => k >= 4
      BY <1>4, ResetTable
    <3> QED BY <1>4, <2>2, <3>1
  <2>4. HasFirst(setup, i, devs'[i]) \/ devs'[i].instruction = devs[i].instruction
    BY <2>3, KeepsInstruction
  <2> QED BY <2>1, <2>4 DEF HasFirst
<1>3. CASE ~IsReset
  <2>0. pc = "next device" /\ r = 8
    <3>1. pc \in Labels
      BY DEF Sound, Scripted, Base
    <3>2. ASSUME pc = "next device" PROVE r = 8
      <4>1. k <= 7 /\ ~(r <= 7)
        BY <1>3, <1>4, <1>5, <3>2, ResetTable
      <4>2. k = r - 1 /\ r \in Nat
        BY <1>4
      <4> QED BY <4>1, <4>2
    <3>3. ASSUME pc = "identify" PROVE FALSE
      <4>1. k >= 4 /\ ~(r >= 4)
        BY <1>3, <1>4, <1>5, <3>3, ResetTable
      <4>2. k = r - 1 /\ r \in Nat
        BY <1>4
      <4> QED BY <4>1, <4>2
    <3>4. pc \in {"next device", "identify"}
      BY <1>3, <1>4, <1>5, <3>1, ResetTable DEF Labels
    <3> QED BY <3>2, <3>3, <3>4
  <2>1. pc = "next device" /\ Len(todo) = 8
    BY <2>0 DEF r
  <2>2. tap \in WhereReset(8)
    BY <2>1, WhereIs DEF Sound
  <2>3. tap = "test_logic_reset"
    BY <2>2 DEF WhereReset, Near
  <2> QED BY <2>3, KeepsInstruction
<1> QED BY <1>2, <1>3

(* No step between clocks begins that time,                                *)
LEMMA ResetStays ==
    ASSUME Silent
    PROVE  IsReset' => IsReset
<1>1. CASE ResetTap
  <2>1. NoCall \in AnyCall /\ 1 \in Nat
    BY DEF AnyCall
  <2>2. Len(tap_reset \o tap_move_from_idle_to_shift_dr) = 14
    BY <2>1, ResetSent
  <2> DEFINE k == Len(todo')
  <2>3. pc' = "next device" /\ k = 14
    BY <1>1, <2>2 DEF ResetTap, Send
  <2>4. IsReset' <=> ResetAt(pc', k)
    BY DEF IsReset
  <2> HIDE DEF k
  <2>5. ~ResetAt(pc', k)
    <3>1. ResetAt("next device", k) <=> k <= 7
      BY ResetTable
    <3>2. ~(k <= 7)
      <4>1. k = 14
        BY <2>3
      <4> QED BY <4>1
    <3> QED BY <2>3, <3>1, <3>2, Zenon
  <2> QED BY <2>4, <2>5
<1>2. CASE NextDevice \/ StartBit \/ ManufacturerCode \/ RestOfIdCode \/ Enumerated
           \/ ConfigureChain
  <2>1. /\ todo = <<>>
        /\ pc \in {"next device", "start bit", "manufacturer", "rest", "enumerated", "configure"}
    BY <1>2 DEF NextDevice, StartBit, ManufacturerCode, RestOfIdCode, Enumerated,
       ConfigureChain, At
  <2> DEFINE r == Len(todo)
  <2>2. r = 0 /\ (IsReset <=> ResetAt(pc, r)) /\ pc # "identify"
    BY <2>1 DEF IsReset
  <2> HIDE DEF r
  <2>3. CASE pc = "next device"
    <3>1. ResetAt("next device", r) <=> r <= 7
      BY ResetTable
    <3>2. r <= 7
      BY <2>2
    <3> QED BY <2>2, <2>3, <3>1, <3>2, Zenon
  <2>5. CASE pc # "next device"
    BY <2>1, <2>2, <2>5, ResetTable
  <2> QED BY <2>3, <2>5
<1>3. CASE ~(ResetTap \/ NextDevice \/ StartBit \/ ManufacturerCode \/ RestOfIdCode
             \/ Enumerated \/ ConfigureChain)
  <2>1. pc' \in {"idcode", "serving", "exit", "command", "ack", "error", "data", "finish",
                 "started"}
    BY <1>3 DEF Silent, JtagGetIdCode, SanityCheck, PollAck, IsStalled, ErrorBit, ReadSpr,
       SprRead, Return, Call, Fail, Start, Send, finish_and_leave_a_dbg_nop_cmd_in_place
  <2> QED BY <2>1, ResetTable DEF IsReset
<1> QED BY <1>1, <1>2, <1>3

(* so none ends what holds in it.                                          *)
LEMMA InstructionsSilent ==
    ASSUME Sound, InstructionsReset, Silent, Sound'
    PROVE  InstructionsReset'
BY SilentIsSilent, ResetStays DEF InstructionsReset

-----------------------------------------------------------------------------
(* What is on the tape.                                                    *)
LEMMA TapeIs ==
    ASSUME NEW s \in Setups, NEW i \in 1 .. Len(s.chain), NEW k \in 1 .. Len(Held(s, i)), NEW b
    PROVE  OnTape(s, Offset(s)[i] + k, b) <=> b = Held(s, i)[k]
<1> DEFINE n == Len(s.chain)
           f == Offset(s)
           h(j) == Len(Held(s, j))
<1>1. /\ f \in [1 .. n + 1 -> Nat] /\ n \in Nat \ {0}
      /\ \A p \in 1 .. n : \A j \in 1 .. n + 1 : p < j => f[p] + h(p) <= f[j]
  BY OffsetsRise, OffsetsExist
<1>2. \A j \in 1 .. n : h(j) \in Nat
  BY HeldIs
<1>3. i \in 1 .. n /\ k \in 1 .. h(i)
  OBVIOUS
<1> HIDE DEF n, f, h
<1>4. f[i] + k <= f[n + 1] /\ f[i] + k \in Nat /\ f[n + 1] \in Nat
  <2>1. i < n + 1 /\ n + 1 \in 1 .. n + 1 /\ i \in 1 .. n + 1
    BY <1>1, <1>3
  <2>2. f[i] + h(i) <= f[n + 1] /\ f[i] \in Nat /\ f[n + 1] \in Nat
    BY <1>1, <1>3, <2>1
  <2> QED BY <1>2, <1>3, <2>2
<1>5. ASSUME NEW j \in 1 .. n, NEW q \in 1 .. h(j), f[i] + k = f[j] + q PROVE j = i /\ q = k
  <2>1. f[i] \in Nat /\ f[j] \in Nat /\ i \in 1 .. n + 1 /\ j \in 1 .. n + 1
    BY <1>1, <1>3
  <2>2. i < j => f[i] + h(i) <= f[j]
    BY <1>1, <1>3, <2>1
  <2>3. j < i => f[j] + h(j) <= f[i]
    BY <1>1, <1>3, <2>1
  <2>4. h(i) \in Nat /\ h(j) \in Nat /\ k <= h(i) /\ q <= h(j) /\ k > 0 /\ q > 0 /\ k \in Nat
        /\ q \in Nat
    BY <1>2, <1>3
  <2>5. ~(i < j) /\ ~(j < i)
    BY <1>5, <2>1, <2>2, <2>3, <2>4, SMTT(30)
  <2>6. i = j
    BY <1>1, <1>3, <2>5
  <2> QED BY <1>5, <2>1, <2>4, <2>6
<1>6. ASSUME b = Held(s, i)[k] PROVE OnTape(s, f[i] + k, b)
  <2>1. ASSUME NEW j \in 1 .. n, NEW q \in 1 .. h(j), f[i] + k = f[j] + q PROVE b = Held(s, j)[q]
    BY <1>5, <1>6, <2>1
  <2>2. ~(f[i] + k > f[n + 1])
    BY <1>4
  <2> QED BY <2>1, <2>2 DEF OnTape, n, h, f
<1>7. ASSUME OnTape(s, f[i] + k, b) PROVE b = Held(s, i)[k]
  BY <1>3, <1>7 DEF OnTape, n, h, f
<1> QED BY <1>6, <1>7 DEF f

(* Behind the devices comes the marker.                                    *)
LEMMA TapeEnds ==
    ASSUME NEW s \in Setups, NEW k \in Nat \ {0}, NEW b
    PROVE  OnTape(s, Offset(s)[Len(s.chain) + 1] + k, b) <=> b = Marker(k)
<1> DEFINE n == Len(s.chain)
           f == Offset(s)
           h(j) == Len(Held(s, j))
           t == f[n + 1] + k
<1>1. /\ f \in [1 .. n + 1 -> Nat] /\ n \in Nat \ {0}
      /\ \A p \in 1 .. n : \A j \in 1 .. n + 1 : p < j => f[p] + h(p) <= f[j]
  BY OffsetsRise, OffsetsExist
<1>2. \A j \in 1 .. n : h(j) \in Nat
  BY HeldIs
<1> HIDE DEF n, f, h
<1>3. f[n + 1] \in Nat /\ t > f[n + 1] /\ t - f[n + 1] = k
  <2>1. f[n + 1] \in Nat
    BY <1>1
  <2> QED BY <2>1
<1>4. ASSUME NEW j \in 1 .. n, NEW q \in 1 .. h(j) PROVE t # f[j] + q
  <2>1. f[j] + h(j) <= f[n + 1] /\ f[j] \in Nat
    <3>1. j < n + 1 /\ n + 1 \in 1 .. n + 1 /\ j \in 1 .. n + 1
      BY <1>1
    <3> QED BY <1>1, <3>1
  <2>2. h(j) \in Nat /\ q \in Nat /\ q <= h(j)
    BY <1>2
  <2> QED BY <1>3, <2>1, <2>2
<1> HIDE DEF t
<1>5. OnTape(s, t, b) <=>
        /\ \A j \in 1 .. n : \A q \in 1 .. h(j) : t = f[j] + q => b = Held(s, j)[q]
        /\ t > f[n + 1] => b = Marker(t - f[n + 1])
  BY DEF OnTape, n, h, f
<1>6. OnTape(s, t, b) <=> b = Marker(k)
  BY <1>3, <1>4, <1>5
<1> QED BY <1>6 DEF t, f, n

(* Just captured.                                                          *)
LEMMA CapturedTape ==
    ASSUME NEW s \in Setups, NEW ds, \A i \in 1 .. Len(s.chain) : ds[i].dr = Held(s, i)
    PROVE  Registers(s, 0, ds)
<1>1. ASSUME NEW i \in 1 .. Len(s.chain), NEW k \in 1 .. Len(Held(s, i))
      PROVE  OnTape(s, 0 + Offset(s)[i] + k, ds[i].dr[k])
  <2>1. OnTape(s, Offset(s)[i] + k, Held(s, i)[k])
    BY TapeIs
  <2>5. ds[i].dr = Held(s, i)
    OBVIOUS
  <2>2. ds[i].dr[k] = Held(s, i)[k]
    BY <2>5
  <2>3. Offset(s)[i] \in Nat
    <3>1. Offset(s) \in [1 .. Len(s.chain) + 1 -> Nat]
      BY OffsetsRise
    <3>2. i \in 1 .. Len(s.chain) + 1
      BY OffsetsExist
    <3> QED BY <3>1, <3>2
  <2>4. 0 + Offset(s)[i] + k = Offset(s)[i] + k
    BY <2>3
  <2> QED BY <2>1, <2>2, <2>4
<1> QED BY <1>1 DEF Registers

(* Shifted by one bit, x[i] into the register of device i.                 *)
ShiftedBy(s, n, ds, es, x) ==
    \A i \in 1 .. Len(s.chain) :
        /\ ds[i].dr \in DataRegister /\ x[i] \in Bits
        /\ es[i].dr = Append(Tail(ds[i].dr), x[i])
        /\ x[i] = IF i = Len(s.chain) THEN Marker(n + 1) ELSE ds[i + 1].dr[1]

(* A clock moves the registers along the tape.                             *)
LEMMA ShiftedTape ==
    ASSUME NEW s \in Setups, NEW n \in Nat, NEW ds, NEW es, NEW x, Registers(s, n, ds),
           ShiftedBy(s, n, ds, es, x)
    PROVE  Registers(s, n + 1, es) /\ OnTape(s, n + 1, ds[1].dr[1])
<1> DEFINE N == Len(s.chain)
           f == Offset(s)
           h(j) == Len(Held(s, j))
<1>1. /\ f \in [1 .. N + 1 -> Nat] /\ N \in Nat \ {0} /\ f[1] = 0
      /\ \A i \in 1 .. N : f[i + 1] = f[i] + h(i)
  BY OffsetsRise, OffsetsExist
<1>2. \A i \in 1 .. N : h(i) \in Nat \ {0}
  BY HeldIs
<1>3. \A i \in 1 .. N : Len(ds[i].dr) = h(i)
        /\ \A k \in 1 .. h(i) : OnTape(s, n + f[i] + k, ds[i].dr[k])
  BY DEF Registers
<1>4. \A i \in 1 .. N : x[i] = IF i = N THEN Marker(n + 1) ELSE ds[i + 1].dr[1]
  BY DEF ShiftedBy
<1>7. \A i \in 1 .. N : ds[i].dr \in DataRegister /\ x[i] \in Bits
                         /\ es[i].dr = Append(Tail(ds[i].dr), x[i])
  BY DEF ShiftedBy
<1> HIDE DEF N, f, h
<1>5. ASSUME NEW i \in 1 .. N
      PROVE  Len(es[i].dr) = h(i) /\ \A k \in 1 .. h(i) : OnTape(s, (n + 1) + f[i] + k, es[i].dr[k])
  <2> DEFINE d == ds[i].dr
             e == es[i].dr
             L == h(i)
             y == x[i]
  <2>1. L \in Nat \ {0} /\ f[i] \in Nat /\ f[i + 1] = f[i] + L
    BY <1>1, <1>2
  <2>2. d \in [1 .. L -> Bits] /\ y \in Bits /\ e = Append(Tail(d), y)
    <3>1. Len(d) = L /\ d \in DataRegister
      BY <1>3, <1>7
    <3> HIDE DEF d
    <3>3. d \in Seq(Bits)
      <4>1. 1 \in Nat \ {0} /\ IdBits \in Nat \ {0}
        BY Sizes
      <4>2. d \in [1 .. 1 -> Bits] \/ d \in [1 .. IdBits -> Bits]
        BY <3>1 DEF DataRegister, BitString
      <4>5. \A m \in Nat \ {0} : d \in [1 .. m -> Bits] => d \in Seq(Bits)
        OBVIOUS
      <4>3. CASE d \in [1 .. 1 -> Bits]
        BY ONLY <4>1, <4>3, <4>5
      <4>4. CASE d \in [1 .. IdBits -> Bits]
        BY ONLY <4>1, <4>4
      <4> QED BY <4>2, <4>3, <4>4
    <3>2. d \in [1 .. Len(d) -> Bits]
      BY <3>3, SeqOfLength
    <3>4. y \in Bits /\ e = Append(Tail(d), y)
      BY <1>7 DEF d
    <3> QED BY <3>1, <3>2, <3>4
  <2>6. y = IF i = N THEN Marker(n + 1) ELSE ds[i + 1].dr[1]
    BY <1>4
  <2> HIDE DEF d, e, L, y
  <2>3. e \in [1 .. L -> Bits]
    BY <2>1, <2>2, ShiftIn
  <2>4. Len(e) = L
    BY <2>1, <2>3
  <2>5. ASSUME NEW k \in 1 .. L PROVE OnTape(s, (n + 1) + f[i] + k, e[k])
    <3>5. Append(Tail(d), y)[k] = IF k < L THEN d[k + 1] ELSE y
      BY <2>1, <2>2, ShiftedAt
    <3>1. e[k] = IF k < L THEN d[k + 1] ELSE y
      BY <2>2, <3>5
    <3>2. CASE k < L
      <4>1. k + 1 \in 1 .. L /\ n + f[i] + (k + 1) = (n + 1) + f[i] + k
        <5>1. n \in Nat /\ f[i] \in Nat /\ k \in 1 .. L /\ k < L /\ L \in Nat
          BY <2>1, <3>2
        <5> QED BY ONLY <5>1
      <4>2. OnTape(s, n + f[i] + (k + 1), d[k + 1])
        BY <1>3, <4>1 DEF d, L
      <4> QED BY <3>1, <3>2, <4>1, <4>2
    <3>3. CASE k = L /\ i = N
      <4>1. n + 1 \in Nat \ {0} /\ (n + 1) + f[i] + k = f[N + 1] + (n + 1)
        BY <2>1, <3>3
      <4>2. OnTape(s, f[N + 1] + (n + 1), Marker(n + 1))
        BY <4>1, TapeEnds DEF f, N
      <4>3. e[k] = Marker(n + 1)
        BY <2>1, <2>6, <3>1, <3>3
      <4> QED BY <4>1, <4>2, <4>3
    <3>4. CASE k = L /\ i # N
      <4>1. i + 1 \in 1 .. N /\ 1 \in 1 .. h(i + 1)
        BY <1>1, <1>2, <3>4
      <4>2. OnTape(s, n + f[i + 1] + 1, ds[i + 1].dr[1])
        BY <1>3, <4>1
      <4>3. n + f[i + 1] + 1 = (n + 1) + f[i] + k
        BY <2>1, <3>4
      <4>4. e[k] = ds[i + 1].dr[1]
        BY <2>1, <2>6, <3>1, <3>4
      <4> QED BY <4>2, <4>3, <4>4
    <3> QED BY <2>1, <3>2, <3>3, <3>4
  <2> QED BY <2>4, <2>5 DEF e, L
<1>6. OnTape(s, n + 1, ds[1].dr[1])
  <2>1. 1 \in 1 .. N /\ 1 \in 1 .. h(1)
    BY <1>1, <1>2
  <2>2. OnTape(s, n + f[1] + 1, ds[1].dr[1])
    BY <1>3, <2>1
  <2>3. n + f[1] + 1 = n + 1
    BY <1>1
  <2> QED BY <2>2, <2>3
<1> QED BY <1>5, <1>6 DEF Registers, N, f, h

-----------------------------------------------------------------------------
(* The enumeration, clock by clock.                                        *)

(* The instructions of the reset do not select the debug submodule.        *)
LEMMA FirstIsNotDebug ==
    ASSUME NEW s, NEW i, NEW d, HasFirst(s, i, d)
    PROVE  /\ ~Debugging(d)
           /\ Id(s, i) = <<>> => d.instruction # Opcode.IDCODE
           /\ Id(s, i) # <<>> => d.instruction = Opcode.IDCODE
<1>1. Opcode.IDCODE # Opcode.DEBUG /\ Opcode.BYPASS # Opcode.DEBUG /\ Opcode.BYPASS # Opcode.IDCODE
  BY Words
<1> QED BY <1>1 DEF HasFirst, Debugging

(* What a clock of the enumeration does to a TAP.                          *)
LEMMA ShiftsOn ==
    ASSUME Sound, Clock, tap = "shift_dr", ~Resets, NEW i \in 1 .. Len(setup.chain),
           ~Debugging(devs[i]),
           i # Len(setup.chain) => ~Debugging(devs[i + 1])
    PROVE  /\ devs[i].dr \in DataRegister /\ TdiAt(i) \in Bits
           /\ devs'[i].dr = Append(Tail(devs[i].dr), TdiAt(i))
           /\ TdiAt(i) = IF i = Len(setup.chain) THEN Head(todo).tdi ELSE devs[i + 1].dr[1]
<1> DEFINE N == Len(setup.chain)
<1>1. N \in Nat \ {0} /\ Len(devs) = N /\ TdiAt(i) \in Bits
  BY TdiIsBit DEF Sound
<1>2. Typed(tap, devs[i]) /\ dbg \in Submodule
  BY DEF Sound, Types
<1>3. devs[i].dr \in DataRegister
  BY <1>2 DEF Typed, ShiftsDr
<1>4. IdCode[setup.chain[i]] = <<>> \/ IdCode[setup.chain[i]] \in BitString(IdBits)
  BY Chain DEF Sound, Scripted, Base, Id
<1>5. devs'[i] = tck_posedge(setup.chain[i], devs[i], TdiAt(i))
  BY DeviceClock DEF Sound
<1>6. devs'[i].dr = Append(Tail(devs[i].dr), TdiAt(i))
  BY <1>1, <1>2, <1>4, <1>5, PosEdge
<1>7. TdiAt(i) = IF i = N THEN Head(todo).tdi ELSE devs[i + 1].dr[1]
  <2>1. CASE i = N
    BY <1>1, <2>1 DEF TdiAt
  <2>2. CASE i # N
    <3>1. i + 1 \in 1 .. N
      BY <1>1, <2>2
    <3>2. Typed(tap, devs[i + 1]) /\ ~Debugging(devs[i + 1])
      BY <2>2, <3>1 DEF Sound, Types
    <3>3. Tdo(devs[i + 1]) = devs[i + 1].dr[1]
      BY <1>2, <3>2, TdoIsBit
    <3>4. TdiAt(i) = Tdo(devs[i + 1])
      BY <1>1, <2>2 DEF TdiAt
    <3> QED BY <2>2, <3>3, <3>4
  <2> QED BY <2>1, <2>2
<1> QED BY <1>1, <1>3, <1>6, <1>7

(* Each device takes the bit of the next one, the last the program's.      *)
LEMMA ShiftDevices ==
    ASSUME Sound, InstructionsReset, Clock, pc \in Enumerating
    PROVE  /\ tap = "shift_dr" /\ ~Resets
           /\ \A i \in 1 .. Len(setup.chain) :
                /\ ~Debugging(devs[i]) /\ devs[i].dr \in DataRegister /\ TdiAt(i) \in Bits
                /\ devs'[i].dr = Append(Tail(devs[i].dr), TdiAt(i))
                /\ TdiAt(i) = IF i = Len(setup.chain) THEN Head(todo).tdi
                              ELSE devs[i + 1].dr[1]
<1>1. pc \in {"start bit", "manufacturer", "rest"}
  BY DEF Enumerating
<1>2. tap = "shift_dr"
  BY <1>1, WhereIs DEF Sound
<1>3. ~Resets
  <2>1. Head(todo).trst <=> pc = "next device" /\ Len(todo) = 5
    BY ClockFacts DEF Sound, Scripted
  <2> QED BY <1>1, <2>1 DEF Resets
<1>4. IsReset
  BY <1>1, ResetTable DEF IsReset
<1>5. \A i \in 1 .. Len(setup.chain) : ~Debugging(devs[i])
  BY <1>4, FirstIsNotDebug DEF InstructionsReset
<1>6. Len(setup.chain) \in Nat
  BY TdiIsBit DEF Sound
<1>7. ASSUME NEW i \in 1 .. Len(setup.chain)
      PROVE  /\ ~Debugging(devs[i]) /\ devs[i].dr \in DataRegister /\ TdiAt(i) \in Bits
             /\ devs'[i].dr = Append(Tail(devs[i].dr), TdiAt(i))
             /\ TdiAt(i) = IF i = Len(setup.chain) THEN Head(todo).tdi ELSE devs[i + 1].dr[1]
  <2>1. ~Debugging(devs[i])
    BY <1>5
  <2>2. i # Len(setup.chain) => ~Debugging(devs[i + 1])
    BY <1>5, <1>6
  <2> QED BY <1>2, <1>3, <2>1, <2>2, ShiftsOn
<1> QED BY <1>2, <1>3, <1>7

(* The clock that captures, before the first device.                       *)
LEMMA CaptureDevices ==
    ASSUME Sound, InstructionsReset, Clock, pc = "next device", todo' = <<>>
    PROVE  \A i \in 1 .. Len(setup.chain) : devs'[i].dr = Held(setup, i)
<1> DEFINE r == Len(todo)
<1>0. r = 1
  <2>1. Len(todo') = r - 1 /\ r \in Nat
    BY ClockFacts DEF Sound, Scripted
  <2>2. Len(todo') = 0
    OBVIOUS
  <2> HIDE DEF r
  <2> QED BY ONLY <2>1, <2>2
<1>11. /\ pc = "next device" => tap \in WhereReset(r)
       /\ Head(todo).trst <=> pc = "next device" /\ r = 5
       /\ IsReset <=> ResetAt(pc, r)
  BY WhereIs, ClockFacts DEF Sound, Scripted, IsReset
<1> HIDE DEF r
<1>12. r <= 7 /\ r # 5
  BY ONLY <1>0
<1>1. tap \in WhereReset(1)
  BY <1>0, <1>11
<1>2. tap = "capture_dr"
  BY ONLY <1>1 DEF WhereReset
<1>3. ~Resets
  BY <1>11, <1>12 DEF Resets
<1>4. IsReset
  <2>1. ResetAt("next device", r)
    BY ONLY <1>12, ResetTable
  <2> QED BY <1>11, <2>1
<1> TAKE i \in 1 .. Len(setup.chain)
<1>5. HasFirst(setup, i, devs[i])
  BY <1>4 DEF InstructionsReset
<1>6. Typed(tap, devs[i]) /\ ~Debugging(devs[i]) /\ TdiAt(i) \in Bits
  BY <1>5, FirstIsNotDebug, TdiIsBit DEF Sound, Types
<1>7. IdCode[setup.chain[i]] = <<>> \/ IdCode[setup.chain[i]] \in BitString(IdBits)
  BY Chain DEF Sound, Scripted, Base, Id
<1>8. devs'[i] = tck_posedge(setup.chain[i], devs[i], TdiAt(i))
  BY <1>3, DeviceClock DEF Sound
<1>9. devs'[i].dr = do_capture_dr(setup.chain[i], devs[i])
  <2> DEFINE e == tck_posedge(setup.chain[i], devs[i], TdiAt(i))
  <2>1. tap = "capture_dr" /\ ~Debugging(devs[i]) => e.dr = do_capture_dr(setup.chain[i], devs[i])
    BY ONLY <1>6, <1>7, PosEdge DEF e
  <2> QED BY <1>2, <1>6, <1>8, <2>1
<1>10. do_capture_dr(setup.chain[i], devs[i]) = Held(setup, i)
  BY <1>5, FirstIsNotDebug DEF do_capture_dr, Held, Id
<1> QED BY <1>9, <1>10

(* One packet less to send, one bit more read.                             *)
LEMMA MarkerTail ==
    ASSUME NEW n \in Nat, NEW q \in Seq(Packet), q # <<>>, NEW k, MarkerAhead(n, q, k)
    PROVE  Head(q).tdi = Marker(n + 1) /\ MarkerAhead(n + 1, Tail(q), k)
<1> DEFINE m == Len(q)
           t == Tail(q)
<1>1. m \in Nat \ {0} /\ Len(t) = m - 1 /\ Head(q) = q[1]
      /\ \A i \in 1 .. m - 1 : t[i] = q[i + 1]
  OBVIOUS
<1>2. /\ \A i \in 1 .. m : q[i].tdi = Marker(n + i)
      /\ k = MarkerSoFar(n + m)
  BY DEF MarkerAhead
<1> HIDE DEF m, t
<1>3. ASSUME NEW i \in 1 .. m - 1 PROVE t[i].tdi = Marker((n + 1) + i)
  <2>1. i + 1 \in 1 .. m /\ n + (i + 1) = (n + 1) + i
    BY <1>1
  <2>2. q[i + 1].tdi = Marker(n + (i + 1))
    BY <1>2, <2>1
  <2> QED BY <1>1, <2>1, <2>2
<1>4. (n + 1) + (m - 1) = n + m /\ 1 \in 1 .. m
  BY <1>1
<1> QED BY <1>1, <1>2, <1>3, <1>4 DEF MarkerAhead, t

(* One bit more has been read.                                             *)
LEMMA BitsOneMore ==
    ASSUME NEW s, NEW n \in Nat, NEW bits \in Seq(Bits), NEW b \in Bits, BitsRead(s, n, bits),
           OnTape(s, n + Len(bits) + 1, b)
    PROVE  BitsRead(s, n, Append(bits, b))
<1> DEFINE m == Len(bits)
           c == Append(bits, b)
<1>1. m \in Nat /\ Len(c) = m + 1 /\ c[m + 1] = b /\ \A j \in 1 .. m : c[j] = bits[j]
  OBVIOUS
<1>2. \A j \in 1 .. m : OnTape(s, n + j, bits[j])
  BY DEF BitsRead
<1>3. OnTape(s, n + m + 1, b)
  OBVIOUS
<1> HIDE DEF m, c
<1>4. ASSUME NEW j \in 1 .. m + 1 PROVE OnTape(s, n + j, c[j])
  <2>1. CASE j = m + 1
    <3>1. n + j = n + m + 1
      BY <1>1, <2>1
    <3> QED BY <1>1, <1>3, <2>1, <3>1
  <2>2. CASE j # m + 1
    <3>1. j \in 1 .. m
      BY <1>1, <2>2
    <3> QED BY <1>1, <1>2, <3>1
  <2> QED BY <2>1, <2>2
<1> QED BY <1>1, <1>4 DEF BitsRead, c

(* How far the search has got.                                             *)
LEMMA PassedIs ==
    ASSUME setup \in Setups, NEW d \in Nat, d <= Len(setup.chain)
    PROVE  Offset(setup)[d + 1] \in Nat
<1> DEFINE n == Len(setup.chain)
<1>1. n \in Nat /\ Offset(setup) \in [1 .. n + 1 -> Nat]
  BY OffsetsExist, OffsetsRise
<1> HIDE DEF n
<1>2. d + 1 \in 1 .. n + 1
  BY <1>1 DEF n
<1> QED BY <1>1, <1>2

(* Places on the tape are numbers.                                         *)
LEMMA FromIs ==
    ASSUME Sound, Found
    PROVE  Len(discovered) \in Nat /\ Passed \in Nat /\ From \in Nat
<1>1. Len(discovered) \in Nat /\ ManufBits \in Nat
  <2>1. discovered \in Seq({<<>>} \cup BitString(IdBits))
    BY DEF Sound, Types
  <2> QED BY <2>1, Sizes
<1>2. Passed \in Nat
  BY <1>1, PassedIs DEF Sound, Scripted, Base, Found, Passed
<1>3. From \in {Passed, Passed + 1, Passed + 1 + ManufBits}
  BY DEF From
<1>4. Passed + 1 \in Nat /\ Passed + 1 + ManufBits \in Nat
  BY <1>1, <1>2
<1> QED BY <1>1, <1>2, <1>3, <1>4

(* A clock of the search keeps to the tape.                                *)
LEMMA TapeShifts ==
    ASSUME Sound, InstructionsReset, TapeGood, Clock, pc \in Enumerating, setup.tdo = "ok"
    PROVE  TapeGood'
<1>1. /\ UNCHANGED <<setup, pc, kept, sent, discovered>> /\ todo # <<>> /\ todo' = Tail(todo)
  BY ClockFacts DEF Sound, Scripted
<1>2. Found /\ Found' /\ From' = From /\ Passed' = Passed
  BY <1>1 DEF TapeGood, Found, From, Passed
<1>3. Reading /\ CableTdo \in Bits /\ CableTdo = devs[1].dr[1] /\ got' = Append(got, CableTdo)
  <2>1. Reading
    BY DEF Reading, Enumerating
  <2>2. CableTdo \in Bits /\ CableTdo = Tdo(devs[1]) /\ Typed(tap, devs[1])
    BY <2>1, CableBit DEF Sound
  <2>3. tap = "shift_dr" /\ ~Debugging(devs[1])
    <3>1. 1 \in 1 .. Len(setup.chain)
      BY TdiIsBit DEF Sound
    <3> QED BY <3>1, ShiftDevices
  <2>4. Tdo(devs[1]) = devs[1].dr[1]
    BY <2>2, <2>3, TdoIsBit DEF Sound, Types
  <2> QED BY <2>1, <2>2, <2>4, ClockParts
<1>4. got \in Seq(Bits) /\ From \in Nat /\ todo \in Seq(Packet)
  BY <1>2, FromIs DEF Sound, Types, Scripted, OnScript, FollowsScript
<1>5. Len(got) \in Nat /\ Len(got') = Len(got) + 1
  BY <1>3, <1>4
<1> DEFINE n == Shifted
<1>6. n \in Nat /\ Shifted' = n + 1 /\ n = From + Len(got)
  <2>1. Shifted = From + Len(got) /\ Shifted' = From' + Len(got')
    BY DEF Shifted
  <2> QED BY <1>2, <1>4, <1>5, <2>1
<1>7. Registers(setup, n, devs) /\ MarkerAhead(n, todo, sent) /\ BitsRead(setup, From, got)
  BY DEF TapeGood
<1> HIDE DEF n
<1>8. Head(todo).tdi = Marker(n + 1) /\ MarkerAhead(n + 1, Tail(todo), sent)
  BY <1>1, <1>4, <1>6, <1>7, MarkerTail
<1>9. Registers(setup, n + 1, devs') /\ OnTape(setup, n + 1, devs[1].dr[1])
  <2> DEFINE x == [i \in 1 .. Len(setup.chain) |-> TdiAt(i)]
  <2>1. \A i \in 1 .. Len(setup.chain) :
          /\ devs[i].dr \in DataRegister /\ x[i] \in Bits
          /\ devs'[i].dr = Append(Tail(devs[i].dr), x[i])
          /\ x[i] = IF i = Len(setup.chain) THEN Marker(n + 1) ELSE devs[i + 1].dr[1]
    BY <1>8, ShiftDevices
  <2>2. setup \in Setups
    BY DEF Sound, Scripted, Base
  <2> HIDE DEF x
  <2>3. ShiftedBy(setup, n, devs, devs', x)
    BY <2>1 DEF ShiftedBy
  <2> QED BY ONLY <1>6, <1>7, <2>2, <2>3, ShiftedTape
<1>10. BitsRead(setup, From, got')
  <2>1. From + Len(got) + 1 = n + 1
    BY <1>4, <1>5, <1>6
  <2>2. OnTape(setup, From + Len(got) + 1, CableTdo)
    BY <1>3, <1>9, <2>1
  <2>3. BitsRead(setup, From, Append(got, CableTdo))
    BY <1>3, <1>4, <1>7, <2>2, BitsOneMore
  <2> QED BY <1>3, <2>3
<1>11. Registers(setup', Shifted', devs') /\ MarkerAhead(Shifted', todo', sent')
       /\ BitsRead(setup', From', got')
  BY <1>1, <1>2, <1>6, <1>8, <1>9, <1>10
<1>12. /\ pc' \in {"manufacturer", "rest"} => OnTape(setup', Passed' + 1, 1)
       /\ pc' = "rest" => BitsRead(setup', Passed' + 1, kept') /\ kept' # DoneCode
  BY <1>1, <1>2 DEF TapeGood
<1> QED BY <1>2, <1>11, <1>12 DEF TapeGood

(* The marker has a bit at least.                                          *)
LEMMA MarkerSize ==
    MarkerBits \in Nat /\ MarkerBits # 0 /\ MarkerSoFar(0) = 0
<1>1. MarkerBits \in 1 .. ManufBits /\ ManufBits \in Nat
  BY Sizes
<1>2. MarkerBits \in Nat /\ MarkerBits # 0
  BY <1>1
<1> QED BY <1>2 DEF MarkerSoFar

(* Nothing to come, nothing read.                                          *)
LEMMA EmptyFacts ==
    /\ Len(<<>>) = 0 /\ \A s, n : BitsRead(s, n, <<>>)
    /\ \A n \in Nat : n + Len(<<>>) = n
    /\ \A n, k : k = MarkerSoFar(n + Len(<<>>)) => MarkerAhead(n, <<>>, k)
BY DEF BitsRead, MarkerAhead

(* Once the registers are captured, the search may begin.                  *)
LEMMA TapeBegins ==
    ASSUME Sound, InstructionsReset, Clock, pc = "next device", todo' = <<>>,
           discovered = <<>>, sent = 0, got = <<>>
    PROVE  TapeGood'
<1>1. UNCHANGED <<setup, pc, sent, discovered>>
  BY ClockFacts DEF Sound, Scripted
<1>2. got' = <<>>
  BY ClockParts DEF Reading
<1>3. setup \in Setups
  BY DEF Sound, Scripted, Base
<1>5. Found' /\ Passed' = 0
  <2> DEFINE d == Len(discovered')
             N == Len(setup.chain)
  <2>1. d = 0 /\ N \in Nat
    BY <1>1, <1>3, OffsetsExist
  <2>2. Found' <=> d <= N /\ \A j \in 1 .. d : discovered'[j] = Id(setup, j)
    BY <1>1 DEF Found
  <2>3. Passed' = Offset(setup)[d + 1]
    BY <1>1 DEF Passed
  <2> HIDE DEF d, N
  <2>4. Offset(setup)[1] = 0
    BY <1>3, OffsetsRise
  <2>5. d + 1 = 1 /\ d <= N /\ \A j \in 1 .. d : FALSE
    BY ONLY <2>1
  <2> QED BY <2>2, <2>3, <2>4, <2>5
<1>7. From' = 0 /\ Shifted' = 0
  <2>1. From' = 0
    BY <1>1, <1>5 DEF From
  <2>2. Shifted' = From' + Len(got')
    BY DEF Shifted
  <2>3. 0 + Len(<<>>) = 0
    BY EmptyFacts
  <2> QED BY <1>2, <2>1, <2>2, <2>3, Zenon
<1>8. Registers(setup, 0, devs')
  BY <1>3, CaptureDevices, CapturedTape
<1>9. MarkerAhead(0, todo', 0)
  <2>1. MarkerSoFar(0 + Len(<<>>)) = 0
    BY EmptyFacts, MarkerSize, Zenon
  <2> QED BY <2>1, EmptyFacts, Zenon
<1>10. BitsRead(setup, 0, got')
  BY <1>2, EmptyFacts, Zenon
<1> QED BY <1>1, <1>5, <1>7, <1>8, <1>9, <1>10 DEF TapeGood

(* A clock keeps what is known of the tape.                                *)
LEMMA TapeClock ==
    ASSUME Sound, InstructionsReset, TapeInv, Clock
    PROVE  TapeInv'
<1>1. UNCHANGED <<setup, pc, sent, discovered>> /\ todo # <<>>
      /\ pc \notin {"started", "enumerated"}
  BY ClockFacts DEF Sound, Scripted
<1>2. pc = "next device" => got = <<>> /\ got' = <<>> /\ discovered = <<>> /\ sent = 0
  BY <1>1, ClockParts DEF TapeInv, Reading
<1>3. ASSUME setup.tdo = "ok", Searching' PROVE TapeGood'
  <2>1. CASE pc \in Enumerating
    <3>1. TapeGood
      BY <1>3, <2>1 DEF TapeInv, Searching
    <3> QED BY <1>3, <2>1, <3>1, TapeShifts
  <2>2. CASE pc = "next device" /\ todo' = <<>>
    BY <1>2, <2>2, TapeBegins
  <2> QED BY <1>1, <1>3, <2>1, <2>2 DEF Searching
<1> QED BY <1>1, <1>2, <1>3 DEF TapeInv

(* What the program sends next follows what it has sent.                   *)
LEMMA MarkerAgain ==
    ASSUME NEW n \in Nat, NEW k \in Nat, k = MarkerSoFar(n), NEW m \in Nat,
           NEW at \in Enumerating, NEW l \in Nat, NEW c \in AnyCall, m = Clocks(at, l, Size(c))
    PROVE  MarkerAhead(n, MarkerStream(m, k),
                       IF k + m > MarkerBits THEN MarkerBits ELSE k + m)
<1>1. MarkerBits \in Nat
  BY Sizes
<1>2. Len(MarkerStream(m, k)) = m /\ \A i \in 1 .. m : MarkerStream(m, k)[i].tdi = Marker(k + i)
  BY MarkerSent
<1>3. ASSUME NEW i \in 1 .. m PROVE Marker(k + i) = Marker(n + i)
  BY <1>1 DEF Marker, MarkerSoFar
<1>4. (IF k + m > MarkerBits THEN MarkerBits ELSE k + m) = MarkerSoFar(n + m)
  BY <1>1 DEF MarkerSoFar
<1> QED BY <1>2, <1>3, <1>4 DEF MarkerAhead

(* What the search finds on the tape, where a device begins or the marker. *)
LEMMA BeginsHere ==
    ASSUME setup \in Setups, NEW d \in Nat, d <= Len(setup.chain), NEW b,
           OnTape(setup, Offset(setup)[d + 1] + 1, b)
    PROVE  /\ b = 0 => /\ d < Len(setup.chain) /\ Id(setup, d + 1) = <<>>
                       /\ Offset(setup)[d + 1 + 1] = Offset(setup)[d + 1] + 1
           /\ b = 1 /\ d < Len(setup.chain) =>
                /\ Id(setup, d + 1) \in BitString(IdBits) /\ Id(setup, d + 1)[1] = 1
                /\ Held(setup, d + 1) = Id(setup, d + 1) /\ Len(Held(setup, d + 1)) = IdBits
                /\ SubSeq(Id(setup, d + 1), 2, 1 + ManufBits) # DoneCode
                /\ Offset(setup)[d + 1 + 1] = Offset(setup)[d + 1] + IdBits
<1> DEFINE N == Len(setup.chain)
           e == d + 1
<1>1. N \in Nat \ {0}
  BY OffsetsExist
<1>2. CASE d = N
  <2>1. OnTape(setup, Offset(setup)[N + 1] + 1, b)
    BY <1>2
  <2>2. 1 \in Nat \ {0}
    OBVIOUS
  <2>3. b = Marker(1)
    BY <2>1, <2>2, TapeEnds
  <2>4. Marker(1) = 1
    BY Sizes DEF Marker
  <2> HIDE DEF N
  <2>5. ~(d < N)
    BY <1>1, <1>2
  <2> QED BY <2>3, <2>4, <2>5 DEF N
<1>3. CASE d < N
  <2>1. e \in 1 .. N
    BY <1>1, <1>3
  <2>2. Len(Held(setup, e)) \in Nat \ {0} /\ 1 \in 1 .. Len(Held(setup, e))
    BY <2>1, HeldIs
  <2>3. b = Held(setup, e)[1]
    BY <2>1, <2>2, TapeIs
  <2>4. Offset(setup)[e + 1] = Offset(setup)[e] + Len(Held(setup, e))
    BY <2>1, OffsetsRise
  <2>5. Id(setup, e) # <<>> => SubSeq(Id(setup, e), 2, 1 + ManufBits) # DoneCode
    BY <2>1, Chain
  <2> HIDE DEF e, N
  <2>6. CASE Id(setup, e) = <<>>
    <3>1. Held(setup, e)[1] = 0 /\ Len(Held(setup, e)) = 1
      BY <2>1, <2>6, HeldIs DEF N
    <3>2. Offset(setup)[e + 1] = Offset(setup)[e] + 1 /\ b # 1
      BY <2>3, <2>4, <3>1
    <3> QED BY <1>3, <2>6, <3>2 DEF e, N
  <2>7. CASE Id(setup, e) # <<>>
    <3>1. /\ Held(setup, e) = Id(setup, e) /\ Len(Held(setup, e)) = IdBits
          /\ Id(setup, e) \in BitString(IdBits) /\ Held(setup, e)[1] = 1
      BY <2>1, <2>7, HeldIs DEF N
    <3> QED BY <1>3, <2>3, <2>4, <2>5, <2>7, <3>1 DEF e, N
  <2> QED BY <2>6, <2>7
<1> QED BY <1>1, <1>2, <1>3

-----------------------------------------------------------------------------
(* The enumeration between the clocks.                                     *)
LEMMA ShiftedIs ==
    ASSUME Sound, TapeGood, todo = <<>>
    PROVE  /\ Len(discovered) \in Nat /\ Len(discovered) <= Len(setup.chain)
           /\ Passed \in Nat /\ From \in Nat /\ Shifted \in Nat /\ Shifted = From + Len(got)
           /\ sent = MarkerSoFar(Shifted) /\ sent \in Nat /\ got \in Seq(Bits)
           /\ setup \in Setups
<1>1. Found /\ MarkerAhead(Shifted, <<>>, sent)
  BY DEF TapeGood
<1>2. Len(discovered) \in Nat /\ Passed \in Nat /\ From \in Nat
      /\ Len(discovered) <= Len(setup.chain)
  BY <1>1, FromIs DEF Found
<1>3. got \in Seq(Bits) /\ setup \in Setups /\ sent \in Nat
  <2>1. sent \in 0 .. MarkerBits /\ MarkerBits \in Nat
    BY MarkerSize DEF Sound, Scripted, Base
  <2> QED BY <2>1 DEF Sound, Types, Scripted, Base
<1>4. Shifted = From + Len(got) /\ Shifted \in Nat
  <2>1. Len(got) \in Nat
    BY <1>3
  <2> QED BY <1>2, <2>1 DEF Shifted
<1>5. sent = MarkerSoFar(Shifted + Len(<<>>))
  BY <1>1 DEF MarkerAhead
<1>6. Shifted + Len(<<>>) = Shifted
  BY <1>4, EmptyFacts
<1> QED BY <1>2, <1>3, <1>4, <1>5, <1>6

(* The next bits are asked for,                                            *)
LEMMA SearchGoesOn ==
    ASSUME Sound, TapeGood, todo = <<>>, UNCHANGED <<setup, devs, discovered>>,
           NEW at \in Enumerating, NEW m \in Nat, SendMarker(m, at),
           m = Clocks(at, 1, Size(NoCall)), From' = Shifted,
           at \in {"manufacturer", "rest"} => OnTape(setup, Passed + 1, 1),
           at = "rest" => BitsRead(setup, Passed + 1, kept') /\ kept' # DoneCode
    PROVE  TapeGood'
<1>1. sent = MarkerSoFar(Shifted) /\ Shifted \in Nat /\ sent \in Nat
  BY ShiftedIs
<1>2. todo' = MarkerStream(m, sent) /\ got' = <<>> /\ pc' = at
  BY <1>1, MarkerLength
<1>3. sent' = IF sent + m > MarkerBits THEN MarkerBits ELSE sent + m
  BY DEF SendMarker
<1>4. MarkerAhead(Shifted, todo', sent')
  <2>1. 1 \in Nat /\ NoCall \in AnyCall
    BY DEF AnyCall
  <2>2. MarkerAhead(Shifted, MarkerStream(m, sent),
                    IF sent + m > MarkerBits THEN MarkerBits ELSE sent + m)
    BY ONLY <1>1, <2>1, MarkerAgain, at \in Enumerating, m \in Nat,
            m = Clocks(at, 1, Size(NoCall))
  <2> QED BY <1>2, <1>3, <2>2
<1>5. Shifted' = Shifted
  <2>1. Shifted' = From' + Len(got')
    BY DEF Shifted
  <2>2. Shifted + Len(<<>>) = Shifted
    BY <1>1, EmptyFacts
  <2> QED BY <1>2, <2>1, <2>2
<1>6. Found' /\ Passed' = Passed
  BY DEF Found, Passed, TapeGood
<1>7. Registers(setup', Shifted', devs') /\ MarkerAhead(Shifted', todo', sent')
      /\ BitsRead(setup', From', got')
  BY <1>2, <1>4, <1>5, EmptyFacts DEF TapeGood
<1>8. /\ pc' \in {"manufacturer", "rest"} => OnTape(setup', Passed' + 1, 1)
      /\ pc' = "rest" => BitsRead(setup', Passed' + 1, kept') /\ kept' # DoneCode
  BY <1>2, <1>6
<1> QED BY <1>6, <1>7, <1>8 DEF TapeGood

(* What is appended to a sequence.                                         *)
LEMMA Appended ==
    ASSUME NEW S, NEW s \in Seq(S), NEW x
    PROVE  /\ Len(s) \in Nat /\ Len(Append(s, x)) = Len(s) + 1
           /\ \A j \in 1 .. Len(s) : Append(s, x)[j] = s[j]
           /\ Append(s, x)[Len(s) + 1] = x
<1> DEFINE T == S \cup {x}
<1>1. s \in Seq(T) /\ x \in T
  OBVIOUS
<1> HIDE DEF T
<1>2. Len(s) \in Nat /\ Len(Append(s, x)) = Len(s) + 1
  BY <1>1
<1>3. ASSUME NEW j \in 1 .. Len(s) PROVE Append(s, x)[j] = s[j]
  BY <1>1
<1>4. Append(s, x)[Len(s) + 1] = x
  BY <1>1
<1> QED BY <1>2, <1>3, <1>4

(* or one device more has been found.                                      *)
LEMMA FoundOne ==
    ASSUME Sound, TapeGood, todo = <<>>, UNCHANGED <<setup, devs, sent>>, NEW id, Discover(id),
           Len(discovered) < Len(setup.chain), id = Id(setup, Len(discovered) + 1),
           Offset(setup)[Len(discovered) + 1 + 1] = Shifted
    PROVE  TapeGood'
<1> DEFINE d == Len(discovered)
           e == Len(discovered')
           N == Len(setup.chain)
<1>1. /\ sent = MarkerSoFar(Shifted) /\ Shifted \in Nat /\ d \in Nat /\ N \in Nat
      /\ setup \in Setups
  BY ShiftedIs, OffsetsExist
<1>2. discovered' = Append(discovered, id) /\ todo' = <<>> /\ pc' = "next device" /\ got' = <<>>
  BY DEF Discover, Send
<1>3. /\ e = d + 1
      /\ \A j \in 1 .. d : discovered'[j] = discovered[j]
      /\ discovered'[d + 1] = id
  <2>1. discovered \in Seq({<<>>} \cup BitString(IdBits))
    BY DEF Sound, Types
  <2> QED BY <1>2, <2>1, Appended, ZenonT(60)
<1>4. Found'
  <2>1. d <= N /\ \A j \in 1 .. d : discovered[j] = Id(setup, j)
    BY DEF TapeGood, Found
  <2>2. Found' <=> e <= N /\ \A j \in 1 .. e : discovered'[j] = Id(setup, j)
    BY DEF Found
  <2>3. d < N /\ id = Id(setup, d + 1)
    OBVIOUS
  <2> HIDE DEF d, e, N
  <2>4. e <= N
    BY <1>1, <1>3, <2>3
  <2>5. ASSUME NEW j \in 1 .. e PROVE discovered'[j] = Id(setup, j)
    <3>1. j \in 1 .. d \/ j = d + 1
      BY <1>1, <1>3
    <3> QED BY <1>3, <2>1, <2>3, <3>1
  <2> QED BY <2>2, <2>4, <2>5
<1>5. From' = Shifted
  <2>1. From' = Passed'
    BY <1>2 DEF From
  <2>2. Passed' = Offset(setup)[e + 1]
    BY DEF Passed
  <2>3. Offset(setup)[d + 1 + 1] = Shifted
    OBVIOUS
  <2> HIDE DEF d, e
  <2> QED BY <1>3, <2>1, <2>2, <2>3
<1>6. Shifted' = Shifted
  <2>1. Shifted' = From' + Len(got')
    BY DEF Shifted
  <2>2. Shifted + Len(<<>>) = Shifted
    BY <1>1, EmptyFacts
  <2> QED BY <1>2, <1>5, <2>1, <2>2
<1>7. Registers(setup', Shifted', devs') /\ MarkerAhead(Shifted', todo', sent')
      /\ BitsRead(setup', From', got')
  BY <1>2, <1>6, EmptyFacts DEF TapeGood
<1> QED BY <1>2, <1>4, <1>7 DEF TapeGood

(* The next device, or as many as there may be;                            *)
LEMMA TapeNextDevice ==
    ASSUME Sound, TapeInv, NextDevice, setup.tdo = "ok"
    PROVE  /\ pc' = "start bit" => TapeGood'
           /\ pc' = "enumerated" => Found' /\ Len(discovered') = MaxDevices
<1>1. /\ UNCHANGED <<setup, devs, discovered>> /\ pc = "next device" /\ todo = <<>>
      /\ \/ Len(discovered) < MaxDevices /\ SendMarker(1, "start bit") /\ pc' = "start bit"
         \/ ~(Len(discovered) < MaxDevices) /\ pc' = "enumerated"
  BY DEF NextDevice, At, hardware, SendMarker, Send
<1>2. TapeGood /\ got = <<>>
  BY <1>1 DEF TapeInv, Searching
<1>3. /\ Passed \in Nat /\ Shifted = From + Len(got) /\ From = Passed /\ Len(discovered) \in Nat
  BY <1>1, <1>2, ShiftedIs DEF From
<1>4. CASE SendMarker(1, "start bit") /\ pc' = "start bit"
  <2>1. From' = Passed
    BY <1>1, <1>4 DEF From, Passed
  <2>2. Passed + Len(<<>>) = Passed
    BY <1>3, EmptyFacts
  <2>3. From' = Shifted
    BY <1>2, <1>3, <2>1, <2>2
  <2>4. 1 = Clocks("start bit", 1, Size(NoCall)) /\ 1 \in Nat /\ "start bit" \in Enumerating
    <3>1. 1 \in Nat /\ NoCall \in AnyCall
      BY DEF AnyCall
    <3>2. Clocks("start bit", 1, Size(NoCall)) = 1
      BY ONLY <3>1, Script
    <3> QED BY <3>1, <3>2 DEF Enumerating
  <2>5. TapeGood'
    BY <1>1, <1>2, <1>4, <2>3, <2>4, SearchGoesOn
  <2> QED BY <1>4, <2>5
<1>5. CASE ~(Len(discovered) < MaxDevices) /\ pc' = "enumerated"
  <2>1. Found'
    BY <1>1, <1>2 DEF TapeGood, Found
  <2>2. Len(discovered) <= MaxDevices /\ MaxDevices \in Nat
    BY Sizes DEF Sound, Types
  <2>3. Len(discovered) = MaxDevices
    BY <1>3, <1>5, <2>2
  <2> QED BY <1>1, <1>5, <2>1, <2>3
<1> QED BY <1>1, <1>4, <1>5

(* How many bits the program has before it at the end of each reading.     *)
LEMMA BitsInHand ==
    ASSUME Sound, todo = <<>>
    PROVE  /\ got \in Seq(Bits)
           /\ pc = "start bit" => got \in [1 .. 1 -> Bits] /\ Len(got) = 1
           /\ pc = "manufacturer" => got \in BitString(ManufBits) /\ Len(got) = ManufBits
           /\ pc = "rest" => got \in BitString(RestBits) /\ Len(got) = RestBits
           /\ pc = "idcode" => got \in BitString(IdBits) /\ Len(got) = IdBits
           /\ pc \in {"ack", "error"} => got \in [1 .. 1 -> Bits] /\ Len(got) = 1
           /\ pc = "data" => got \in BitString(DataBits) /\ Len(got) = DataBits
<1> DEFINE g == Len(got)
<1>1. got \in Seq(Bits) /\ g \in Nat /\ got \in [1 .. g -> Bits]
  BY SeqOfLength DEF Sound, Types
<1>2. Len(got) + Len(todo) = g
  <2>1. Len(todo) = 0
    OBVIOUS
  <2> QED BY <1>1, <2>1
<1>3. /\ pc = "start bit" => g = 1
      /\ pc = "manufacturer" => g = ManufBits
      /\ pc = "rest" => g = RestBits
      /\ pc = "idcode" => g = IdBits
      /\ pc \in {"ack", "error"} => g = 1
      /\ pc = "data" => g = DataBits
  BY <1>2 DEF Sound, ReadsAll
<1> QED BY <1>1, <1>3 DEF BitString

(* a device without an ID code, or the first bit of one;                   *)
LEMMA TapeStartBit ==
    ASSUME Sound, TapeInv, StartBit, setup.tdo = "ok"
    PROVE  TapeGood'
<1> DEFINE d == Len(discovered)
           N == Len(setup.chain)
<1>1. /\ UNCHANGED <<setup, devs>> /\ pc = "start bit" /\ todo = <<>>
      /\ \/ got = <<0>> /\ Discover(<<>>) /\ UNCHANGED sent
         \/ got = <<1>> /\ SendMarker(ManufBits, "manufacturer") /\ UNCHANGED discovered
  BY DEF StartBit, At, hardware
<1>2. TapeGood
  BY <1>1 DEF TapeInv, Searching, Enumerating
<1>3. /\ d \in Nat /\ d <= N /\ Passed \in Nat /\ From = Passed /\ Shifted = From + Len(got)
      /\ setup \in Setups /\ Passed = Offset(setup)[d + 1]
  BY <1>1, <1>2, ShiftedIs DEF From, Passed
<1>4. Len(got) = 1 /\ Shifted = Passed + 1
  <2>1. Len(got) = 1
    BY <1>1, BitsInHand
  <2> QED BY <1>3, <2>1
<1>5. OnTape(setup, Passed + 1, got[1])
  <2>1. BitsRead(setup, Passed, got)
    BY <1>2, <1>3 DEF TapeGood
  <2>2. 1 \in 1 .. Len(got)
    BY <1>4
  <2> QED BY <2>1, <2>2 DEF BitsRead
<1>6. CASE got = <<0>> /\ Discover(<<>>) /\ UNCHANGED sent
  <2>1. got[1] = 0
    BY <1>6
  <2>2. d < N /\ Id(setup, d + 1) = <<>> /\ Offset(setup)[d + 1 + 1] = Passed + 1
    BY <1>3, <1>5, <2>1, BeginsHere
  <2> QED BY <1>1, <1>2, <1>4, <1>6, <2>2, FoundOne
<1>7. CASE got = <<1>> /\ SendMarker(ManufBits, "manufacturer") /\ UNCHANGED discovered
  <2>1. OnTape(setup, Passed + 1, 1)
    BY <1>5, <1>7
  <2>2. pc' = "manufacturer"
    BY <1>7 DEF SendMarker, Send
  <2>3. From' = Shifted
    BY <1>1, <1>4, <1>7, <2>2 DEF From, Passed
  <2>4. ManufBits = Clocks("manufacturer", 1, Size(NoCall)) /\ ManufBits \in Nat
        /\ "manufacturer" \in Enumerating
    <3>1. 1 \in Nat /\ NoCall \in AnyCall
      BY DEF AnyCall
    <3>2. Clocks("manufacturer", 1, Size(NoCall)) = ManufBits
      BY ONLY <3>1, Script
    <3> QED BY <3>2, Sizes DEF Enumerating
  <2> QED BY <1>1, <1>2, <1>7, <2>1, <2>3, <2>4, SearchGoesOn
<1> QED BY <1>1, <1>6, <1>7

(* The code that ends the search, bit by bit.                              *)
LEMMA DoneBits ==
    /\ DoneCode \in BitString(ManufBits) /\ ManufBits \in Nat \ {0}
    /\ DoneCode[ManufBits] = 0
    /\ \A j \in 1 .. ManufBits : DoneCode[j] = Marker(1 + j)
<1>1. ManufBits \in Nat \ {0} /\ MarkerBits \in 1 .. ManufBits
  BY Sizes
<1>2. DoneCode \in BitString(ManufBits)
  BY DEF DoneCode, BitString, Bits
<1>3. DoneCode[ManufBits] = 0
  BY <1>1 DEF DoneCode
<1>4. \A j \in 1 .. ManufBits : DoneCode[j] = Marker(1 + j)
  BY <1>1 DEF DoneCode, Marker
<1> QED BY <1>1, <1>2, <1>3, <1>4

(* the manufacturer, or the end of the chain;                              *)
LEMMA TapeManufacturer ==
    ASSUME Sound, TapeInv, ManufacturerCode, setup.tdo = "ok"
    PROVE  /\ pc' = "rest" => TapeGood'
           /\ pc' = "enumerated" => Found' /\ Len(discovered') = Len(setup.chain)
<1> DEFINE d == Len(discovered)
           N == Len(setup.chain)
           e == d + 1
<1>1. /\ UNCHANGED <<setup, devs, discovered>> /\ pc = "manufacturer" /\ todo = <<>> /\ kept' = got
      /\ \/ got # DoneCode /\ SendMarker(RestBits, "rest") /\ pc' = "rest"
         \/ got = DoneCode /\ pc' = "enumerated"
  BY DEF ManufacturerCode, At, hardware, Keep, SendMarker, Send
<1>2. TapeGood
  BY <1>1 DEF TapeInv, Searching, Enumerating
<1>3. /\ d \in Nat /\ d <= N /\ Passed \in Nat /\ From = Passed + 1 /\ Shifted = From + Len(got)
      /\ setup \in Setups /\ Passed = Offset(setup)[e]
  BY <1>1, <1>2, ShiftedIs DEF From, Passed
<1>4. got \in BitString(ManufBits) /\ Len(got) = ManufBits /\ Shifted = Passed + 1 + ManufBits
  BY <1>1, <1>3, BitsInHand
<1>5. OnTape(setup, Passed + 1, 1) /\ BitsRead(setup, Passed + 1, got)
  BY <1>1, <1>2, <1>3 DEF TapeGood
<1>6. CASE got # DoneCode /\ SendMarker(RestBits, "rest") /\ pc' = "rest"
  <2>1. From' = Shifted
    BY <1>1, <1>4, <1>6 DEF From, Passed
  <2>2. RestBits = Clocks("rest", 1, Size(NoCall)) /\ RestBits \in Nat /\ "rest" \in Enumerating
    <3>1. 1 \in Nat /\ NoCall \in AnyCall
      BY DEF AnyCall
    <3>2. Clocks("rest", 1, Size(NoCall)) = RestBits
      BY ONLY <3>1, Script
    <3> QED BY <3>2, Sizes DEF Enumerating
  <2>3. BitsRead(setup, Passed + 1, kept') /\ kept' # DoneCode
    BY <1>1, <1>5, <1>6
  <2>4. TapeGood'
    BY <1>1, <1>2, <1>5, <1>6, <2>1, <2>2, <2>3, SearchGoesOn
  <2> QED BY <1>6, <2>4
<1>7. CASE got = DoneCode /\ pc' = "enumerated"
  <2>1. Found'
    BY <1>1, <1>2 DEF TapeGood, Found
  <2>2. ASSUME d < N PROVE FALSE
    <3>1. /\ Id(setup, e) \in BitString(IdBits)
          /\ Held(setup, e) = Id(setup, e) /\ Len(Held(setup, e)) = IdBits
          /\ SubSeq(Id(setup, e), 2, 1 + ManufBits) # DoneCode
      BY <1>3, <1>5, <2>2, BeginsHere
    <3>2. e \in 1 .. N /\ N \in Nat
      BY <1>3, <2>2, OffsetsExist
    <3> DEFINE w == Id(setup, e)
               v == SubSeq(w, 1 + 1, 1 + ManufBits)
    <3>3. ManufBits \in Nat /\ IdBits \in Nat /\ 1 + ManufBits <= IdBits /\ 1 \in Nat
      BY Sizes
    <3>8. Passed \in Nat /\ setup \in Setups
      BY <1>3
    <3>4. ASSUME NEW j \in 1 .. ManufBits PROVE v[j] = DoneCode[j]
      <4>1. OnTape(setup, Passed + 1 + j, got[j])
        BY <1>4, <1>5 DEF BitsRead
      <4>2. Passed + 1 + j = Offset(setup)[e] + (1 + j) /\ 1 + j \in 1 .. IdBits
        <5>1. Passed + 1 + j = Passed + (1 + j)
          BY ONLY <3>3, <3>8, j \in 1 .. ManufBits
        <5>2. 1 + j \in 1 .. IdBits
          BY ONLY <3>3, j \in 1 .. ManufBits
        <5> QED BY <1>3, <5>1, <5>2
      <4>3. got[j] = Held(setup, e)[1 + j]
        <5>1. 1 + j \in 1 .. Len(Held(setup, e)) /\ e \in 1 .. Len(setup.chain)
          BY <3>1, <3>2, <4>2
        <5>2. OnTape(setup, Offset(setup)[e] + (1 + j), got[j])
          BY <4>1, <4>2
        <5> DEFINE k == 1 + j
                   b == got[j]
        <5>4. k \in 1 .. Len(Held(setup, e)) /\ OnTape(setup, Offset(setup)[e] + k, b)
          BY <5>1, <5>2
        <5> HIDE DEF k, b, e
        <5>3. b = Held(setup, e)[k]
          BY ONLY <3>8, <5>1, <5>4, TapeIs
        <5> QED BY <5>3 DEF k, b
      <4>4. v[j] = w[1 + j]
        BY <3>1, <3>3, PartAt DEF BitString
      <4> QED BY <1>7, <3>1, <4>3, <4>4
    <3>5. v \in BitString(ManufBits)
      BY <3>1, <3>3, PartOf DEF BitString
    <3>6. v = DoneCode
      <4> HIDE DEF v
      <4> QED BY <3>4, <3>5, DoneBits DEF BitString
    <3>7. 1 + 1 = 2
      OBVIOUS
    <3> QED BY <3>1, <3>6, <3>7
  <2>3. d = N
    <3>1. N \in Nat
      BY <1>3, OffsetsExist
    <3> QED BY <1>3, <2>2, <3>1
  <2> QED BY <1>1, <1>7, <2>1, <2>3
<1> QED BY <1>1, <1>6, <1>7

(* Two strings of the same bits are one.                                   *)
LEMMA SameBits ==
    ASSUME NEW n \in Nat, NEW f \in [1 .. n -> Bits], NEW g \in [1 .. n -> Bits],
           \A i \in 1 .. n : f[i] = g[i]
    PROVE  f = g
OBVIOUS

(* What is read of a device is what its register held.                     *)
LEMMA ReadOf ==
    ASSUME setup \in Setups, NEW e \in 1 .. Len(setup.chain), NEW p \in Nat, NEW m \in Nat,
           NEW bits \in BitString(m), BitsRead(setup, Offset(setup)[e] + p, bits),
           p + m <= Len(Held(setup, e)), NEW j \in 1 .. m
    PROVE  bits[j] = Held(setup, e)[p + j]
<1> DEFINE k == p + j
           b == bits[j]
           L == Len(Held(setup, e))
           o == Offset(setup)[e]
<1>1. L \in Nat /\ o \in Nat /\ p + m <= L
  <2>1. L \in Nat
    BY HeldIs
  <2>2. Len(setup.chain) \in Nat /\ Offset(setup) \in [1 .. Len(setup.chain) + 1 -> Nat]
    BY OffsetsExist, OffsetsRise
  <2>3. e \in 1 .. Len(setup.chain) + 1
    BY <2>2
  <2> QED BY <2>1, <2>2, <2>3
<1>2. Len(bits) = m
  BY DEF BitString
<1>3. OnTape(setup, (o + p) + j, b)
  BY <1>2 DEF BitsRead
<1> HIDE DEF L, o, b
<1>4. (o + p) + j = o + k /\ k \in 1 .. L
  BY ONLY <1>1, p \in Nat, m \in Nat, j \in 1 .. m
<1>5. OnTape(setup, Offset(setup)[e] + k, b) /\ k \in 1 .. Len(Held(setup, e))
  BY <1>3, <1>4 DEF L, o
<1> HIDE DEF k
<1>6. b = Held(setup, e)[k]
  BY ONLY <1>5, TapeIs, setup \in Setups, e \in 1 .. Len(setup.chain)
<1> QED BY <1>6 DEF b, k

(* the rest of the ID code.                                                *)
LEMMA TapeRest ==
    ASSUME Sound, TapeInv, RestOfIdCode, setup.tdo = "ok"
    PROVE  TapeGood'
<1> DEFINE d == Len(discovered)
           N == Len(setup.chain)
           e == d + 1
           id == <<1>> \o kept \o got
<1>1. UNCHANGED <<setup, devs, sent>> /\ pc = "rest" /\ todo = <<>> /\ Discover(id)
  BY DEF RestOfIdCode, At, hardware
<1>2. TapeGood
  BY <1>1 DEF TapeInv, Searching, Enumerating
<1>3. /\ d \in Nat /\ d <= N /\ Passed \in Nat /\ From = Passed + 1 + ManufBits
      /\ Shifted = From + Len(got)
      /\ setup \in Setups /\ Passed = Offset(setup)[e]
  BY <1>1, <1>2, ShiftedIs DEF From, Passed
<1>4. got \in BitString(RestBits) /\ Len(got) = RestBits /\ kept \in BitString(ManufBits)
  BY <1>1, BitsInHand DEF Sound, Types
<1>5. /\ OnTape(setup, Passed + 1, 1) /\ BitsRead(setup, Passed + 1, kept) /\ kept # DoneCode
      /\ BitsRead(setup, Passed + 1 + ManufBits, got)
  BY <1>1, <1>2, <1>3 DEF TapeGood
<1>6. /\ ManufBits \in Nat \ {0} /\ RestBits \in Nat /\ IdBits = 1 + ManufBits + RestBits
      /\ IdBits \in Nat
  BY Sizes
<1>7. Passed \in Nat /\ setup \in Setups /\ N \in Nat
  BY <1>3, OffsetsExist
<1>8. d < N
  <2>1. ASSUME d = N PROVE FALSE
    <3>1. ASSUME NEW j \in 1 .. ManufBits PROVE kept[j] = DoneCode[j]
      <4> DEFINE k == 1 + j
                 b == kept[j]
      <4>1. Len(kept) = ManufBits
        BY <1>4, <1>6 DEF BitString
      <4>2. OnTape(setup, (Passed + 1) + j, b)
        BY <1>5, <4>1 DEF BitsRead
      <4>3. (Passed + 1) + j = Passed + k /\ k \in Nat \ {0}
        BY ONLY <1>6, <1>7, j \in 1 .. ManufBits
      <4>4. OnTape(setup, Offset(setup)[Len(setup.chain) + 1] + k, b)
        <5>1. Passed = Offset(setup)[N + 1]
          BY <1>3, <2>1
        <5> QED BY <4>2, <4>3, <5>1
      <4> HIDE DEF b, k
      <4>5. b = Marker(k)
        BY ONLY <1>7, <4>3, <4>4, TapeEnds
      <4>6. DoneCode[j] = Marker(k)
        BY DoneBits DEF k
      <4> QED BY <4>5, <4>6 DEF b
    <3>2. kept = DoneCode
      BY <1>4, <3>1, DoneBits DEF BitString
    <3> QED BY <1>5, <3>2
  <2> HIDE DEF d, N
  <2> QED BY <1>3, <1>7, <2>1
<1>9. /\ Id(setup, e) \in BitString(IdBits) /\ Id(setup, e)[1] = 1
      /\ Held(setup, e) = Id(setup, e) /\ Len(Held(setup, e)) = IdBits
      /\ Offset(setup)[e + 1] = Passed + IdBits
  BY <1>3, <1>5, <1>8, BeginsHere
<1>10. e \in 1 .. Len(setup.chain)
  <2> HIDE DEF d
  <2> QED BY <1>3, <1>7, <1>8
<1> DEFINE w == Id(setup, e)
<1>11. ASSUME NEW j \in 1 .. ManufBits PROVE kept[j] = w[1 + j]
  <2>1. 1 + ManufBits <= Len(Held(setup, e))
    BY <1>6, <1>9
  <2>2. BitsRead(setup, Offset(setup)[e] + 1, kept)
    BY <1>3, <1>5
  <2> HIDE DEF e
  <2>3. kept[j] = Held(setup, e)[1 + j]
    BY <1>4, <1>6, <1>7, <1>10, <2>1, <2>2, ReadOf
  <2> QED BY <1>9, <2>3
<1>12. ASSUME NEW j \in 1 .. RestBits PROVE got[j] = w[1 + ManufBits + j]
  <2> DEFINE p == 1 + ManufBits
  <2>1. p + RestBits <= Len(Held(setup, e)) /\ p \in Nat /\ Passed + 1 + ManufBits = Passed + p
    <3>1. p + RestBits = IdBits /\ p \in Nat /\ Passed + 1 + ManufBits = Passed + p
      BY ONLY <1>6, <1>7
    <3> QED BY <1>6, <1>9, <3>1
  <2>2. BitsRead(setup, Offset(setup)[e] + p, got)
    BY <1>3, <1>5, <2>1
  <2> HIDE DEF e, p
  <2>4. got \in BitString(RestBits) /\ RestBits \in Nat /\ setup \in Setups /\ p \in Nat
        /\ p + RestBits <= Len(Held(setup, e))
    BY <1>4, <1>6, <1>7, <2>1
  <2>3. got[j] = Held(setup, e)[p + j]
    BY ONLY <1>10, <2>2, <2>4, ReadOf, j \in 1 .. RestBits
  <2> QED BY <1>9, <2>3 DEF p
<1>13. id = w
  <2>1. kept \in Seq(Bits) /\ Len(kept) = ManufBits /\ got \in Seq(Bits) /\ Len(got) = RestBits
    BY <1>4, <1>6 DEF BitString
  <2>2. <<1>> \in Seq(Bits) /\ Len(<<1>>) = 1 /\ <<1>>[1] = 1
    BY DEF Bits
  <2>3. /\ id \in Seq(Bits) /\ Len(id) = 1 + ManufBits + RestBits
        /\ \A i \in 1 .. 1 + ManufBits + RestBits :
             id[i] = IF i <= 1 THEN <<1>>[i]
                     ELSE IF i <= 1 + ManufBits THEN kept[i - 1] ELSE got[i - 1 - ManufBits]
    BY <2>1, <2>2, BitsInThree, ZenonT(60)
  <2>4. id \in [1 .. IdBits -> Bits] /\ w \in [1 .. IdBits -> Bits] /\ w[1] = 1
    BY <1>6, <1>9, <2>3, SeqOfLength DEF BitString
  <2> HIDE DEF id, w
  <2>5. ASSUME NEW i \in 1 .. IdBits PROVE id[i] = w[i]
    <3>1. i \in 1 .. 1 + ManufBits + RestBits
      BY <1>6
    <3>2. CASE i = 1
      BY <2>2, <2>3, <2>4, <3>1, <3>2
    <3>3. CASE i # 1 /\ i <= 1 + ManufBits
      <4>1. i - 1 \in 1 .. ManufBits /\ 1 + (i - 1) = i /\ ~(i <= 1)
        BY <1>6, <3>1, <3>3
      <4>2. kept[i - 1] = w[1 + (i - 1)]
        BY <1>11, <4>1
      <4> QED BY <2>3, <3>1, <3>3, <4>1, <4>2
    <3>4. CASE ~(i <= 1 + ManufBits)
      <4>1. /\ i - 1 - ManufBits \in 1 .. RestBits
            /\ 1 + ManufBits + (i - 1 - ManufBits) = i /\ ~(i <= 1)
        BY <1>6, <3>1, <3>4
      <4>2. got[i - 1 - ManufBits] = w[1 + ManufBits + (i - 1 - ManufBits)]
        BY <1>12, <4>1
      <4> QED BY <2>3, <3>1, <3>4, <4>1, <4>2
    <3> QED BY <3>2, <3>3, <3>4
  <2>6. \A i \in 1 .. IdBits : id[i] = w[i]
    BY <2>5
  <2>7. id \in [1 .. IdBits -> Bits] /\ w \in [1 .. IdBits -> Bits]
    BY <2>4
  <2> QED BY ONLY <1>6, <2>6, <2>7, SameBits
<1>14. Shifted = Passed + IdBits
  <2>1. Shifted = (Passed + 1 + ManufBits) + RestBits
    BY <1>3, <1>4
  <2>2. (Passed + 1 + ManufBits) + RestBits = Passed + IdBits
    BY ONLY <1>6, <1>7
  <2> QED BY <2>1, <2>2
<1> QED BY <1>1, <1>2, <1>8, <1>9, <1>13, <1>14, FoundOne

(* What has been read is dropped between clocks.                           *)
LEMMA SilentReadsNothing ==
    ASSUME Silent PROVE got' = <<>>
BY DEF Silent, ResetTap, NextDevice, StartBit, ManufacturerCode, RestOfIdCode, Enumerated,
   ConfigureChain, JtagGetIdCode, SanityCheck, PollAck, IsStalled, ErrorBit, ReadSpr,
   SprRead, Return, Call, Fail, Start, Send, SendMarker, Discover, Quit,
   finish_and_leave_a_dbg_nop_cmd_in_place

(* Where the steps of the program lead that are not those of the search.   *)
LEMMA SilentElsewhere ==
    ASSUME Silent, ~(ResetTap \/ NextDevice \/ StartBit \/ ManufacturerCode \/ RestOfIdCode
                     \/ Start)
    PROVE  pc' \in {"configure", "identify", "idcode", "serving", "exit", "command",
                    "ack", "error", "data", "finish"}
BY DEF Silent, Enumerated, Quit, ConfigureChain, JtagGetIdCode, SanityCheck, PollAck, IsStalled,
   ErrorBit, ReadSpr, SprRead, Return, Call, Fail, Send,
   finish_and_leave_a_dbg_nop_cmd_in_place

(* A step between clocks keeps what is known of the tape.                  *)
LEMMA TapeSilent ==
    ASSUME Sound, TapeInv, Silent
    PROVE  TapeInv'
<1>1. UNCHANGED setup /\ got' = <<>>
  BY SilentIsSilent, SilentReadsNothing
<1>2. CASE NextDevice
  <2>1. pc' \in {"start bit", "enumerated"}
    BY <1>2 DEF NextDevice, SendMarker, Send
  <2>2. setup.tdo = "ok" =>
          /\ pc' = "start bit" => TapeGood'
          /\ pc' = "enumerated" =>
               Found' /\ Len(discovered') \in {MaxDevices, Len(setup'.chain)}
    BY <1>2, TapeNextDevice
  <2> QED BY <1>1, <2>1, <2>2 DEF TapeInv, Searching, Enumerating
<1>3. CASE StartBit
  <2>1. pc' = "manufacturer" \/ (pc' = "next device" /\ todo' = <<>>)
    BY <1>3 DEF StartBit, SendMarker, Discover, Send
  <2> QED BY <1>1, <1>3, <2>1, TapeStartBit DEF TapeInv, Searching
<1>4. CASE ManufacturerCode
  <2>1. pc' \in {"rest", "enumerated"}
    BY <1>4 DEF ManufacturerCode, SendMarker, Send
  <2>2. setup.tdo = "ok" =>
          /\ pc' = "rest" => TapeGood'
          /\ pc' = "enumerated" =>
               Found' /\ Len(discovered') \in {MaxDevices, Len(setup'.chain)}
    BY <1>1, <1>4, TapeManufacturer
  <2> QED BY <1>1, <2>1, <2>2 DEF TapeInv, Searching, Enumerating
<1>5. CASE RestOfIdCode
  <2>1. pc' = "next device" /\ todo' = <<>>
    BY <1>5 DEF RestOfIdCode, Discover, Send
  <2> QED BY <1>1, <1>5, <2>1, TapeRest DEF TapeInv, Searching
<1>6. CASE ResetTap
  <2>1. pc = "started" /\ pc' = "next device" /\ UNCHANGED <<discovered, sent>>
        /\ todo' = tap_reset \o tap_move_from_idle_to_shift_dr
    BY <1>6 DEF ResetTap, At, Send
  <2>2. todo' # <<>>
    <3>1. 1 \in Nat /\ NoCall \in AnyCall
      BY DEF AnyCall
    <3>2. Len(tap_reset \o tap_move_from_idle_to_shift_dr) = 14
      BY <3>1, ResetSent
    <3>3. Len(<<>>) # 14
      OBVIOUS
    <3> QED BY <2>1, <3>2, <3>3
  <2>3. ~Searching' /\ pc' # "enumerated"
    BY <2>1, <2>2 DEF Searching, Enumerating
  <2> QED BY <1>1, <2>1, <2>3 DEF TapeInv
<1>7. CASE Start
  <2>1. pc' = "started" /\ discovered' = <<>> /\ sent' = 0
    BY <1>7 DEF Start, Send
  <2> QED BY <2>1 DEF TapeInv, Searching, Enumerating
<1>8. CASE ~(ResetTap \/ NextDevice \/ StartBit \/ ManufacturerCode \/ RestOfIdCode \/ Start)
  <2>1. pc' \in {"configure", "identify", "idcode", "serving", "exit", "command",
                 "ack", "error", "data", "finish"}
    BY <1>8, SilentElsewhere
  <2> QED BY <2>1 DEF TapeInv, Searching, Enumerating
<1> QED BY <1>2, <1>3, <1>4, <1>5, <1>6, <1>7, <1>8

-----------------------------------------------------------------------------
(* With the output stuck.                                                  *)
StuckAt == IF setup.tdo = "0" THEN 0 ELSE 1

(* With TDO stuck, a clock reads the same bit for ever,                    *)
LEMMA StuckClock ==
    ASSUME Sound, Stuck, Clock
    PROVE  Stuck'
<1>1. UNCHANGED <<setup, pc, discovered>> /\ pc # "enumerated"
  BY ClockFacts DEF Sound, Scripted
<1>2. ASSUME setup.tdo # "ok", pc \in Enumerating PROVE StuckBits(got)'
  <2>1. Reading
    BY <1>2 DEF Reading, Enumerating
  <2>2. CableTdo = StuckAt /\ got' = Append(got, CableTdo)
    BY <1>2, <2>1, CableBit, ClockParts DEF Sound, StuckAt
  <2>3. got \in Seq(Bits)
    BY DEF Sound, Types
  <2> DEFINE g == Len(got)
             h == Len(got')
  <2>4. /\ g \in Nat /\ h = g + 1 /\ \A j \in 1 .. g : got'[j] = got[j]
        /\ got'[g + 1] = StuckAt
    BY <2>2, <2>3, Appended
  <2>5. \A j \in 1 .. g : got[j] = StuckAt
    BY <1>2 DEF Stuck, StuckBits, StuckAt
  <2> HIDE DEF g, h
  <2>6. ASSUME NEW j \in 1 .. h PROVE got'[j] = StuckAt
    <3>1. j \in 1 .. g \/ j = g + 1
      BY <2>4
    <3> QED BY <2>4, <2>5, <3>1
  <2>7. StuckAt' = StuckAt
    BY <1>1 DEF StuckAt
  <2> QED BY <1>1, <2>6 DEF StuckBits, h, StuckAt
<1> QED BY <1>1, <1>2 DEF Stuck

(* so that no chain is found.                                              *)
LEMMA StuckSilent ==
    ASSUME Sound, Stuck, Silent
    PROVE  Stuck'
<1>1. UNCHANGED setup /\ got' = <<>>
  BY SilentIsSilent, SilentReadsNothing
<1>2. StuckBits(got)'
  <2>1. Len(got') = 0
    BY <1>1
  <2> QED BY <2>1 DEF StuckBits
<1> SUFFICES ASSUME setup.tdo # "ok"
             PROVE  /\ setup.tdo = "0" => pc' \notin {"manufacturer", "rest"}
                    /\ pc' = "enumerated" => Len(discovered') = MaxDevices
  BY <1>1, <1>2 DEF Stuck
<1>3. CASE NextDevice
  <2>1. UNCHANGED discovered /\ pc' \in {"start bit", "enumerated"}
        /\ (pc' = "enumerated" => ~(Len(discovered) < MaxDevices))
    BY <1>3 DEF NextDevice, SendMarker, Send
  <2>2. Len(discovered) \in Nat /\ Len(discovered) <= MaxDevices /\ MaxDevices \in Nat
    <3>1. discovered \in Seq({<<>>} \cup BitString(IdBits))
      BY DEF Sound, Types
    <3> QED BY <3>1, Sizes DEF Sound, Types
  <2>3. ~(Len(discovered) < MaxDevices) => Len(discovered) = MaxDevices
    BY ONLY <2>2
  <2> QED BY <2>1, <2>3, Zenon
<1>4. CASE StartBit
  <2>1. pc = "start bit" /\ todo = <<>>
        /\ (pc' = "next device" \/ (pc' = "manufacturer" /\ got = <<1>>))
    BY <1>4 DEF StartBit, At, Discover, SendMarker, Send
  <2>2. got = <<1>> => setup.tdo # "0"
    <3>1. StuckBits(got)
      BY <2>1 DEF Stuck, Enumerating
    <3>2. Len(got) = 1
      BY <2>1, BitsInHand
    <3>3. 1 \in 1 .. Len(got)
      BY <3>2
    <3> QED BY <3>1, <3>3 DEF StuckBits
  <2> QED BY <2>1, <2>2
<1>5. CASE ManufacturerCode
  <2>1. /\ pc = "manufacturer" /\ todo = <<>>
        /\ pc' = "rest" \/ (pc' = "enumerated" /\ got = DoneCode)
    BY <1>5 DEF ManufacturerCode, At, SendMarker, Send
  <2>2. setup.tdo # "0" /\ StuckBits(got)
    BY <2>1 DEF Stuck, Enumerating
  <2>3. got # DoneCode
    <3>1. Len(got) = ManufBits
      BY <2>1, BitsInHand
    <3>2. ManufBits \in 1 .. Len(got)
      BY <3>1, DoneBits
    <3>3. got[ManufBits] = 1
      BY <2>2, <3>2 DEF StuckBits
    <3> QED BY <3>3, DoneBits
  <2> QED BY <2>1, <2>2, <2>3
<1>6. CASE ResetTap \/ RestOfIdCode \/ Start
  BY <1>6 DEF ResetTap, RestOfIdCode, Discover, Start, Send
<1>7. CASE ~(ResetTap \/ NextDevice \/ StartBit \/ ManufacturerCode \/ RestOfIdCode \/ Start)
  BY <1>7, SilentElsewhere
<1> QED BY <1>3, <1>4, <1>5, <1>6, <1>7

(* Once the enumeration is believed, it is right.                          *)
Believed == pc \in {"configure", "identify", "idcode", "serving"} \/ InCall

(* What has been found when the search ends is the chain,                  *)
LEMMA ChainKnownSilent ==
    ASSUME Sound, TapeInv, Stuck, ChainKnown, Silent, ~CatchErrors
    PROVE  ChainKnown'
<1>1. UNCHANGED setup /\ setup \in Setups
  BY SilentIsSilent DEF Sound, Scripted, Base
<1>2. CASE Enumerated
  <2>1. /\ pc = "enumerated" /\ UNCHANGED discovered
        /\ pc' = "configure" => Len(discovered) \in 1 .. MaxDevices - 1
        /\ pc' \in {"configure", "exit"}
    BY <1>2 DEF Enumerated, At, Send, Quit
  <2>2. ASSUME pc' = "configure"
        PROVE  setup.tdo = "ok" /\ Found /\ Len(discovered) = Len(setup.chain)
    <3>1. Len(discovered) # MaxDevices
      BY <2>1, <2>2, Sizes
    <3>2. setup.tdo = "ok"
      BY <2>1, <3>1, Chain DEF Stuck
    <3> QED BY <2>1, <3>1, <3>2 DEF TapeInv
  <2>3. pc' = "configure" => Found'
    BY <1>1, <2>1, <2>2 DEF Found
  <2> QED BY <1>1, <2>1, <2>2, <2>3 DEF ChainKnown, InCall
<1>3. CASE ~Enumerated
  <2>1. Believed' => Believed /\ UNCHANGED discovered
    BY <1>3 DEF Silent, ResetTap, NextDevice, StartBit, ManufacturerCode, RestOfIdCode,
       ConfigureChain, JtagGetIdCode, SanityCheck, PollAck, IsStalled, ErrorBit, ReadSpr,
       SprRead, Return, Call, Fail, Start, Send, SendMarker, Discover, At,
       finish_and_leave_a_dbg_nop_cmd_in_place, Believed, InCall
  <2>2. Believed' => Found' /\ setup'.tdo = "ok" /\ Len(discovered') = Len(setup'.chain)
    BY <1>1, <2>1 DEF ChainKnown, Believed, Found
  <2> QED BY <2>2 DEF ChainKnown, Believed
<1> QED BY <1>2, <1>3

(* and it stays so.                                                        *)
LEMMA ChainKnownClock ==
    ASSUME Sound, ChainKnown, Clock
    PROVE  ChainKnown'
<1>1. UNCHANGED <<setup, pc, discovered>>
  BY ClockFacts DEF Sound, Scripted
<1> QED BY <1>1 DEF ChainKnown, Found, InCall

-----------------------------------------------------------------------------
(* The instruction register.                                               *)

(* What the instruction register holds, as the opcode is shifted in.       *)
LEMMA TapeBits ==
    ASSUME NEW opcode \in Seq(Bits), NEW t \in Nat \ {0}
    PROVE  /\ IrTape(opcode, t) \in Bits
           /\ IrTape(opcode, t + 4) = OpcodeBit(opcode, t)
           /\ t = 1 => IrTape(opcode, t) = 1
           /\ t = 2 => IrTape(opcode, t) = 0
           /\ t = 3 => IrTape(opcode, t) = 1
           /\ t = 4 => IrTape(opcode, t) = 0
<1>1. CASE t <= 4
  <2>1. t = 1 \/ t = 2 \/ t = 3 \/ t = 4
    BY <1>1
  <2>2. ~(t + 4 <= 4) /\ (t + 4) - 4 = t
    BY <1>1
  <2> QED BY <1>1, <2>1, <2>2 DEF IrTape, Bits
<1>2. CASE ~(t <= 4)
  <2>1. ~(t + 4 <= 4) /\ (t + 4) - 4 = t /\ t - 4 \in Nat \ {0}
        /\ t # 1 /\ t # 2 /\ t # 3 /\ t # 4
    BY <1>2
  <2>2. OpcodeBit(opcode, t - 4) \in Bits
    BY <2>1, OpcodeBits
  <2> QED BY <1>2, <2>1, <2>2 DEF IrTape
<1> QED BY <1>1, <1>2

(* The instruction register after n shifts                                 *)
LEMMA WindowIs ==
    ASSUME NEW opcode \in Seq(Bits), NEW n \in Nat
    PROVE  /\ Window(opcode, n) \in BitString(IrLength)
           /\ \A j \in 1 .. IrLength : Window(opcode, n)[j] = IrTape(opcode, n + j)
<1>1. \A j \in 1 .. IrLength : n + j \in Nat \ {0}
  BY DEF IrLength
<1>2. \A j \in 1 .. IrLength : IrTape(opcode, n + j) \in Bits
  BY <1>1, TapeBits
<1> QED BY <1>2 DEF Window, BitString

(* and after one more.                                                     *)
LEMMA WindowMoves ==
    ASSUME NEW opcode \in Seq(Bits), NEW n \in Nat
    PROVE  Append(Tail(Window(opcode, n)), OpcodeBit(opcode, n + 1)) = Window(opcode, n + 1)
<1> DEFINE v == Window(opcode, n)
           w == Window(opcode, n + 1)
           b == OpcodeBit(opcode, n + 1)
           a == Append(Tail(v), b)
           L == IrLength
<1>1. /\ v \in BitString(L) /\ \A j \in 1 .. L : v[j] = IrTape(opcode, n + j)
      /\ w \in BitString(L) /\ \A j \in 1 .. L : w[j] = IrTape(opcode, (n + 1) + j)
  <2>1. n + 1 \in Nat
    OBVIOUS
  <2> QED BY <2>1, WindowIs
<1>2. b \in Bits
  <2>1. n + 1 \in Nat \ {0}
    OBVIOUS
  <2> QED BY <2>1, OpcodeBits
<1>3. L \in Nat \ {0} /\ L = 4
  BY DEF IrLength
<1>4. IrTape(opcode, (n + 1) + 4) = b
  <2>1. n + 1 \in Nat \ {0}
    OBVIOUS
  <2> QED BY <2>1, TapeBits
<1> HIDE DEF v, w, b, L
<1>5. a \in BitString(L)
  BY <1>1, <1>2, <1>3, ShiftIn DEF BitString
<1>6. ASSUME NEW j \in 1 .. L PROVE a[j] = w[j]
  <2>1. a[j] = IF j < L THEN v[j + 1] ELSE b
    <3>1. v \in [1 .. L -> Bits] /\ L \in Nat \ {0}
      BY <1>1, <1>3 DEF BitString
    <3> QED BY ONLY <1>2, <3>1, ShiftedAt, j \in 1 .. L DEF a
  <2>2. CASE j < L
    <3>1. j + 1 \in 1 .. L /\ n + (j + 1) = (n + 1) + j
      BY <1>3, <2>2
    <3> HIDE DEF a
    <3> QED BY <1>1, <2>1, <2>2, <3>1
  <2>3. CASE ~(j < L)
    <3>1. j = 4
      BY <1>3, <2>3
    <3> HIDE DEF a
    <3> QED BY <1>1, <1>4, <2>1, <2>3, <3>1
  <2> QED BY <2>2, <2>3
<1> HIDE DEF a
<1>7. a = w
  BY <1>1, <1>3, <1>5, <1>6, SameBits DEF BitString
<1> QED BY <1>7 DEF a, v, b, w

(* The opcodes, bit by bit.                                                *)
LEMMA OpcodeTable ==
    /\ OpcodeBit(Opcode.IDCODE, 1) = 0 /\ OpcodeBit(Opcode.IDCODE, 2) = 1
    /\ OpcodeBit(Opcode.IDCODE, 3) = 0 /\ OpcodeBit(Opcode.IDCODE, 4) = 0
    /\ OpcodeBit(Opcode.DEBUG, 1) = 0 /\ OpcodeBit(Opcode.DEBUG, 2) = 0
    /\ OpcodeBit(Opcode.DEBUG, 3) = 0 /\ OpcodeBit(Opcode.DEBUG, 4) = 1
    /\ \A i \in Nat : i > 4 => OpcodeBit(Opcode.IDCODE, i) = 0
<1>1. Len(<<0, 1, 0, 0>>) = 4 /\ Len(<<0, 0, 0, 1>>) = 4
  OBVIOUS
<1>2. Opcode.IDCODE = <<0, 1, 0, 0>> /\ Opcode.DEBUG = <<0, 0, 0, 1>>
  BY Words
<1>3. \A i \in Nat : OpcodeBit(<<0, 1, 0, 0>>, i) = IF i <= 4 THEN <<0, 1, 0, 0>>[i] ELSE 0
  BY <1>1 DEF OpcodeBit
<1>4. \A i \in Nat : OpcodeBit(<<0, 0, 0, 1>>, i) = IF i <= 4 THEN <<0, 0, 0, 1>>[i] ELSE 0
  BY <1>1 DEF OpcodeBit
<1>5. OpcodeBit(<<0, 1, 0, 0>>, 1) = 0 /\ OpcodeBit(<<0, 1, 0, 0>>, 2) = 1
      /\ OpcodeBit(<<0, 1, 0, 0>>, 3) = 0 /\ OpcodeBit(<<0, 1, 0, 0>>, 4) = 0
  BY <1>3
<1>6. OpcodeBit(<<0, 0, 0, 1>>, 1) = 0 /\ OpcodeBit(<<0, 0, 0, 1>>, 2) = 0
      /\ OpcodeBit(<<0, 0, 0, 1>>, 3) = 0 /\ OpcodeBit(<<0, 0, 0, 1>>, 4) = 1
  BY <1>4
<1>7. \A i \in Nat : i > 4 => OpcodeBit(<<0, 1, 0, 0>>, i) = 0
  BY <1>3
<1> QED BY <1>2, <1>5, <1>6, <1>7

(* Four bits of the instruction, however many are sent.                    *)
LEMMA WindowTable ==
    /\ \A opcode \in Seq(Bits) : Window(opcode, 0) = <<1, 0, 1, 0>>
    /\ \A opcode \in Seq(Bits) : Window(opcode, 4) = Fitted(opcode, IrLength)
    /\ Fitted(Opcode.DEBUG, IrLength) = Opcode.DEBUG
    /\ \A n \in Nat \ {0} :
         /\ Window(Opcode.IDCODE, n) # Opcode.DEBUG
         /\ Window(Opcode.IDCODE, n) = Opcode.IDCODE => n = 1 \/ n = 4
<1>1. 1 \in 1 .. IrLength /\ 2 \in 1 .. IrLength /\ 3 \in 1 .. IrLength /\ 4 \in 1 .. IrLength
  BY DEF IrLength
<1>2. ASSUME NEW opcode, NEW n \in Nat
      PROVE  Window(opcode, n) = <<IrTape(opcode, n + 1), IrTape(opcode, n + 2),
                                   IrTape(opcode, n + 3), IrTape(opcode, n + 4)>>
  BY DEF Window, IrLength
<1>3. \A opcode \in Seq(Bits) : Window(opcode, 0) = <<1, 0, 1, 0>>
  <2> TAKE opcode \in Seq(Bits)
  <2>1. IrTape(opcode, 1) = 1 /\ IrTape(opcode, 2) = 0 /\ IrTape(opcode, 3) = 1
        /\ IrTape(opcode, 4) = 0
    BY TapeBits
  <2>2. 0 \in Nat /\ 0 + 1 = 1 /\ 0 + 2 = 2 /\ 0 + 3 = 3 /\ 0 + 4 = 4
    OBVIOUS
  <2> QED BY <1>2, <2>1, <2>2
<1>4. ASSUME NEW opcode \in Seq(Bits) PROVE Window(opcode, 4) = Fitted(opcode, IrLength)
  <2>1. ASSUME NEW j \in 1 .. IrLength PROVE IrTape(opcode, 4 + j) = OpcodeBit(opcode, j)
    <3>1. j \in Nat \ {0} /\ 4 + j = j + 4
      BY DEF IrLength
    <3> QED BY <3>1, TapeBits
  <2> QED BY <2>1 DEF Window, Fitted, OpcodeBit
<1>6. Fitted(Opcode.DEBUG, IrLength) = Opcode.DEBUG
  <2>1. Fitted(Opcode.DEBUG, IrLength) = <<OpcodeBit(Opcode.DEBUG, 1), OpcodeBit(Opcode.DEBUG, 2),
                                           OpcodeBit(Opcode.DEBUG, 3), OpcodeBit(Opcode.DEBUG, 4)>>
    BY DEF Fitted, OpcodeBit, IrLength
  <2> QED BY <2>1, OpcodeTable, Words
<1>5. ASSUME NEW n \in Nat \ {0}
      PROVE  /\ Window(Opcode.IDCODE, n) # Opcode.DEBUG
             /\ Window(Opcode.IDCODE, n) = Opcode.IDCODE => n = 1 \/ n = 4
  <2> DEFINE T(i) == IrTape(Opcode.IDCODE, i)
  <2>0. Opcode.IDCODE \in Seq(Bits)
    BY Words DEF Bits
  <2>1. Window(Opcode.IDCODE, n) = <<T(n + 1), T(n + 2), T(n + 3), T(n + 4)>>
    BY <1>2
  <2>2. /\ T(2) = 0 /\ T(3) = 1 /\ T(4) = 0
        /\ T(5) = 0 /\ T(6) = 1 /\ T(7) = 0 /\ T(8) = 0
        /\ \A i \in Nat : i > 8 => T(i) = 0
    <3>1. \A t \in Nat \ {0} : T(t + 4) = OpcodeBit(Opcode.IDCODE, t)
      BY <2>0, TapeBits
    <3>2. T(1 + 4) = 0 /\ T(2 + 4) = 1 /\ T(3 + 4) = 0 /\ T(4 + 4) = 0
      BY <3>1, OpcodeTable
    <3>3. T(2) = 0 /\ T(3) = 1 /\ T(4) = 0
      BY <2>0, TapeBits
    <3>4. ASSUME NEW i \in Nat, i > 8 PROVE T(i) = 0
      <4>1. i - 4 \in Nat \ {0} /\ i - 4 > 4 /\ (i - 4) + 4 = i
        BY <3>4
      <4>2. T((i - 4) + 4) = OpcodeBit(Opcode.IDCODE, i - 4)
        BY <3>1, <4>1
      <4>3. OpcodeBit(Opcode.IDCODE, i - 4) = 0
        BY <4>1, OpcodeTable
      <4> QED BY <4>1, <4>2, <4>3
    <3> HIDE DEF T
    <3>5. T(5) = 0 /\ T(6) = 1 /\ T(7) = 0 /\ T(8) = 0
      BY <3>2
    <3> QED BY <3>3, <3>4, <3>5
  <2> HIDE DEF T
  <2>4. ~(T(n + 1) = 0 /\ T(n + 4) = 1)
    <3>1. n = 1 => T(n + 4) = 0
      BY <2>2
    <3>2. n = 2 => T(n + 1) = 1
      BY <2>2
    <3>3. n = 3 => T(n + 4) = 0
      BY <2>2
    <3>4. n = 4 => T(n + 4) = 0
      BY <2>2
    <3>5. n > 4 => T(n + 4) = 0
      BY <2>2
    <3>6. n = 1 \/ n = 2 \/ n = 3 \/ n = 4 \/ n > 4
      OBVIOUS
    <3> QED BY <3>1, <3>2, <3>3, <3>4, <3>5, <3>6
  <2>5. T(n + 1) = 0 /\ T(n + 2) = 1 => n = 1 \/ n = 4
    <3>1. n >= 7 => T(n + 2) = 0
      BY <2>2
    <3>2. n = 2 => T(n + 1) = 1
      BY <2>2
    <3>3. n = 3 => T(n + 2) = 0
      BY <2>2
    <3>4. n = 5 => T(n + 1) = 1
      BY <2>2
    <3>5. n = 6 => T(n + 2) = 0
      BY <2>2
    <3>6. n = 1 \/ n = 2 \/ n = 3 \/ n = 4 \/ n = 5 \/ n = 6 \/ n >= 7
      OBVIOUS
    <3> QED BY <3>1, <3>2, <3>3, <3>4, <3>5, <3>6
  <2> QED BY <2>1, <2>4, <2>5, Words
<1> QED BY OpcodeBits, <1>3, <1>4, <1>5, <1>6

(* The only device, once it is configured.                                 *)
Chosen == pc \in {"identify", "idcode", "serving"} \/ InCall

(* What is known of the one device of a chain that has been found.         *)
LEMMA TheDevice ==
    ASSUME Sound, ChainKnown, Chosen
    PROVE  /\ 1 \in 1 .. Len(setup.chain) /\ Len(devs) = 1 /\ Len(setup.chain) = 1
           /\ setup.tdo = "ok" /\ setup \in Setups /\ IrBits \in Nat
           /\ get_IR_size \in Nat \ {0}
           /\ get_debug_cmd \in Seq(Bits) /\ get_debug_cmd # <<>>
           /\ get_IR_size = IF setup.ir_length # 0 THEN setup.ir_length ELSE IrLength
           /\ Target = Id(setup, 1) /\ Id(setup, 1) # <<>> /\ KnowsTarget
           /\ Id(setup, 1) \in BitString(IdBits) /\ Id(setup, 1)[1] = 1
           /\ Typed(tap, devs[1])
<1>1. IsConfigured /\ setup \in Setups
  BY DEF Chosen, Sound, Scripted, Base, Configured
<1>2. setup.tdo = "ok" /\ Found /\ Len(discovered) = Len(setup.chain)
  BY DEF Chosen, ChainKnown
<1>3. Len(setup.chain) = 1
  BY <1>1, <1>2 DEF IsConfigured
<1>4. devs \in [1 .. Len(setup.chain) -> Device]
      /\ \A i \in 1 .. Len(setup.chain) : Typed(tap, devs[i])
  BY DEF Sound, Types
<1>5. 1 \in 1 .. Len(setup.chain) /\ 1 \in 1 .. Len(discovered)
  BY <1>2, <1>3
<1>6. Len(devs) = 1
  BY <1>3, <1>4, LenProperties
<1>7. Target = Id(setup, 1)
  <2>1. Target = discovered[0 + 1] /\ 0 + 1 = 1
    BY <1>1 DEF Target, IsConfigured
  <2>2. discovered[1] = Id(setup, 1)
    BY <1>2, <1>5 DEF Found
  <2> QED BY <2>1, <2>2
<1>8. KnowsTarget /\ Id(setup, 1) # <<>>
  BY <1>1, <1>7 DEF IsConfigured, KnowsTarget
<1>9. get_IR_size = IF setup.ir_length # 0 THEN setup.ir_length ELSE IrLength
  BY <1>8 DEF get_IR_size
<1>10. Id(setup, 1) \in BitString(IdBits) /\ Id(setup, 1)[1] = 1
  BY <1>1, <1>5, <1>8, Chain
<1>11. IrBits \in Nat
  BY <1>1 DEF IrBits, IsConfigured
<1> QED BY <1>1, <1>2, <1>3, <1>4, <1>5, <1>6, <1>7, <1>8, <1>9, <1>10, <1>11
        DEF IsConfigured

(* What a clock does to it.                                                *)
LEMMA FirstClock ==
    ASSUME Sound, ChainKnown, Chosen, Clock
    PROVE  LET d == devs[1]  e == devs'[1]  b == Head(todo).tdi
           IN  /\ ~Resets /\ b \in Bits
               /\ pc # "serving" => b = TdiOf(pc, IrBits, call, Len(todo))
               /\ tap \notin {"test_logic_reset", "update_ir"} => e.instruction = d.instruction
               /\ tap = "update_ir" => e.instruction = d.ir
               /\ tap = "capture_ir" => e.ir = <<1, 0, 1, 0>>
               /\ tap = "shift_ir" => e.ir = Append(Tail(d.ir), b)
               /\ tap \notin {"test_logic_reset", "capture_ir", "shift_ir"} => e.ir = d.ir
               /\ tap = "capture_dr" /\ ~Debugging(d) => e.dr = do_capture_dr(setup.chain[1], d)
               /\ tap = "shift_dr" /\ ~Debugging(d) => e.dr = Append(Tail(d.dr), b)
               /\ tap \notin {"test_logic_reset", "capture_dr", "shift_dr"} => e.dr = d.dr
<1> DEFINE d == devs[1]
           e == devs'[1]
           b == Head(todo).tdi
<1>1. 1 \in 1 .. Len(setup.chain) /\ 1 = Len(devs) /\ Typed(tap, d)
  BY TheDevice
<1>2. /\ Head(todo).trst <=> pc = "next device" /\ Len(todo) = 5
      /\ pc \notin Varied => b = TdiOf(pc, IrBits, call, Len(todo))
  BY ClockFacts DEF Sound, Scripted
<1>3. pc # "next device" /\ pc \notin Enumerating
  BY DEF Chosen, InCall, Enumerating
<1>4. ~Resets /\ (pc # "serving" => b = TdiOf(pc, IrBits, call, Len(todo)))
  BY <1>2, <1>3 DEF Resets, Varied
<1>5. TdiAt(1) = b /\ b \in Bits
  <2>1. TdiAt(1) = Head(todo).tdi
    BY <1>1 DEF TdiAt
  <2>2. TdiAt(1) \in Bits
    BY <1>1, TdiIsBit DEF Sound
  <2> QED BY <2>1, <2>2
<1>6. e = tck_posedge(setup.chain[1], d, b)
  <2>1. e = IF Resets THEN reset_sync(setup.chain[1]) ELSE tck_posedge(setup.chain[1], d, TdiAt(1))
    BY <1>1, DeviceClock DEF Sound
  <2> QED BY <1>4, <1>5, <2>1
<1>7. IdCode[setup.chain[1]] = <<>> \/ IdCode[setup.chain[1]] \in BitString(IdBits)
  BY <1>1, Chain DEF Sound, Scripted, Base, Id
<1> HIDE DEF b, d, e
<1>8. /\ tap \notin {"test_logic_reset", "update_ir"} => e.instruction = d.instruction
      /\ tap = "update_ir" => e.instruction = d.ir
      /\ tap = "capture_ir" => e.ir = <<1, 0, 1, 0>>
      /\ tap = "shift_ir" => e.ir = Append(Tail(d.ir), b)
      /\ tap \notin {"test_logic_reset", "capture_ir", "shift_ir"} => e.ir = d.ir
      /\ tap = "capture_dr" /\ ~Debugging(d) => e.dr = do_capture_dr(setup.chain[1], d)
      /\ tap = "shift_dr" /\ ~Debugging(d) => e.dr = Append(Tail(d.dr), b)
      /\ tap \notin {"test_logic_reset", "capture_dr", "shift_dr"} => e.dr = d.dr
  BY ONLY <1>1, <1>5, <1>6, <1>7, PosEdge
<1> QED BY <1>4, <1>5, <1>8 DEF b, d, e

(* Where the TAPs are on the way to the ID code                            *)
LEMMA IdentifyTable ==
    ASSUME NEW l \in Nat \ {0}, NEW r \in Nat \ {0}, NEW t \in WhereIdentify(l, r)
    PROVE  /\ r = 1 => t = "capture_dr"
           /\ r = 2 => t = "select_dr_scan"
           /\ r = 3 => t = "run_test_idle"
           /\ r = 4 => t = "update_ir"
           /\ r = 5 => t = "exit1_ir"
           /\ r \in 6 .. l + 5 => t = "shift_ir"
           /\ r = l + 6 => t = "capture_ir"
BY DEF WhereIdentify

(* and on the way to the last instruction.                                 *)
LEMMA ServingTable ==
    ASSUME NEW l \in Nat \ {0}, NEW r \in Nat \ {0}, NEW t \in WhereServing(l, r)
    PROVE  /\ r = 1 => t = "update_ir"
           /\ r = 2 => t = "exit1_ir"
           /\ r \in 3 .. l + 2 => t = "shift_ir"
           /\ r = l + 3 => t = "capture_ir"
           /\ r # 1 => t # "update_ir"
           /\ t # "test_logic_reset"
BY DEF WhereServing

(* A clock on the way to the ID code,                                      *)
LEMMA IdentifyClock ==
    ASSUME Sound, ChainKnown, IdentifyInv, Clock
    PROVE  IdentifyInv'
<1>1. UNCHANGED <<setup, pc, discovered>>
  BY ClockFacts DEF Sound, Scripted
<1> SUFFICES ASSUME pc = "identify"
             PROVE  IdentifyAt(get_IR_size, Len(todo'), devs'[1])
  BY <1>1, ConfiguredStays DEF IdentifyInv
<1> DEFINE l == get_IR_size
           r == Len(todo)
           k == Len(todo')
           d == devs[1]
           e == devs'[1]
           W(n) == Window(Opcode.IDCODE, n)
<1>2. Chosen /\ IrBits = l
  BY DEF Chosen, IrBits
<1>3. l \in Nat \ {0} /\ r \in Nat \ {0} /\ k = r - 1 /\ r <= l + 9 /\ tap \in WhereIdentify(l, r)
  BY WhereIs, ClockFacts DEF Sound, Scripted
<1>4. IdentifyAt(l, r, d)
  BY DEF IdentifyInv
<1> DEFINE b == Head(todo).tdi
<1>5. /\ tap \notin {"test_logic_reset", "update_ir"} => e.instruction = d.instruction
      /\ tap = "update_ir" => e.instruction = d.ir
      /\ tap = "capture_ir" => e.ir = <<1, 0, 1, 0>>
      /\ tap = "shift_ir" => e.ir = Append(Tail(d.ir), b)
      /\ tap \notin {"test_logic_reset", "capture_ir", "shift_ir"} => e.ir = d.ir
      /\ tap = "capture_dr" /\ ~Debugging(d) => e.dr = do_capture_dr(setup.chain[1], d)
  BY <1>2, FirstClock
<1>6. r \in 6 .. l + 5 => b = OpcodeBit(Opcode.IDCODE, l + 6 - r)
  <2>1. b = TdiOf("identify", l, call, r)
    BY <1>2, FirstClock
  <2> HIDE DEF l, r, b
  <2> QED BY <2>1, TdiTable
<1>7. /\ r = 1 => tap = "capture_dr"
      /\ r = 2 => tap = "select_dr_scan"
      /\ r = 3 => tap = "run_test_idle"
      /\ r = 4 => tap = "update_ir"
      /\ r = 5 => tap = "exit1_ir"
      /\ r \in 6 .. l + 5 => tap = "shift_ir"
      /\ r = l + 6 => tap = "capture_ir"
  <2> HIDE DEF l, r
  <2> QED BY <1>3, IdentifyTable
<1> HIDE DEF l, r, k, d, e, b, W
<1>8. SUFFICES IdentifyAt(l, k, e)
  BY DEF l, k, e
<1>9. W(0) = <<1, 0, 1, 0>> /\ W(l) # Opcode.DEBUG
  BY <1>3, WindowTable, OpcodeBits DEF W
<1>10. /\ r \in 5 .. l + 5 => d.ir = W(l + 5 - r)
       /\ r = 4 => d.ir = W(l)
       /\ r <= 3 => d.instruction = W(l)
  BY <1>4 DEF IdentifyAt, W
<1>11. k \in 5 .. l + 5 => e.ir = W(l + 5 - k)
  <2>1. CASE r = l + 6
    <3>1. l + 5 - k = 0 /\ tap = "capture_ir"
      BY <1>3, <1>7, <2>1
    <3> QED BY <1>5, <1>9, <3>1
  <2>2. CASE r \in 6 .. l + 5
    <3> DEFINE n == l + 5 - r
    <3>1. n \in Nat /\ n + 1 = l + 6 - r /\ n + 1 = l + 5 - k /\ r \in 5 .. l + 5
      BY <1>3, <2>2
    <3>2. d.ir = W(n) /\ e.ir = Append(Tail(d.ir), b) /\ b = OpcodeBit(Opcode.IDCODE, n + 1)
      BY <1>5, <1>6, <1>7, <1>10, <2>2, <3>1
    <3> HIDE DEF n
    <3>3. Append(Tail(W(n)), OpcodeBit(Opcode.IDCODE, n + 1)) = W(n + 1)
      BY <3>1, WindowMoves, OpcodeBits DEF W
    <3> QED BY <3>1, <3>2, <3>3
  <2>3. k \in 5 .. l + 5 => r = l + 6 \/ r \in 6 .. l + 5
    BY <1>3
  <2> QED BY <2>1, <2>2, <2>3
<1>12. k = 4 => e.ir = W(l)
  <2> SUFFICES ASSUME k = 4 PROVE e.ir = W(l)
    OBVIOUS
  <2>1. r = 5 /\ r \in 5 .. l + 5 /\ l + 5 - r = l
    BY <1>3
  <2> QED BY <1>5, <1>7, <1>10, <2>1
<1>13. k <= 3 => e.instruction = W(l)
  <2>1. CASE r = 4
    BY <1>5, <1>7, <1>10, <2>1
  <2>2. CASE r \in {1, 2, 3}
    BY <1>5, <1>7, <1>10, <2>2
  <2>3. k <= 3 => r = 4 \/ r \in {1, 2, 3}
    BY <1>3
  <2> QED BY <2>1, <2>2, <2>3
<1>14. k = 0 /\ e.instruction # Opcode.IDCODE => e.dr = <<0>>
  <2> SUFFICES ASSUME k = 0, e.instruction # Opcode.IDCODE PROVE e.dr = <<0>>
    OBVIOUS
  <2>1. r = 1 /\ r <= 3
    BY <1>3
  <2>2. tap = "capture_dr" /\ e.instruction = d.instruction /\ d.instruction = W(l)
    BY <1>5, <1>7, <1>10, <2>1
  <2>3. ~Debugging(d)
    BY <1>9, <2>2 DEF Debugging
  <2> QED BY <1>5, <2>2, <2>3 DEF do_capture_dr
<1> QED BY <1>11, <1>12, <1>13, <1>14 DEF IdentifyAt, W

(* one that reads a bit of it,                                             *)
LEMMA IdCodeClock ==
    ASSUME Sound, ChainKnown, IdCodeInv, Clock
    PROVE  IdCodeInv'
<1>1. UNCHANGED <<setup, pc, discovered>> /\ todo # <<>>
  BY ClockFacts DEF Sound, Scripted
<1> DEFINE d == devs[1]
           e == devs'[1]
           w == Window(Opcode.IDCODE, get_IR_size)
           Good(i, g, x) == /\ i = w
                            /\ i # Opcode.IDCODE => IF g = <<>> THEN x = <<0>> ELSE g[1] = 0
<1> SUFFICES ASSUME pc = "idcode" PROVE Good(e.instruction, got', e.dr)
  BY <1>1, ConfiguredStays DEF IdCodeInv
<1>2. Chosen /\ Reading
  BY DEF Chosen, Reading
<1>3. Good(d.instruction, got, d.dr)
  BY DEF IdCodeInv
<1>4. tap = "shift_dr"
  BY <1>1, <1>2, ReadingShifts DEF Sound
<1>5. e.instruction = d.instruction
  BY <1>2, <1>4, FirstClock
<1>6. d.instruction # Opcode.DEBUG
  <2>1. get_IR_size \in Nat \ {0}
    BY <1>2, TheDevice
  <2> QED BY <1>3, <2>1, WindowTable
<1>7. got' = Append(got, CableTdo) /\ CableTdo = d.dr[1]
  <2>1. got' = Append(got, CableTdo) /\ CableTdo = Tdo(d) /\ Typed(tap, d)
    BY <1>2, ClockParts, CableBit, TheDevice DEF Sound
  <2>2. ~Debugging(d)
    BY <1>6 DEF Debugging
  <2>3. Tdo(d) = d.dr[1]
    BY <1>4, <2>1, <2>2, TdoIsBit DEF Sound, Types
  <2> QED BY <2>1, <2>3
<1>8. got \in Seq(Bits)
  BY DEF Sound, Types
<1>9. CASE got = <<>>
  <2>1. got' = <<d.dr[1]>>
    BY <1>7, <1>9
  <2>2. got' # <<>> /\ got'[1] = d.dr[1]
    BY <2>1
  <2>3. d.dr = <<0>> => d.dr[1] = 0
    OBVIOUS
  <2> QED BY <1>3, <1>5, <1>9, <2>2, <2>3
<1>10. CASE got # <<>>
  <2>1. 1 \in 1 .. Len(got)
    BY <1>8, <1>10
  <2>2. got'[1] = got[1] /\ Len(got') = Len(got) + 1
    BY <1>7, <1>8, <2>1, Appended
  <2>3. got' # <<>>
    <3>1. Len(got) \in Nat /\ Len(<<>>) = 0
      BY <1>8
    <3> QED BY <2>2, <3>1
  <2> QED BY <1>3, <1>5, <1>10, <2>2, <2>3
<1> QED BY <1>9, <1>10

(* What is sent after the first bits of an opcode.                         *)
LEMMA OpcodeBehind ==
    ASSUME NEW o, NEW l \in Nat, NEW q \in Seq(Packet), q # <<>>, OpcodeAhead(o, l, q)
    PROVE  /\ Len(q) \in 3 .. l + 2 => Head(q).tdi = OpcodeBit(o, l + 3 - Len(q))
           /\ OpcodeAhead(o, l, Tail(q))
<1> DEFINE n == Len(q)
           t == Tail(q)
           Bit(r) == IF r \in 3 .. l + 2 THEN OpcodeBit(o, l + 3 - r) ELSE 0
<1>1. \A i \in 1 .. n : q[i].tdi = Bit(n + 1 - i)
  BY DEF OpcodeAhead
<1>2. n \in Nat \ {0} /\ Len(t) = n - 1 /\ Head(q) = q[1] /\ \A i \in 1 .. n - 1 : t[i] = q[i + 1]
  OBVIOUS
<1> HIDE DEF n, t, Bit
<1>3. Head(q).tdi = Bit(n)
  <2>1. 1 \in 1 .. n /\ n + 1 - 1 = n
    BY <1>2
  <2> QED BY <1>1, <1>2, <2>1
<1>4. ASSUME NEW i \in 1 .. n - 1 PROVE t[i].tdi = Bit((n - 1) + 1 - i)
  <2>1. i + 1 \in 1 .. n /\ n + 1 - (i + 1) = (n - 1) + 1 - i
    BY <1>2
  <2> QED BY <1>1, <1>2, <2>1
<1>5. OpcodeAhead(o, l, t)
  BY <1>2, <1>4 DEF OpcodeAhead, Bit
<1> QED BY <1>3, <1>5 DEF n, t, Bit

(* The opcode that is sent is the one the command line gives, if any.      *)
LEMMA ServingOpcode ==
    ASSUME Sound, ChainKnown, Chosen
    PROVE  get_debug_cmd \in Seq(Bits) /\ Window(get_debug_cmd, IrLength) = Instruction(setup)
<1>1. get_debug_cmd \in Seq(Bits) /\ get_debug_cmd # <<>>
  BY TheDevice
<1>2. Window(get_debug_cmd, IrLength) = Fitted(get_debug_cmd, IrLength)
  BY <1>1, WindowTable DEF IrLength
<1>3. setup.debug_cmd = <<>> => get_debug_cmd = Opcode.DEBUG
  BY <1>1 DEF get_debug_cmd, bsdl_get_debug_cmd
<1>4. setup.debug_cmd # <<>> => get_debug_cmd = setup.debug_cmd
  BY DEF get_debug_cmd
<1> QED BY <1>1, <1>2, <1>3, <1>4, WindowTable DEF Instruction

(* one on the way to the last instruction,                                 *)
LEMMA ServingClock ==
    ASSUME Sound, ChainKnown, ServingInv, Clock, pc = "serving"
    PROVE  ServingInv' /\ (todo' = <<>> => devs'[1].instruction = Instruction(setup))
<1>1. UNCHANGED <<setup, pc, discovered>> /\ todo # <<>> /\ todo' = Tail(todo)
  BY ClockFacts DEF Sound, Scripted
<1> DEFINE l == get_IR_size
           o == get_debug_cmd
           r == Len(todo)
           k == Len(todo')
           d == devs[1]
           e == devs'[1]
           W(n) == Window(o, n)
<1>2. Chosen /\ IrBits = l
  BY DEF Chosen, IrBits
<1>3. l \in Nat \ {0} /\ r \in Nat \ {0} /\ k = r - 1 /\ r <= l + 8 /\ tap \in WhereServing(l, r)
  BY WhereIs, ClockFacts DEF Sound, Scripted
<1>4. ServingAt(o, l, r, d) /\ OpcodeAhead(o, l, todo)
  BY <1>1 DEF ServingInv
<1>0. o \in Seq(Bits) /\ Window(o, IrLength) = Instruction(setup)
  BY <1>2, ServingOpcode
<1> DEFINE b == Head(todo).tdi
<1>5. /\ tap \notin {"test_logic_reset", "update_ir"} => e.instruction = d.instruction
      /\ tap = "update_ir" => e.instruction = d.ir
      /\ tap = "capture_ir" => e.ir = <<1, 0, 1, 0>>
      /\ tap = "shift_ir" => e.ir = Append(Tail(d.ir), b)
      /\ tap \notin {"test_logic_reset", "capture_ir", "shift_ir"} => e.ir = d.ir
  BY <1>2, FirstClock
<1>8. todo \in Seq(Packet) /\ todo' \in Seq(Packet)
  BY ClockFacts DEF Sound, Scripted, OnScript, FollowsScript
<1>6. /\ r \in 3 .. l + 2 => b = OpcodeBit(o, l + 3 - r)
      /\ OpcodeAhead(o, l, todo')
  <2>1. todo # <<>> /\ todo' = Tail(todo) /\ l \in Nat
    BY <1>3 DEF Clock
  <2> HIDE DEF l, o
  <2> QED BY <1>4, <1>8, <2>1, OpcodeBehind
<1>7. /\ r = 1 => tap = "update_ir"
      /\ r = 2 => tap = "exit1_ir"
      /\ r \in 3 .. l + 2 => tap = "shift_ir"
      /\ r = l + 3 => tap = "capture_ir"
      /\ r # 1 => tap # "update_ir"
      /\ tap # "test_logic_reset"
  <2> HIDE DEF l, r
  <2> QED BY <1>3, ServingTable
<1>20. todo' = <<>> => k = 0
  OBVIOUS
<1>21. todo' # <<>> => k # 0
  BY <1>8
<1> HIDE DEF l, o, r, k, d, e, b, W
<1>9. W(0) = <<1, 0, 1, 0>>
  BY <1>0, WindowTable DEF W
<1>10. /\ l = IrLength /\ d.instruction = Opcode.IDCODE
       /\ r \in 2 .. l + 2 => d.ir = W(l + 2 - r)
       /\ r = 1 => d.ir = W(l)
  BY <1>4 DEF ServingAt, W
<1>12. k \in 2 .. l + 2 => e.ir = W(l + 2 - k)
  <2>1. CASE r = l + 3
    <3>1. l + 2 - k = 0 /\ tap = "capture_ir"
      BY <1>3, <1>7, <2>1
    <3> QED BY <1>5, <1>9, <3>1
  <2>2. CASE r \in 3 .. l + 2
    <3> DEFINE n == l + 2 - r
    <3>1. n \in Nat /\ n + 1 = l + 3 - r /\ n + 1 = l + 2 - k /\ r \in 2 .. l + 2
      BY <1>3, <2>2
    <3>2. d.ir = W(n) /\ e.ir = Append(Tail(d.ir), b) /\ b = OpcodeBit(o, n + 1)
      BY <1>5, <1>6, <1>7, <1>10, <2>2, <3>1
    <3> HIDE DEF n
    <3>3. Append(Tail(W(n)), OpcodeBit(o, n + 1)) = W(n + 1)
      BY <1>0, <3>1, WindowMoves DEF W
    <3> QED BY <3>1, <3>2, <3>3
  <2>3. k \in 2 .. l + 2 => r = l + 3 \/ r \in 3 .. l + 2
    BY <1>3
  <2> QED BY <2>1, <2>2, <2>3
<1>13. k = 1 => e.ir = W(l)
  <2> SUFFICES ASSUME k = 1 PROVE e.ir = W(l)
    OBVIOUS
  <2>1. r = 2 /\ r \in 2 .. l + 2 /\ l + 2 - r = l
    BY <1>3
  <2> QED BY <1>5, <1>7, <1>10, <2>1
<1>14. k # 0 => e.instruction = Opcode.IDCODE
  <2>1. k # 0 => r # 1
    BY <1>3
  <2> QED BY <1>5, <1>7, <1>10, <2>1
<1>15. k = 0 => e.instruction = Instruction(setup)
  <2>1. k = 0 => r = 1
    BY <1>3
  <2> QED BY <1>0, <1>5, <1>7, <1>10, <2>1 DEF W
<1>16. k # 0 => ServingAt(o, l, k, e)
  BY <1>10, <1>12, <1>13, <1>14 DEF ServingAt, W
<1>17. l' = l /\ o' = o
  BY <1>1, ConfiguredStays DEF l, o
<1>18. ServingInv'
  BY <1>6, <1>16, <1>17, <1>21 DEF ServingInv, l, o, k, e
<1> QED BY <1>15, <1>18, <1>20 DEF e

(* A call leaves the instruction as it is.                                 *)
LEMMA CallTaps ==
    ASSUME Scripted, InCall, todo # <<>>
    PROVE  tap \in {"run_test_idle", "select_dr_scan", "capture_dr", "shift_dr", "exit1_dr",
                    "update_dr"}
<1> DEFINE r == Len(todo)
           m == Size(call)
<1>1. /\ pc = "command" => tap \in WhereCommand(m, r)
      /\ pc = "finish" => tap \in WhereEnding(r)
      /\ pc \in {"ack", "error", "data"} => tap = "shift_dr"
  BY WhereIs
<1> HIDE DEF r, m
<1>2. \A t \in WhereCommand(m, r) : t \in {"run_test_idle", "select_dr_scan", "capture_dr",
                                           "shift_dr", "exit1_dr", "update_dr"}
  BY DEF WhereCommand
<1>3. \A t \in WhereEnding(r) : t \in {"run_test_idle", "shift_dr", "exit1_dr", "update_dr"}
  BY DEF WhereEnding
<1> QED BY <1>1, <1>2, <1>3 DEF InCall

(* and one after that.                                                     *)
LEMMA SelectedClock ==
    ASSUME Sound, ChainKnown, ServingInv, OpcodeSelected, Clock
    PROVE  OpcodeSelected' /\ ServingInv'
<1>1. UNCHANGED <<setup, pc, discovered>> /\ todo # <<>>
  BY ClockFacts DEF Sound, Scripted
<1>2. CASE pc = "serving"
  <2>1. ServingInv' /\ (todo' = <<>> => devs'[1].instruction = Instruction(setup))
    BY <1>2, ServingClock
  <2>2. ~InCall' /\ (pc' = "serving")
    BY <1>1, <1>2 DEF InCall
  <2>3. OpcodeSelected'
    BY <1>1, <2>1, <2>2 DEF OpcodeSelected
  <2> QED BY <2>1, <2>3
<1>3. CASE InCall
  <2>1. tap \notin {"test_logic_reset", "update_ir"}
    BY <1>1, <1>3, CallTaps DEF Sound
  <2>2. devs'[1].instruction = devs[1].instruction
    BY <1>3, <2>1, FirstClock DEF Chosen
  <2>3. devs'[1].instruction = Instruction(setup)
    BY <1>3, <2>2 DEF OpcodeSelected
  <2>4. pc' # "serving" /\ (InCall' <=> InCall)
    BY <1>1, <1>3 DEF InCall
  <2> QED BY <1>1, <2>3, <2>4 DEF OpcodeSelected, ServingInv
<1>4. CASE pc # "serving" /\ ~InCall
  BY <1>1, <1>4 DEF OpcodeSelected, ServingInv, InCall
<1> QED BY <1>2, <1>3, <1>4

(* What is known of the instruction register, after a clock                *)
LEMMA IrClock ==
    ASSUME Sound, ChainKnown, InstructionInv, Clock
    PROVE  InstructionInv'
BY IdentifyClock, IdCodeClock, SelectedClock DEF InstructionInv

(* The target answers to its instruction of the right length only.         *)
LEMMA RightLength ==
    ASSUME SoundStart, Sound, ChainKnown, IdCodeInv, pc = "idcode", todo = <<>>, got = Target
    PROVE  get_IR_size = IrLength /\ devs[1].instruction = Opcode.IDCODE
<1> DEFINE l == get_IR_size
           d == devs[1]
<1>1. /\ l \in Nat \ {0} /\ setup \in Setups
      /\ l = IF setup.ir_length # 0 THEN setup.ir_length ELSE IrLength
      /\ Target = Id(setup, 1) /\ Id(setup, 1)[1] = 1
  BY TheDevice DEF Chosen
<1>2. got # <<>> /\ got[1] = 1
  <2>1. Len(got) = IdBits /\ IdBits \in Nat \ {0} /\ Len(<<>>) = 0
    BY BitsInHand, Sizes
  <2> QED BY <1>1, <2>1
<1>3. d.instruction = Opcode.IDCODE
  BY <1>2 DEF IdCodeInv
<1>4. Window(Opcode.IDCODE, l) = Opcode.IDCODE
  BY <1>3 DEF IdCodeInv
<1>5. l = 1 \/ l = 4
  BY <1>1, <1>4, WindowTable
<1>6. setup.ir_length # 1
  BY <1>1 DEF SoundStart
<1>7. l # 1
  BY <1>1, <1>6 DEF IrLength
<1> QED BY <1>3, <1>5, <1>7 DEF IrLength

(* and after a step between clocks.                                        *)
LEMMA IrSilent ==
    ASSUME SoundStart, Sound, ChainKnown, InstructionInv, Silent
    PROVE  InstructionInv'
<1>1. UNCHANGED <<setup, devs>> /\ got' = <<>>
  BY SilentIsSilent, SilentReadsNothing
<1>2. CASE ConfigureChain
  <2>1. /\ pc = "configure" /\ UNCHANGED discovered
        /\ \/ pc' = "exit"
           \/ /\ pc' = "identify" /\ get_IR_size # 0
              /\ todo' = SetIr(bsdl_get_idcode_cmd) \o tap_move_from_idle_to_shift_dr
              /\ bsdl_get_idcode_cmd # <<>>
    BY <1>2 DEF ConfigureChain, At, Send
  <2>2. ASSUME pc' = "identify" PROVE IdentifyAt(get_IR_size, Len(todo'), devs[1])
    <3>1. get_IR_size \in Nat \ {0} /\ bsdl_get_idcode_cmd = Opcode.IDCODE
      <4>1. setup.ir_length \in Nat
        BY ChainAssumption DEF Sound, Scripted, Base
      <4> QED BY <2>1, <2>2, <4>1 DEF get_IR_size, IrLength, bsdl_get_idcode_cmd
    <3>2. NoCall \in AnyCall
      BY DEF AnyCall
    <3>3. Len(todo') = get_IR_size + 9
      BY <2>1, <2>2, <3>1, <3>2, IdentifySent
    <3> DEFINE l == get_IR_size
               r == Len(todo')
    <3>4. l \in Nat \ {0} /\ r = l + 9
      BY <3>1, <3>3
    <3> HIDE DEF l, r
    <3>5. ~(r \in 5 .. l + 5) /\ r # 4 /\ ~(r <= 3) /\ r # 0
      BY <3>4
    <3> QED BY <3>5 DEF IdentifyAt, l, r
  <2>3. get_IR_size' = get_IR_size /\ get_debug_cmd' = get_debug_cmd
    BY <1>1, <2>1, ConfiguredStays
  <2> QED BY <1>1, <2>1, <2>2, <2>3
          DEF InstructionInv, IdentifyInv, IdCodeInv, ServingInv, OpcodeSelected, InCall
<1>3. CASE JtagGetIdCode
  <2>1. pc = "identify" /\ todo = <<>> /\ pc' = "idcode" /\ UNCHANGED discovered
    BY <1>3 DEF JtagGetIdCode, At, Send
  <2>2. IdentifyAt(get_IR_size, 0, devs[1])
    <3>1. Len(todo) = 0
      BY <2>1
    <3> QED BY <2>1, <3>1 DEF InstructionInv, IdentifyInv
  <2>3. devs[1].instruction = Window(Opcode.IDCODE, get_IR_size)
        /\ (devs[1].instruction # Opcode.IDCODE => devs[1].dr = <<0>>)
    BY <2>2 DEF IdentifyAt
  <2>4. get_IR_size' = get_IR_size
    BY <1>1, <2>1, ConfiguredStays
  <2> QED BY <1>1, <2>1, <2>3, <2>4
          DEF InstructionInv, IdentifyInv, IdCodeInv, ServingInv, OpcodeSelected, InCall
<1>4. CASE SanityCheck
  <2>1. /\ pc = "idcode" /\ todo = <<>> /\ UNCHANGED discovered
        /\ \/ pc' = "exit"
           \/ /\ pc' = "serving" /\ got = Target
              /\ todo' = tap_move_from_exit_1_to_idle \o SetIr(get_debug_cmd)
    BY <1>4 DEF SanityCheck, At, Send
  <2>2. ASSUME pc' = "serving"
        PROVE  /\ ServingAt(get_debug_cmd, get_IR_size, Len(todo'), devs[1])
               /\ OpcodeAhead(get_debug_cmd, get_IR_size, todo')
               /\ todo' # <<>>
    <3>1. get_IR_size = IrLength /\ devs[1].instruction = Opcode.IDCODE
      BY <2>1, <2>2, RightLength DEF InstructionInv
    <3>2. NoCall \in AnyCall /\ get_IR_size \in Nat \ {0} /\ get_debug_cmd \in Seq(Bits)
      BY <2>1, TheDevice DEF AnyCall, Chosen
    <3>3. Len(todo') = get_IR_size + 8 /\ OpcodeAhead(get_debug_cmd, get_IR_size, todo')
      BY <2>1, <2>2, <3>2, ServingSent
    <3> DEFINE l == get_IR_size
               r == Len(todo')
    <3>4. l \in Nat \ {0} /\ r = l + 8
      BY <3>2, <3>3
    <3>6. todo' # <<>>
      <4>1. Len(<<>>) = 0 /\ r # 0
        <5> HIDE DEF l, r
        <5> QED BY <3>4
      <4> QED BY <4>1
    <3> HIDE DEF l, r
    <3>5. ~(r \in 2 .. l + 2) /\ r # 1
      BY <3>4
    <3>7. ServingAt(get_debug_cmd, l, r, devs[1])
      BY <3>1, <3>5 DEF ServingAt, l
    <3> QED BY <3>3, <3>6, <3>7 DEF l, r
  <2>3. get_IR_size' = get_IR_size /\ get_debug_cmd' = get_debug_cmd
    BY <1>1, <2>1, ConfiguredStays
  <2> QED BY <1>1, <2>1, <2>2, <2>3
          DEF InstructionInv, IdentifyInv, IdCodeInv, ServingInv, OpcodeSelected, InCall
<1>5. CASE ~(ConfigureChain \/ JtagGetIdCode \/ SanityCheck)
  <2>1. /\ pc' # "identify" /\ pc' # "idcode"
        /\ pc' = "serving" => InCall /\ todo' = <<>>
        /\ InCall' => InCall \/ (pc = "serving" /\ todo = <<>>)
    BY <1>5 DEF Silent, ResetTap, NextDevice, StartBit, ManufacturerCode, RestOfIdCode,
       Enumerated, Quit, PollAck, IsStalled, ErrorBit, ReadSpr, SoundStart,
       SprRead, Return, Call, Fail, Start, Send, SendMarker, Discover, At,
       finish_and_leave_a_dbg_nop_cmd_in_place, InCall
  <2> QED BY <1>1, <2>1 DEF InstructionInv, IdentifyInv, IdCodeInv, ServingInv, OpcodeSelected
<1> QED BY <1>2, <1>3, <1>4, <1>5

-----------------------------------------------------------------------------
(* The shift register of the debug submodule.                              *)
ShiftedIn(in, jn, b) ==
    \A i \in 1 .. ShiftRegLen : jn[i] = IF i < ShiftRegLen THEN in[i + 1] ELSE b

(* What a clock does to it.                                                *)
LEMMA InClock ==
    ASSUME Sound, Clock
    PROVE  /\ ~Selected => OnlyUnset(dbg'.in) /\ ~dbg'.busy
           /\ Selected /\ tap = "shift_dr" => ShiftedIn(dbg.in, dbg'.in, Head(todo).tdi)
           /\ Selected /\ tap # "shift_dr" => dbg'.in = dbg.in
<1>1. dbg \in Submodule /\ Head(todo).tdi \in Bits
  BY TdiIsBit DEF Sound, Types
<1>2. CASE ~Selected
  <2>1. dbg' = Reset(dbg)
    BY <1>2, ClockParts
  <2> QED BY <1>1, <1>2, <2>1, ResetIs DEF OnlyUnset
<1>3. CASE Selected /\ tap # "update_dr"
  <2> DEFINE s == step_state_machine_shift(dbg, Head(todo).tdi)
  <2>1. dbg' = step_state_machine_tick(s)
    BY <1>3, ClockParts
  <2>2. /\ s \in Submodule
        /\ tap # "shift_dr" => s.in = dbg.in
        /\ tap = "shift_dr" => ShiftedIn(dbg.in, s.in, Head(todo).tdi)
    BY <1>1, ShiftIs DEF ShiftedIn
  <2> HIDE DEF s
  <2>3. dbg'.in = s.in
    BY <2>1, <2>2, TickIs
  <2> QED BY <1>3, <2>2, <2>3
<1>4. CASE Selected /\ tap = "update_dr"
  <2>1. PICK opcode : \E stalled \in {0, 1} : dbg' = step_state_machine_update(opcode, stalled)
    BY <1>4, ClockParts
  <2>2. PICK stalled \in Bits : dbg' = step_state_machine_update(opcode, stalled)
    BY <2>1 DEF Bits
  <2>3. dbg'.in = dbg.in
    BY <1>1, <2>2, UpdateIs
  <2> QED BY <1>4, <2>3
<1> QED BY <1>2, <1>3, <1>4

(* Its length.                                                             *)
LEMMA RegLength ==
    /\ ShiftRegLen \in Nat /\ ShiftRegLen >= 5
    /\ ShiftRegLen = DataBits + SprBits + 3 /\ DataBits \in Nat \ {0} /\ SprBits \in Nat \ {0}
    /\ \A c \in Calls : Len(CommandBits(c)) \in Nat /\ Len(CommandBits(c)) <= ShiftRegLen
                        /\ Len(CommandBits(c)) >= 3
<1>1. ShiftRegLen = DataBits + SprBits + 3 /\ DataBits \in Nat \ {0} /\ SprBits \in Nat \ {0}
  BY Sizes
<1>2. ShiftRegLen \in Nat /\ ShiftRegLen >= 5
  BY <1>1
<1>3. ASSUME NEW c \in Calls
      PROVE  Len(CommandBits(c)) \in {3, SprBits + 3, DataBits + SprBits + 3}
  <2>1. CASE c.kind = "stalled"
    <3>1. CommandBits(c) = <<1, 0, 0>>
      BY <2>1, CommandIs
    <3> QED BY <3>1
  <2>2. CASE c.kind = "read"
    BY <2>2, CommandIs
  <2>3. CASE c.kind \notin {"stalled", "read"}
    BY <2>3, CommandIs
  <2> QED BY <2>1, <2>2, <2>3
<1>4. ASSUME NEW c \in Calls
      PROVE  Len(CommandBits(c)) \in Nat /\ Len(CommandBits(c)) <= ShiftRegLen
             /\ Len(CommandBits(c)) >= 3
  <2> DEFINE m == Len(CommandBits(c))
  <2>1. m \in {3, SprBits + 3, DataBits + SprBits + 3}
    BY <1>3
  <2> HIDE DEF m
  <2>2. m \in Nat /\ m <= ShiftRegLen /\ m >= 3
    BY ONLY <1>1, <2>1
  <2> QED BY <2>2 DEF m
<1> QED BY <1>1, <1>2, <1>4

(* Each command ends with a zero.                                          *)
LEMMA LastBits ==
    ASSUME NEW c \in Calls
    PROVE  LET m == Len(CommandBits(c))
               op == IF c.kind = "stalled" THEN <<1, 0, 0>>
                     ELSE IF c.kind = "read" THEN <<1, 1, 0>> ELSE <<0, 1, 0>>
           IN  \A i \in 1 .. 3 : CommandBits(c)[m - 3 + i] = op[i]
<1> DEFINE m == Len(CommandBits(c))
           op == IF c.kind = "stalled" THEN <<1, 0, 0>>
                 ELSE IF c.kind = "read" THEN <<1, 1, 0>> ELSE <<0, 1, 0>>
<1> SUFFICES ASSUME NEW i \in 1 .. 3 PROVE CommandBits(c)[m - 3 + i] = op[i]
  OBVIOUS
<1>1. CASE c.kind = "stalled"
  <2>1. CommandBits(c) = <<1, 0, 0>>
    BY <1>1, CommandIs
  <2>2. m = 3
    BY <2>1
  <2> HIDE DEF m
  <2>3. m - 3 + i = i
    BY <2>2
  <2> QED BY <1>1, <2>1, <2>3
<1>2. CASE c.kind = "read"
  <2>1. m = SprBits + 3 /\ CommandBits(c)[SprBits + i] = <<1, 1, 0>>[i]
    BY <1>2, CommandIs
  <2> HIDE DEF m
  <2>2. m - 3 + i = SprBits + i
    BY <2>1, Sizes
  <2> QED BY <1>2, <2>1, <2>2
<1>3. CASE c.kind \notin {"stalled", "read"}
  <2>1. m = DataBits + SprBits + 3 /\ CommandBits(c)[DataBits + SprBits + i] = <<0, 1, 0>>[i]
    BY <1>3, CommandIs
  <2> HIDE DEF m
  <2>2. m - 3 + i = DataBits + SprBits + i
    BY <2>1, Sizes
  <2> QED BY <1>3, <2>1, <2>2
<1> QED BY <1>1, <1>2, <1>3

(* The opcode a call leaves in the register.                               *)
LEMMA HeldOpcode ==
    ASSUME NEW c \in Calls, NEW in, HoldsCall(in, c)
    PROVE  LET op == IF c.kind = "stalled" THEN <<1, 0, 0>>
                     ELSE IF c.kind = "read" THEN <<1, 1, 0>> ELSE <<0, 1, 0>>
           IN  /\ \A i \in 1 .. 3 : in[DataBits + SprBits + i] = op[i]
               /\ in[ShiftRegLen] = 0
<1> DEFINE op == IF c.kind = "stalled" THEN <<1, 0, 0>>
                 ELSE IF c.kind = "read" THEN <<1, 1, 0>> ELSE <<0, 1, 0>>
           m == Len(CommandBits(c))
           L == ShiftRegLen
<1>1. \A j \in 1 .. m : in[L - m + j] = CommandBits(c)[j]
  BY DEF HoldsCall, HoldsFirst
<1>2. m \in Nat /\ m <= L /\ m >= 3 /\ L \in Nat /\ L = DataBits + SprBits + 3
      /\ DataBits \in Nat /\ SprBits \in Nat
  BY RegLength
<1>3. \A i \in 1 .. 3 : CommandBits(c)[m - 3 + i] = op[i]
  BY LastBits
<1>6. op[3] = 0
  OBVIOUS
<1> HIDE DEF m, L, op
<1>4. ASSUME NEW i \in 1 .. 3 PROVE in[DataBits + SprBits + i] = op[i]
  <2>1. m - 3 + i \in 1 .. m /\ L - m + (m - 3 + i) = DataBits + SprBits + i
    BY <1>2
  <2> QED BY <1>1, <1>3, <2>1
<1>5. in[L] = 0
  <2>1. DataBits + SprBits + 3 = L /\ 3 \in 1 .. 3
    BY <1>2
  <2>2. in[DataBits + SprBits + 3] = op[3]
    BY <1>4
  <2> QED BY <1>6, <2>1, <2>2
<1> QED BY <1>4, <1>5 DEF op, L

(* A zero more does no harm.                                               *)
LEMMA HarmlessShift ==
    ASSUME NEW in, NEW jn, NEW c, c \in Calls \/ ~HoldsCall(in, c),
           Unset(in) \/ in[ShiftRegLen] = 0 \/ HoldsCall(in, c), ShiftedIn(in, jn, 0)
    PROVE  Harmless(jn)
<1> DEFINE L == ShiftRegLen
<1>0. L \in Nat /\ L >= 5
  BY RegLength
<1>1. \A i \in 1 .. L : jn[i] = IF i < L THEN in[i + 1] ELSE 0
  BY DEF ShiftedIn
<1>2. CASE Unset(in)
  <2>1. \A i \in 1 .. L : in[i] \in {X, 0} /\ (in[i] = 0 => \A j \in i .. L : in[j] = 0)
    BY <1>2 DEF Unset
  <2> HIDE DEF L
  <2>2. ASSUME NEW i \in 1 .. L
        PROVE  jn[i] \in {X, 0} /\ (jn[i] = 0 => \A j \in i .. L : jn[j] = 0)
    <3>1. CASE i < L
      <4>1. i + 1 \in 1 .. L /\ jn[i] = in[i + 1]
        BY <1>0, <1>1, <3>1
      <4>2. ASSUME jn[i] = 0, NEW j \in i .. L PROVE jn[j] = 0
        <5>1. j \in 1 .. L /\ (j < L => j + 1 \in (i + 1) .. L)
          BY <1>0, <4>1
        <5> QED BY <1>1, <2>1, <4>1, <4>2, <5>1
      <4> QED BY <2>1, <4>1, <4>2
    <3>2. CASE ~(i < L)
      <4>1. jn[i] = 0 /\ \A j \in i .. L : j = i
        BY <1>0, <1>1, <3>2
      <4> QED BY <4>1
    <3> QED BY <3>1, <3>2
  <2> QED BY <2>2 DEF Harmless, Unset, L
<1>3. CASE in[L] = 0
  <2> HIDE DEF L
  <2>1. L - 1 \in 1 .. L /\ L \in 1 .. L /\ (L - 1) + 1 = L /\ L - 1 < L /\ ~(L < L)
    BY <1>0
  <2>2. jn[L - 1] = 0 /\ jn[L] = 0
    BY <1>1, <1>3, <2>1
  <2> QED BY <2>2 DEF Harmless, EndsInZeros, L
<1>4. HoldsCall(in, c) => in[L] = 0
  BY HeldOpcode
<1> QED BY <1>2, <1>3, <1>4

(* A register with nothing in it that could be a command                   *)
LEMMA HarmlessEnds ==
    ASSUME NEW in, Harmless(in)
    PROVE  Unset(in) \/ in[ShiftRegLen] = 0
BY DEF Harmless, EndsInZeros

(* or with nothing in it at all.                                           *)
LEMMA OnlyUnsetIsHarmless ==
    ASSUME NEW in, OnlyUnset(in)
    PROVE  Unset(in) /\ Harmless(in)
<1>1. X # 0
  BY Sizes
<1> QED BY <1>1 DEF OnlyUnset, Unset, Harmless

(* One bit more of a command.                                              *)
LEMMA FirstShift ==
    ASSUME NEW in, NEW jn, NEW bits, NEW n \in Nat, n + 1 <= ShiftRegLen,
           HoldsFirst(in, bits, n), ShiftedIn(in, jn, bits[n + 1])
    PROVE  HoldsFirst(jn, bits, n + 1)
<1> DEFINE L == ShiftRegLen
<1>0. L \in Nat /\ n + 1 <= L
  BY RegLength
<1>1. \A i \in 1 .. L : jn[i] = IF i < L THEN in[i + 1] ELSE bits[n + 1]
  BY DEF ShiftedIn
<1>2. \A j \in 1 .. n : in[L - n + j] = bits[j]
  BY DEF HoldsFirst
<1> HIDE DEF L
<1>3. ASSUME NEW j \in 1 .. n + 1 PROVE jn[L - (n + 1) + j] = bits[j]
  <2>1. CASE j = n + 1
    <3>1. L - (n + 1) + j = L /\ L \in 1 .. L /\ ~(L < L)
      BY <1>0, <2>1
    <3> QED BY <1>1, <2>1, <3>1
  <2>2. CASE j # n + 1
    <3>1. /\ j \in 1 .. n /\ L - (n + 1) + j \in 1 .. L /\ L - (n + 1) + j < L
          /\ (L - (n + 1) + j) + 1 = L - n + j
      BY <1>0, <2>2
    <3> QED BY <1>1, <1>2, <3>1
  <2> QED BY <2>1, <2>2
<1> QED BY <1>3 DEF HoldsFirst, L

(* The target is not debugging yet.                                        *)
LEMMA DormantTarget ==
    Sound /\ InstructionsReset /\ ChainKnown /\ IrInv /\ Dormant => ~Debugging(devs[1])
<1> SUFFICES ASSUME Sound, InstructionsReset, ChainKnown, IrInv, Dormant
             PROVE  ~Debugging(devs[1])
  OBVIOUS
<1>1. CASE IsReset
  <2>1. 1 \in 1 .. Len(setup.chain)
    <3>1. Len(setup.chain) \in Nat \ {0}
      BY Chain DEF Sound, Scripted, Base
    <3> QED BY <3>1
  <2>2. HasFirst(setup, 1, devs[1])
    BY <1>1, <2>1 DEF InstructionsReset
  <2> QED BY <2>2, FirstIsNotDebug
<1>2. CASE pc \in {"identify", "idcode"} /\ ~IsReset
  <2>1. get_IR_size \in Nat \ {0}
    BY <1>2, TheDevice DEF Chosen
  <2>2. devs[1].instruction = Window(Opcode.IDCODE, get_IR_size)
    <3>1. CASE pc = "idcode"
      BY <3>1 DEF IrInv, InstructionInv, IdCodeInv
    <3>2. CASE pc = "identify"
      <4>1. ~(Len(todo) >= 4) /\ Len(todo) \in Nat
        BY <1>2, <3>2, WhereIs, ResetTable DEF Sound, IsReset
      <4>2. Len(todo) <= 3
        BY ONLY <4>1
      <4> QED BY <3>2, <4>2 DEF IrInv, InstructionInv, IdentifyInv, IdentifyAt
    <3> QED BY <1>2, <3>1, <3>2
  <2> QED BY <2>1, <2>2, WindowTable DEF Debugging
<1>3. CASE pc = "serving" /\ todo # <<>>
  <2>1. devs[1].instruction = Opcode.IDCODE
    BY <1>3 DEF IrInv, InstructionInv, ServingInv, ServingAt
  <2> QED BY <2>1, Words DEF Debugging
<1> QED BY <1>1, <1>2, <1>3 DEF Dormant

(* The same of the next state.                                             *)
LEMMA DormantTargetNext ==
    (Sound /\ InstructionsReset /\ ChainKnown /\ IrInv /\ Dormant)' => ~(Debugging(devs[1])')
BY DormantTarget, PTL

(* In a call, it is.                                                       *)
LEMMA CallSelects ==
    ASSUME Sound, ChainKnown, IrInv, Clock, InCall
    PROVE  Selected /\ call \in Calls /\ Head(todo).tdi = TdiOf(pc, IrBits, call, Len(todo))
<1>1. todo # <<>>
  BY ClockFacts DEF Sound, Scripted
<1>2. tap # "test_logic_reset"
  BY <1>1, CallTaps DEF Sound
<1>3. ~Resets /\ Head(todo).tdi = TdiOf(pc, IrBits, call, Len(todo))
  BY FirstClock DEF Chosen, InCall
<1>4. Debugging(devs[1])
  BY DEF IrInv, DebugSelected
<1>5. call \in Calls
  BY DEF Sound, Scripted, Base
<1> QED BY <1>2, <1>3, <1>4, <1>5 DEF Selected

(* Until then, nothing is shifted in.                                      *)
LEMMA DormantClock ==
    ASSUME Sound, InstructionsReset, ChainKnown, IrInv, Clock
    PROVE  /\ Dormant => ~Selected
           /\ Dormant' => ~Selected
<1>1. Dormant => ~Selected
  BY DormantTarget DEF Selected
<1>2. UNCHANGED pc /\ todo # <<>> /\ Len(todo') = Len(todo) - 1 /\ Len(todo) \in Nat \ {0}
  BY ClockFacts DEF Sound, Scripted
<1>3. ASSUME Dormant', ~Dormant PROVE ~Selected
  <2>1. pc = "next device" /\ ResetAt(pc, Len(todo')) /\ ~ResetAt(pc, Len(todo))
    BY <1>2, <1>3, ResetTable DEF Dormant, IsReset, ResetAt
  <2>2. Len(todo') <= 7 /\ ~(Len(todo) <= 7)
    BY <2>1, ResetTable
  <2>3. Len(todo) = 8
    BY ONLY <1>2, <2>2
  <2>4. tap \in WhereReset(8)
    BY <2>1, <2>3, WhereIs DEF Sound
  <2>5. tap = "test_logic_reset"
    BY <2>4 DEF WhereReset, Near
  <2> QED BY <2>5 DEF Selected
<1> QED BY <1>1, <1>3

(* Where a clock of the reset shifts, and of a command.                    *)
LEMMA ShiftingTable ==
    ASSUME NEW r \in Nat \ {0}, NEW m \in Nat \ {0}
    PROVE  /\ r <= 14 /\ "shift_dr" \in WhereReset(r) => r \in {13, 14}
           /\ \A t \in WhereCommand(m, r) : t = "shift_dr" <=> r \in 6 .. m + 5
           /\ \A t \in WhereCommand(m, r) : r <= 5 => t # "shift_dr"
           /\ \A t \in WhereEnding(r) : t = "shift_dr" <=> r >= 3
           /\ \A t \in WhereCommand(m, r) : t = "update_dr" <=> r = 4
           /\ \A t \in WhereEnding(r) : t = "update_dr" <=> r = 1
<1>1. \A t \in WhereCommand(m, r) : /\ t = "shift_dr" <=> r \in 6 .. m + 5
                                    /\ t = "update_dr" <=> r = 4
  BY DEF WhereCommand
<1>2. \A t \in WhereEnding(r) : (t = "shift_dr" <=> r >= 3) /\ (t = "update_dr" <=> r = 1)
  BY DEF WhereEnding
<1>3. ASSUME r <= 14, "shift_dr" \in WhereReset(r) PROVE r \in {13, 14}
  <2>1. r \in 8 .. 12 => r - 8 < 5
    OBVIOUS
  <2>2. ASSUME NEW n, ~(n >= 5) PROVE "shift_dr" \notin Near(n)
    BY <2>2 DEF Near
  <2>3. r >= 8 => WhereReset(r) = Near(r - 8)
    BY DEF WhereReset
  <2>4. ~(r \in 8 .. 12)
    BY <1>3, <2>1, <2>2, <2>3
  <2>5. ~(r \in 1 .. 7)
    BY <1>3 DEF WhereReset
  <2>6. r \in 1 .. 7 \/ r \in 8 .. 12 \/ r \in {13, 14}
    BY <1>3
  <2> QED BY <2>4, <2>5, <2>6
<1>4. r <= 5 => ~(r \in 6 .. m + 5)
  OBVIOUS
<1> QED BY <1>1, <1>2, <1>3, <1>4

(* The command that is being shifted in.                                   *)
CommandAt(c, r, in) ==
    IF r > Size(c) + 5 THEN Harmless(in)
    ELSE IF r > 5 THEN HoldsFirst(in, CommandBits(c), Size(c) + 5 - r)
    ELSE HoldsCall(in, c)

(* A clock shifts in a bit of the command.                                 *)
LEMMA CommandClock ==
    ASSUME Sound, ChainKnown, IrInv, Clock, pc = "command",
           CommandAt(call, Len(todo), dbg.in)
    PROVE  CommandAt(call, Len(todo'), dbg'.in)
<1> DEFINE r == Len(todo)
           k == Len(todo')
           m == Size(call)
           bits == CommandBits(call)
           in == dbg.in
           jn == dbg'.in
<1>1. Selected /\ call \in Calls /\ Head(todo).tdi = TdiOf(pc, IrBits, call, r)
  BY CallSelects DEF InCall
<1>2. k = r - 1 /\ r \in Nat \ {0} /\ r <= m + 8 /\ tap \in WhereCommand(m, r)
  BY WhereIs, ClockFacts DEF Sound, Scripted
<1>3. /\ m \in Nat \ {0} /\ m <= ShiftRegLen /\ m = Len(bits) /\ call # NoCall
      /\ ShiftRegLen \in Nat
  BY <1>1, CommandIs, SizeNat, RegLength DEF AnyCall
<1>4. tap = "shift_dr" <=> r \in 6 .. m + 5
  BY <1>2, <1>3, ShiftingTable
<1>5. r \in 6 .. m + 5 => Head(todo).tdi = bits[m + 6 - r]
  BY <1>1, TdiTable
<1>6. /\ tap = "shift_dr" => ShiftedIn(in, jn, Head(todo).tdi)
      /\ tap # "shift_dr" => jn = in
  BY <1>1, InClock
<1>7. CommandAt(call, r, in) <=>
        IF r > m + 5 THEN Harmless(in)
        ELSE IF r > 5 THEN HoldsFirst(in, bits, m + 5 - r) ELSE HoldsCall(in, call)
  BY DEF CommandAt
<1>8. CommandAt(call, k, jn) <=>
        IF k > m + 5 THEN Harmless(jn)
        ELSE IF k > 5 THEN HoldsFirst(jn, bits, m + 5 - k) ELSE HoldsCall(jn, call)
  BY DEF CommandAt
<1>9. HoldsFirst(jn, bits, m) => HoldsCall(jn, call)
  BY <1>3 DEF HoldsCall
<1>10. HoldsFirst(jn, bits, 0)
  BY DEF HoldsFirst
<1> HIDE DEF r, k, m, bits, in, jn
<1>11. CASE r > m + 6
  <2>1. ~(r \in 6 .. m + 5) /\ r > m + 5 /\ k > m + 5
    BY <1>2, <1>3, <1>11
  <2> QED BY <1>4, <1>6, <1>7, <1>8, <2>1 DEF r, in, k, jn
<1>12. CASE r = m + 6
  <2>1. ~(k > m + 5) /\ k > 5 /\ m + 5 - k = 0
    BY <1>2, <1>3, <1>12
  <2> QED BY <1>8, <1>10, <2>1 DEF k, jn
<1>13. CASE r \in 6 .. m + 5
  <2> DEFINE n == m + 5 - r
  <2>1. n \in Nat /\ n + 1 = m + 6 - r /\ n + 1 <= ShiftRegLen /\ n + 1 = m + 5 - k
        /\ r > 5 /\ ~(r > m + 5) /\ ~(k > m + 5) /\ (~(k > 5) => n + 1 = m)
    BY <1>2, <1>3, <1>13
  <2>2. HoldsFirst(in, bits, n)
    BY <1>7, <2>1 DEF r, in
  <2>3. ShiftedIn(in, jn, bits[n + 1])
    BY <1>4, <1>5, <1>6, <1>13, <2>1
  <2> HIDE DEF n
  <2>4. HoldsFirst(jn, bits, n + 1)
    BY <2>1, <2>2, <2>3, FirstShift
  <2> QED BY <1>8, <1>9, <2>1, <2>4 DEF k, jn
<1>14. CASE r <= 5
  <2>1. ~(r \in 6 .. m + 5) /\ ~(r > m + 5) /\ ~(r > 5) /\ ~(k > m + 5) /\ ~(k > 5)
    BY <1>2, <1>3, <1>14
  <2> QED BY <1>4, <1>6, <1>7, <1>8, <2>1 DEF r, in, k, jn
<1>15. r > m + 6 \/ r = m + 6 \/ r \in 6 .. m + 5 \/ r <= 5
  BY <1>2, <1>3
<1> QED BY <1>11, <1>12, <1>13, <1>14, <1>15 DEF k, jn

(* The zeros behind the answer.                                            *)
ZerosAt(r, in) == r <= 5 => \A i \in 0 .. 2 : i < 5 - r => in[ShiftRegLen - i] = 0

(* A clock behind the answer shifts in a zero.                             *)
LEMMA ZerosClock ==
    ASSUME Sound, ChainKnown, IrInv, Clock, pc = "finish", ZerosAt(Len(todo), dbg.in)
    PROVE  ZerosAt(Len(todo'), dbg'.in)
<1> DEFINE r == Len(todo)
           k == Len(todo')
           in == dbg.in
           jn == dbg'.in
           L == ShiftRegLen
<1>1. Selected /\ Head(todo).tdi = 0
  <2>1. Selected /\ Head(todo).tdi = TdiOf(pc, IrBits, call, r)
    BY CallSelects DEF InCall
  <2> QED BY <2>1, TdiZero
<1>2. k = r - 1 /\ r \in Nat \ {0} /\ tap \in WhereEnding(r) /\ r <= 5
  <2>1. Clocks("finish", IrBits, Size(call)) = 5
    BY Script DEF IrBits, Sound, Scripted, Base
  <2>2. k = r - 1 /\ r \in Nat \ {0} /\ r <= Clocks(pc, IrBits, Size(call))
    BY ClockFacts DEF Sound, Scripted
  <2>3. tap \in WhereEnding(r)
    BY WhereIs DEF Sound
  <2> QED BY <2>1, <2>2, <2>3
<1>3. tap = "shift_dr" <=> r >= 3
  <2>1. 1 \in Nat \ {0}
    OBVIOUS
  <2> QED BY <1>2, <2>1, ShiftingTable
<1>4. /\ tap = "shift_dr" => \A i \in 1 .. L : jn[i] = IF i < L THEN in[i + 1] ELSE 0
      /\ tap # "shift_dr" => jn = in
  BY <1>1, InClock DEF ShiftedIn
<1>5. L \in Nat /\ L >= 5
  BY RegLength
<1>6. \A i \in 0 .. 2 : i < 5 - r => in[L - i] = 0
  BY <1>2 DEF ZerosAt
<1> HIDE DEF r, k, in, jn, L
<1>7. ASSUME NEW i \in 0 .. 2, i < 5 - k PROVE jn[L - i] = 0
  <2>1. CASE r >= 3
    <3>1. L - i \in 1 .. L /\ (L - i < L <=> i # 0) /\ (i # 0 => L - i + 1 = L - (i - 1))
          /\ (i # 0 => i - 1 \in 0 .. 2 /\ i - 1 < 5 - r)
      BY <1>2, <1>5, <1>7
    <3>2. jn[L - i] = IF L - i < L THEN in[L - i + 1] ELSE 0
      BY <1>3, <1>4, <2>1, <3>1
    <3> QED BY <1>6, <3>1, <3>2
  <2>2. CASE ~(r >= 3)
    <3>1. i < 5 - r
      BY <1>2, <2>2
    <3> QED BY <1>3, <1>4, <1>6, <2>2, <3>1
  <2> QED BY <2>1, <2>2
<1> QED BY <1>7 DEF ZerosAt, k, jn, L

(* What the register holds when the program leaves Shift-DR, and when it   *)
(* comes back to it before it has reset the TAPs.                          *)
ReturnInv ==
    pc = "next device" /\ Len(todo) = 13 /\ tap = "shift_dr" =>
        Unset(dbg.in) \/ dbg.in[ShiftRegLen] = 0
LeavingInv ==
    tap # "shift_dr" \/ pc \notin {"command", "exit", "started", "next device"} =>
        Harmless(dbg.in) \/ HoldsCall(dbg.in, call)
DormantInv ==
    /\ Dormant => OnlyUnset(dbg.in) /\ ~Debugging(devs[1])
    /\ Dormant => ~dbg.busy
    /\ pc = "serving" => Harmless(dbg.in) /\ ~dbg.busy

(* The invariant of the shift register has five parts,                     *)
LEMMA ShiftRegisterIs ==
    ShiftRegister <=>
        /\ DormantInv /\ ReturnInv /\ LeavingInv
        /\ pc = "command" => CommandAt(call, Len(todo), dbg.in)
        /\ pc = "finish" => ZerosAt(Len(todo), dbg.in)
BY DEF ShiftRegister, DormantInv, ReturnInv, LeavingInv, CommandAt, ZerosAt

(* in the next state, too.                                                 *)
LEMMA ShiftRegisterIsNext ==
    ShiftRegister' <=>
        /\ DormantInv' /\ ReturnInv' /\ LeavingInv'
        /\ pc' = "command" => CommandAt(call', Len(todo'), dbg'.in)
        /\ pc' = "finish" => ZerosAt(Len(todo'), dbg'.in)
BY DEF ShiftRegister, DormantInv, ReturnInv, LeavingInv, CommandAt, ZerosAt

(* A clock leaves a submodule that is not selected empty.                  *)
LEMMA DormantInvClock ==
    ASSUME Sound, InstructionsReset, ChainKnown, IrInv, IrInv', DormantInv, Clock, ~CatchErrors
    PROVE  DormantInv'
<1>1. Sound' /\ InstructionsReset' /\ ChainKnown' /\ IrInv'
  <2>0. Next
    BY Zenon DEF Next, ProgramStep
  <2>1. Sound'
    BY <2>0, SoundStep
  <2> QED BY <2>1, InstructionsClock, ChainKnownClock
<1>2. Dormant' => ~(Debugging(devs[1])')
  BY <1>1, DormantTargetNext
<1>3. UNCHANGED pc /\ todo # <<>>
  BY ClockFacts DEF Sound, Scripted
<1>4. ~Selected => OnlyUnset(dbg'.in) /\ ~dbg'.busy
  BY InClock
<1>5. Dormant' => OnlyUnset(dbg'.in) /\ ~dbg'.busy
  BY <1>4, DormantClock
<1>6. pc' = "serving" => Harmless(dbg'.in) /\ ~dbg'.busy
  BY <1>3, <1>4, DormantClock, OnlyUnsetIsHarmless DEF Dormant
<1> QED BY <1>2, <1>5, <1>6 DEF DormantInv

(* Out of Shift-DR: two zeros have been shifted in, or nothing,            *)
LEMMA ReturnClock ==
    ASSUME Sound, ReturnInv, LeavingInv, Clock
    PROVE  ReturnInv'
<1>1. /\ UNCHANGED <<setup, pc, call>> /\ Len(todo') = Len(todo) - 1 /\ Len(todo) \in Nat \ {0}
      /\ Head(todo).trst <=> pc = "next device" /\ Len(todo) = 5
      /\ pc \notin Varied => Head(todo).tdi = TdiOf(pc, IrBits, call, Len(todo))
  BY ClockFacts DEF Sound, Scripted
<1> SUFFICES ASSUME pc = "next device", Len(todo') = 13
             PROVE  Unset(dbg'.in) \/ dbg'.in[ShiftRegLen] = 0
  BY <1>1 DEF ReturnInv
<1>2. CASE ~Selected
  BY <1>2, InClock, OnlyUnsetIsHarmless
<1>3. CASE Selected /\ tap = "shift_dr"
  <2>1. Head(todo).tdi = 0
    BY <1>1, TdiZero, ZenonT(60) DEF Varied, Enumerating
  <2>2. ShiftedIn(dbg.in, dbg'.in, 0)
    BY <1>3, <2>1, InClock
  <2> DEFINE L == ShiftRegLen
  <2>3. L \in Nat /\ L >= 5
    BY RegLength
  <2>4. \A i \in 1 .. L : dbg'.in[i] = IF i < L THEN dbg.in[i + 1] ELSE 0
    BY <2>2 DEF ShiftedIn
  <2> HIDE DEF L
  <2>5. L \in 1 .. L /\ ~(L < L)
    BY ONLY <2>3
  <2>6. dbg'.in[L] = 0
    BY <2>4, <2>5
  <2> QED BY <2>6 DEF L
<1>4. CASE Selected /\ tap # "shift_dr"
  <2>1. dbg'.in = dbg.in
    BY <1>4, InClock
  <2>2. CASE Harmless(dbg.in)
    BY <2>1, <2>2, HarmlessEnds
  <2>3. CASE HoldsCall(dbg.in, call)
    <3>1. call \in Calls
      BY <2>3 DEF Sound, Scripted, Base, AnyCall, HoldsCall
    <3> QED BY <2>1, <2>3, <3>1, HeldOpcode
  <2> QED BY <1>4, <2>2, <2>3 DEF LeavingInv
<1> QED BY <1>2, <1>3, <1>4

(* Two facts of arithmetic.                                                *)
LEMMA SmallNumbers == 1 \in Nat \ {0} /\ 14 # 5
OBVIOUS

(* Where a clock shifts that matters.                                      *)
LEMMA ShiftsWhere ==
    ASSUME Sound, Clock, tap = "shift_dr",
           tap' # "shift_dr" \/ pc \notin {"command", "exit", "started", "next device"}
    PROVE  \/ Dormant
           \/ pc = "command" /\ Len(todo') = 5
           \/ pc = "next device" /\ Len(todo) = 13 /\ Head(todo).tdi = 0
           \/ pc \in {"ack", "error", "data", "finish"} /\ Head(todo).tdi = 0 /\ InCall
<1> DEFINE r == Len(todo)
           k == Len(todo')
           m == Size(call)
<1>1. /\ UNCHANGED <<pc, call>> /\ k = r - 1 /\ r \in Nat \ {0} /\ todo # <<>>
      /\ Head(todo).trst <=> pc = "next device" /\ r = 5
      /\ pc \notin Varied => Head(todo).tdi = TdiOf(pc, IrBits, call, r)
      /\ r <= Clocks(pc, IrBits, m)
      /\ Head(todo).tms = IF r \in HasTms(pc, IrBits, m) THEN 1 ELSE 0
      /\ pc \notin {"started", "enumerated"}
  BY ClockFacts DEF Sound, Scripted
<1>11. k = r - 1 /\ r \in Nat \ {0}
  BY <1>1
<1>2. pc \in Labels
  BY DEF Sound, Scripted, Base
<1>3. IrBits \in Nat /\ call \in AnyCall /\ m \in Nat \ {0}
  BY SizeNat DEF Sound, Scripted, Base, Configured, IsConfigured, IrBits
<1>4. CASE pc \in {"start bit", "manufacturer", "rest", "configure", "identify", "idcode",
                  "serving"}
  BY <1>1, <1>4 DEF Dormant, IsReset, ResetAt
<1>5. CASE pc \in {"ack", "error", "data", "finish"}
  <2>1. Head(todo).tdi = 0
    BY <1>1, <1>5, TdiZero, ZenonT(60) DEF Varied, Enumerating
  <2> QED BY <1>5, <2>1 DEF InCall
<1>6. CASE pc = "exit"
  <2>1. tap \in WhereEnding(r)
    BY <1>1, <1>6, WhereIs DEF Sound
  <2>2. r <= 2
    <3>1. Clocks("exit", IrBits, m) = 2
      BY <1>3, Script
    <3>2. r <= Clocks("exit", IrBits, m)
      BY <1>1, <1>6
    <3> HIDE DEF r, m
    <3> QED BY <3>1, <3>2, Zenon
  <2>3. r >= 3
    <3>1. 1 \in Nat \ {0}
      BY SmallNumbers
    <3>2. tap = "shift_dr"
      OBVIOUS
    <3> HIDE DEF r
    <3>3. tap = "shift_dr" <=> r >= 3
      BY ONLY <1>11, <2>1, <3>1, ShiftingTable
    <3> QED BY ONLY <3>2, <3>3
  <2>4. FALSE
    <3> HIDE DEF r
    <3> QED BY ONLY <1>11, <2>2, <2>3
  <2> QED BY <2>4
<1>9. tap' = IF Resets THEN "test_logic_reset" ELSE After(tap, Head(todo).tms)
  BY TapClock
<1>10. ASSUME Head(todo).tms = 0, ~Resets PROVE tap' = "shift_dr"
  BY <1>9, <1>10, AfterTable
<1>7. CASE pc = "command"
  <2>1. tap \in WhereCommand(m, r) /\ ~Resets
    BY <1>1, <1>7, WhereIs DEF Sound, Resets
  <2>4. HasTms("command", IrBits, m) = {3, 5, 6, m + 8}
    BY <1>3, Script
  <2> HIDE DEF r, m, k
  <2>2. r \in 6 .. m + 5
    BY <1>1, <1>3, <2>1, ShiftingTable
  <2>3. r = 6
    <3>1. Head(todo).tms = IF r \in HasTms("command", IrBits, m) THEN 1 ELSE 0
      BY <1>1, <1>7
    <3>2. Head(todo).tms # 0
      BY <1>7, <1>10, <2>1
    <3>3. r \in HasTms("command", IrBits, m)
      BY <3>1, <3>2
    <3>4. r \in {3, 5, 6, m + 8}
      BY <2>4, <3>3
    <3>5. m \in Nat \ {0}
      BY <1>3
    <3> QED BY ONLY <3>5, <2>2, <3>4
  <2>5. k = 5
    BY ONLY <1>11, <2>3
  <2> QED BY <1>7, <2>5 DEF k
<1>8. CASE pc = "next device"
  <2>1. tap \in WhereReset(r) /\ tap' # "shift_dr"
    BY <1>1, <1>8, WhereIs DEF Sound
  <2>2. Head(todo).tdi = 0
    BY <1>1, <1>8, TdiZero, ZenonT(60) DEF Varied, Enumerating
  <2>5. Clocks("next device", IrBits, m) = 14 /\ HasTms("next device", IrBits, m) = 6 .. 13 \cup {3}
    BY <1>3, Script
  <2>6. ~(r = 14 /\ Resets)
    <3>1. Resets => r = 5
      BY <1>1 DEF Resets
    <3>2. 14 # 5
      BY SmallNumbers
    <3> HIDE DEF r
    <3> QED BY <3>1, <3>2, Zenon
  <2> HIDE DEF r, m
  <2>7. r <= 14
    BY <1>1, <1>8, <2>5
  <2>3. r \in {13, 14}
    BY <1>1, <2>1, <2>7, <1>3, ShiftingTable
  <2>4. r # 14
    <3> SUFFICES ASSUME r = 14 PROVE FALSE
      OBVIOUS
    <3>1. r \notin 6 .. 13 \cup {3}
      BY ONLY r = 14
    <3>2. Head(todo).tms = 0
      BY <1>1, <1>8, <2>5, <3>1
    <3> QED BY <1>10, <2>1, <2>6, <3>2
  <2> QED BY <1>8, <2>2, <2>3, <2>4 DEF r
<1> QED BY <1>1, <1>2, <1>4, <1>5, <1>6, <1>7, <1>8 DEF Labels

(* and what has been shifted in is harmless, or the command of the call.   *)
LEMMA LeavingClock ==
    ASSUME Sound, InstructionsReset, ChainKnown, IrInv, ReturnInv, LeavingInv, Clock,
           pc = "command" => CommandAt(call, Len(todo'), dbg'.in)
    PROVE  LeavingInv'
<1>1. UNCHANGED <<pc, call>> /\ call \in AnyCall /\ (InCall => call \in Calls)
  BY ClockFacts DEF Sound, Scripted, Base
<1> SUFFICES ASSUME tap' # "shift_dr" \/ pc \notin {"command", "exit", "started", "next device"}
             PROVE  Harmless(dbg'.in) \/ HoldsCall(dbg'.in, call)
  BY <1>1 DEF LeavingInv
<1>2. CASE ~Selected
  BY <1>2, InClock, OnlyUnsetIsHarmless
<1>3. CASE Selected /\ tap # "shift_dr"
  <2>1. dbg'.in = dbg.in
    BY <1>3, InClock
  <2> QED BY <1>3, <2>1 DEF LeavingInv
<1>4. CASE Selected /\ tap = "shift_dr"
  <2>1. \/ Dormant
        \/ pc = "command" /\ Len(todo') = 5
        \/ pc = "next device" /\ Len(todo) = 13 /\ Head(todo).tdi = 0
        \/ pc \in {"ack", "error", "data", "finish"} /\ Head(todo).tdi = 0 /\ InCall
    BY <1>4, ShiftsWhere
  <2>2. ~Dormant
    BY <1>4, DormantClock
  <2>3. CASE pc = "command" /\ Len(todo') = 5
    <3>1. CommandAt(call, 5, dbg'.in)
      BY <2>3
    <3>2. Size(call) \in Nat \ {0}
      BY <1>1, SizeNat
    <3>3. ~(5 > Size(call) + 5) /\ ~(5 > 5)
      <4> DEFINE m == Size(call)
      <4>1. m \in Nat \ {0}
        BY <3>2
      <4> HIDE DEF m
      <4>2. ~(5 > m + 5) /\ ~(5 > 5)
        BY ONLY <4>1
      <4> QED BY <4>2 DEF m
    <3> QED BY <3>1, <3>3 DEF CommandAt
  <2>4. CASE pc = "next device" /\ Len(todo) = 13 /\ Head(todo).tdi = 0
    <3>1. Unset(dbg.in) \/ dbg.in[ShiftRegLen] = 0
      BY <1>4, <2>4 DEF ReturnInv
    <3>2. ShiftedIn(dbg.in, dbg'.in, 0)
      BY <1>4, <2>4, InClock
    <3>3. ~HoldsCall(dbg.in, NoCall)
      BY DEF HoldsCall
    <3> QED BY <3>1, <3>2, <3>3, HarmlessShift
  <2>5. CASE pc \in {"ack", "error", "data", "finish"} /\ Head(todo).tdi = 0 /\ InCall
    <3>1. Harmless(dbg.in) \/ HoldsCall(dbg.in, call)
      BY <2>5 DEF LeavingInv
    <3>2. ShiftedIn(dbg.in, dbg'.in, 0)
      BY <1>4, <2>5, InClock
    <3>3. Unset(dbg.in) \/ dbg.in[ShiftRegLen] = 0 \/ HoldsCall(dbg.in, call)
      BY <3>1, HarmlessEnds
    <3>4. call \in Calls \/ ~HoldsCall(dbg.in, call)
      BY <1>1, <2>5
    <3> QED BY <3>2, <3>3, <3>4, HarmlessShift
  <2> QED BY <2>1, <2>2, <2>3, <2>4, <2>5
<1> QED BY <1>2, <1>3, <1>4

(* A clock keeps the invariant of the shift register.                      *)
LEMMA ShiftRegisterClock ==
    ASSUME Sound, InstructionsReset, ChainKnown, IrInv, IrInv', ShiftRegister, Clock, ~CatchErrors
    PROVE  ShiftRegister'
<1>1. /\ DormantInv /\ ReturnInv /\ LeavingInv
      /\ pc = "command" => CommandAt(call, Len(todo), dbg.in)
      /\ pc = "finish" => ZerosAt(Len(todo), dbg.in)
  BY ShiftRegisterIs
<1>2. UNCHANGED <<pc, call>>
  BY ClockFacts DEF Sound, Scripted
<1>3. pc = "command" => CommandAt(call, Len(todo'), dbg'.in)
  BY <1>1, CommandClock
<1>4. pc = "finish" => ZerosAt(Len(todo'), dbg'.in)
  BY <1>1, ZerosClock
<1>5. DormantInv' /\ ReturnInv' /\ LeavingInv'
  BY <1>1, <1>3, DormantInvClock, ReturnClock, LeavingClock
<1>6. /\ pc' = "command" => CommandAt(call', Len(todo'), dbg'.in)
      /\ pc' = "finish" => ZerosAt(Len(todo'), dbg'.in)
  BY <1>2, <1>3, <1>4
<1> QED BY <1>5, <1>6, ShiftRegisterIsNext

(* Where the steps of the program come from.                               *)
LEMMA Arrivals ==
    ASSUME Silent, ~CatchErrors
    PROVE  /\ pc' = "next device" /\ todo' # <<>> => ResetTap
           /\ pc' \in {"start bit", "manufacturer", "rest", "enumerated"} =>
                pc \in {"next device", "start bit", "manufacturer"} /\ todo = <<>>
           /\ pc' = "configure" => pc = "enumerated"
           /\ pc' = "identify" => pc = "configure"
           /\ pc' = "idcode" => pc = "identify"
           /\ pc' = "serving" => (SanityCheck /\ pc = "idcode") \/ Return
           /\ pc' = "command" => \E c \in Calls : Call(c)
           /\ pc' = "ack" => PollAck
           /\ pc' = "error" => ErrorBit
           /\ pc' = "data" => ReadSpr
           /\ pc' = "finish" => IsStalled \/ ReadSpr \/ SprRead
           /\ (\E c \in Calls : Call(c)) \/ call' = call
           /\ pc' \in {"ack", "error", "data", "finish"} => InCall /\ todo = <<>>
<1>1. CASE ResetTap \/ NextDevice \/ StartBit \/ ManufacturerCode \/ RestOfIdCode
           \/ Enumerated \/ ConfigureChain \/ Start
  <2>1. call' = call /\ pc' \in {"next device", "start bit", "manufacturer", "rest", "enumerated",
                                 "configure", "exit", "identify", "started"}
    BY <1>1 DEF ResetTap, NextDevice, StartBit, ManufacturerCode, RestOfIdCode, Enumerated,
       ConfigureChain, Start, Send, SendMarker, Discover, Quit
  <2>2. pc' = "next device" /\ todo' # <<>> => ResetTap
    BY <1>1 DEF NextDevice, StartBit, ManufacturerCode, RestOfIdCode, Enumerated,
       ConfigureChain, Start, Send, SendMarker, Discover, Quit
  <2>3. pc' \in {"start bit", "manufacturer", "rest", "enumerated"} =>
          pc \in {"next device", "start bit", "manufacturer"} /\ todo = <<>>
    BY <1>1 DEF ResetTap, NextDevice, StartBit, ManufacturerCode, RestOfIdCode, Enumerated,
       ConfigureChain, Start, Send, SendMarker, Discover, Quit, At
  <2>4. /\ pc' = "configure" => pc = "enumerated"
        /\ pc' = "identify" => pc = "configure"
    BY <1>1 DEF ResetTap, NextDevice, StartBit, ManufacturerCode, RestOfIdCode, Enumerated,
       ConfigureChain, Start, Send, SendMarker, Discover, Quit, At
  <2> QED BY <2>1, <2>2, <2>3, <2>4
<1>2. CASE JtagGetIdCode \/ SanityCheck \/ Return \/ Fail
  BY <1>2 DEF JtagGetIdCode, SanityCheck, Return, Fail, Send, At
<1>3. CASE PollAck \/ IsStalled \/ ErrorBit \/ ReadSpr \/ SprRead
  <2>1. call' = call /\ pc' \in {"ack", "error", "data", "finish"} /\ InCall /\ todo = <<>>
    BY <1>3 DEF PollAck, IsStalled, ErrorBit, ReadSpr, SprRead, Send, At, InCall,
       finish_and_leave_a_dbg_nop_cmd_in_place
  <2>2. /\ pc' = "ack" => PollAck
        /\ pc' = "error" => ErrorBit
        /\ pc' = "data" => ReadSpr
        /\ pc' = "finish" => IsStalled \/ ReadSpr \/ SprRead
    BY <1>3 DEF PollAck, IsStalled, ErrorBit, ReadSpr, SprRead, Send,
       finish_and_leave_a_dbg_nop_cmd_in_place
  <2> QED BY <2>1, <2>2
<1>4. CASE \E c \in Calls : Call(c)
  <2>1. pc' = "command"
    BY <1>4 DEF Call, Send
  <2> QED BY <1>4, <2>1
<1> QED BY <1>1, <1>2, <1>3, <1>4 DEF Silent

(* So does a step between clocks: the submodule not selected,              *)
LEMMA DormantSilent ==
    ASSUME Sound, InstructionsReset, ChainKnown, IrInv, ShiftRegister, Silent, SoundStart,
           Sound', InstructionsReset', ChainKnown', IrInv',
           pc = "finish" /\ todo = <<>> => ~dbg.busy
    PROVE  DormantInv'
<1>1. UNCHANGED <<tap, devs, dbg>> /\ ~CatchErrors
  BY SilentIsSilent DEF SoundStart
<1>2. DormantInv /\ (pc = "finish" => ZerosAt(Len(todo), dbg.in))
  BY ShiftRegisterIs
<1>3. Dormant' => Dormant
  <2>1. IsReset' => IsReset
    BY ResetStays
  <2>2. pc' = "identify" => Dormant
    BY <1>1, Arrivals DEF Dormant, IsReset, ResetAt
  <2>3. pc' = "idcode" => Dormant
    BY <1>1, Arrivals DEF Dormant
  <2>4. pc' = "serving" /\ todo' # <<>> => Dormant
    BY <1>1, Arrivals DEF Dormant, Return, Send
  <2> QED BY <2>1, <2>2, <2>3, <2>4 DEF Dormant
<1>4. Dormant' => OnlyUnset(dbg.in) /\ ~dbg.busy
  BY <1>2, <1>3 DEF DormantInv
<1>5. Dormant' => ~(Debugging(devs[1])')
  BY DormantTargetNext
<1>6. pc' = "serving" => Harmless(dbg.in) /\ ~dbg.busy
  <2>1. CASE SanityCheck /\ pc = "idcode"
    BY <1>2, <2>1, OnlyUnsetIsHarmless DEF DormantInv, Dormant
  <2>2. CASE Return
    <3>1. pc = "finish" /\ todo = <<>>
      BY <2>2 DEF Return, At
    <3>2. ZerosAt(0, dbg.in)
      BY <1>2, <3>1
    <3>3. 0 <= 5 /\ 0 \in 0 .. 2 /\ 1 \in 0 .. 2 /\ 0 < 5 - 0 /\ 1 < 5 - 0
      OBVIOUS
    <3>4. dbg.in[ShiftRegLen - 0] = 0 /\ dbg.in[ShiftRegLen - 1] = 0
      BY <3>2, <3>3 DEF ZerosAt
    <3>5. ShiftRegLen - 0 = ShiftRegLen
      BY Sizes
    <3>6. Harmless(dbg.in)
      BY <3>4, <3>5 DEF Harmless, EndsInZeros
    <3> QED BY <3>1, <3>6
  <2> QED BY <1>1, <2>1, <2>2, Arrivals
<1> QED BY <1>1, <1>4, <1>5, <1>6 DEF DormantInv

(* out of Shift-DR when the program is started again,                      *)
LEMMA ReturnSilent ==
    ASSUME Silent, ~CatchErrors
    PROVE  ReturnInv'
<1> DEFINE k == Len(todo')
<1>1. pc' = "next device" => k \in {0, 14}
  <2>1. CASE ResetTap
    <3>1. NoCall \in AnyCall /\ 1 \in Nat
      BY DEF AnyCall
    <3>2. k = 14
      BY <2>1, <3>1, ResetSent DEF ResetTap, Send
    <3> QED BY <3>2
  <2>2. CASE pc' = "next device" /\ todo' = <<>>
    BY <2>2
  <2> QED BY <2>1, <2>2, Arrivals
<1> HIDE DEF k
<1>2. 13 \notin {0, 14}
  OBVIOUS
<1> QED BY <1>1, <1>2 DEF ReturnInv, k

(* a command or not,                                                       *)
LEMMA LeavingSilent ==
    ASSUME Sound, ShiftRegister, DormantInv', Silent, ~CatchErrors
    PROVE  LeavingInv'
<1>1. UNCHANGED <<tap, devs, dbg>>
  BY SilentIsSilent
<1>2. /\ DormantInv /\ LeavingInv
      /\ pc = "command" => CommandAt(call, Len(todo), dbg.in)
  BY ShiftRegisterIs
<1> SUFFICES ASSUME tap # "shift_dr" \/ pc' \notin {"command", "exit", "started", "next device"}
             PROVE  Harmless(dbg.in) \/ HoldsCall(dbg.in, call')
  BY <1>1 DEF LeavingInv
<1>3. CASE \E c \in Calls : Call(c)
  <2>1. pc = "serving"
    BY <1>3 DEF Call, At
  <2> QED BY <1>2, <2>1 DEF DormantInv
<1>4. CASE call' = call
  <2>1. CASE tap # "shift_dr"
    BY <1>2, <1>4, <2>1 DEF LeavingInv
  <2>2. CASE pc' \in {"start bit", "manufacturer", "rest", "enumerated", "configure", "identify",
                      "idcode"}
    <3>1. Dormant'
      BY <2>2, ResetTable DEF Dormant, IsReset
    <3> QED BY <1>1, <3>1, OnlyUnsetIsHarmless DEF DormantInv
  <2>3. CASE pc' = "serving"
    BY <1>1, <2>3 DEF DormantInv
  <2>4. CASE pc' \in {"ack", "error", "data", "finish"}
    <3>1. InCall /\ todo = <<>>
      BY <2>4, Arrivals
    <3>2. CASE pc = "command"
      <4>1. CommandAt(call, 0, dbg.in)
        BY <1>2, <3>1, <3>2
      <4>2. Size(call) \in Nat \ {0}
        BY SizeNat DEF Sound, Scripted, Base
      <4> DEFINE m == Size(call)
      <4>3. m \in Nat \ {0}
        BY <4>2
      <4> HIDE DEF m
      <4>4. ~(0 > m + 5) /\ ~(0 > 5)
        BY ONLY <4>3
      <4> QED BY <1>4, <4>1, <4>4 DEF CommandAt, m
    <3>3. CASE pc # "command"
      <4>1. pc \notin {"command", "exit", "started", "next device"}
        BY <3>1, <3>3 DEF InCall
      <4> QED BY <1>2, <1>4, <4>1 DEF LeavingInv
    <3> QED BY <3>2, <3>3
  <2>5. pc' \in Labels
    BY BaseSilent DEF Sound, Scripted, Base
  <2> QED BY <2>1, <2>2, <2>3, <2>4, <2>5 DEF Labels
<1> QED BY <1>3, <1>4, Arrivals

(* all of it;                                                              *)
LEMMA ShiftRegisterSilent ==
    ASSUME Sound, InstructionsReset, ChainKnown, IrInv, ShiftRegister, Silent, SoundStart,
           Sound', InstructionsReset', ChainKnown', IrInv',
           pc = "finish" /\ todo = <<>> => ~dbg.busy
    PROVE  ShiftRegister'
<1>1. DormantInv' /\ ~CatchErrors
  BY DormantSilent DEF SoundStart
<1>2. ReturnInv' /\ LeavingInv'
  BY <1>1, ReturnSilent, LeavingSilent
<1>3. ASSUME pc' = "command" PROVE CommandAt(call', Len(todo'), dbg'.in)
  <2>1. PICK c \in Calls : Call(c)
    BY <1>1, <1>3, Arrivals
  <2>2. call' = c /\ pc = "serving"
    BY <2>1 DEF Call, At
  <2>3. Len(todo') = Size(c) + 8
    <3>1. 1 \in Nat
      OBVIOUS
    <3> QED BY <2>1, <3>1, CommandSent DEF Call, Send
  <2>4. Harmless(dbg'.in)
    <3>1. DormantInv /\ dbg' = dbg
      BY SilentIsSilent, ShiftRegisterIs
    <3> QED BY <2>2, <3>1 DEF DormantInv
  <2>5. Size(c) + 8 > Size(c) + 5
    <3> DEFINE m == Size(c)
    <3>1. m \in Nat
      BY SizeNat DEF AnyCall
    <3> HIDE DEF m
    <3>2. m + 8 > m + 5
      BY ONLY <3>1
    <3> QED BY <3>2 DEF m
  <2> QED BY <2>2, <2>3, <2>4, <2>5 DEF CommandAt
<1>4. ASSUME pc' = "finish" PROVE ZerosAt(Len(todo'), dbg'.in)
  <2>1. Len(todo') = 5
    <3>1. NoCall \in AnyCall /\ 1 \in Nat
      BY DEF AnyCall
    <3>2. todo' = Stream(Zeros(3), TRUE) \o tap_move_from_exit_1_to_idle
      BY <1>1, <1>4, Arrivals DEF IsStalled, ReadSpr, SprRead, Send,
         finish_and_leave_a_dbg_nop_cmd_in_place
    <3> QED BY <3>1, <3>2, ZeroScripts
  <2>2. \A i \in 0 .. 2 : ~(i < 5 - 5)
    OBVIOUS
  <2> QED BY <2>1, <2>2 DEF ZerosAt
<1> QED BY <1>1, <1>2, <1>3, <1>4, ShiftRegisterIsNext

(* so does the CPU;                                                        *)
LEMMA ShiftRegisterAnswers ==
    ASSUME ShiftRegister, CpuAnswers \/ Still, Sound
    PROVE  ShiftRegister'
<1>1. /\ UNCHANGED <<setup, tap, devs, pc, todo, call>>
      /\ dbg'.in = dbg.in /\ dbg'.busy = dbg.busy
  <2>1. CASE CpuAnswers
    <3>1. PICK answer : dbg' = [dbg EXCEPT !.answer = answer]
      BY <2>1 DEF CpuAnswers
    <3>2. dbg \in Submodule
      BY DEF Sound, Types
    <3> QED BY <2>1, <3>1, <3>2 DEF CpuAnswers, program, Submodule
  <2>2. CASE Still
    BY <2>2 DEF Still, program
  <2> QED BY <2>1, <2>2
<1>2. UNCHANGED <<Dormant, Debugging(devs[1])>>
  BY <1>1 DEF Dormant, IsReset, Debugging
<1>3. DormantInv' /\ ReturnInv' /\ LeavingInv'
  BY <1>1, <1>2, ShiftRegisterIs DEF DormantInv, ReturnInv, LeavingInv
<1> QED BY <1>1, <1>3, ShiftRegisterIs, ShiftRegisterIsNext

(* and it holds before the program is started.                             *)
LEMMA ShiftRegisterInit ==
    ASSUME Init
    PROVE  ShiftRegister
<1>1. pc = "exit" /\ tap = "test_logic_reset" /\ dbg.in = [i \in 1 .. ShiftRegLen |-> X]
  BY DEF Init
<1>2. ~Dormant
  BY <1>1, ResetTable DEF Dormant, IsReset
<1>3. Harmless(dbg.in)
  <2>1. OnlyUnset(dbg.in)
    BY <1>1 DEF OnlyUnset
  <2> QED BY <2>1, OnlyUnsetIsHarmless
<1> QED BY <1>1, <1>2, <1>3, ShiftRegisterIs DEF DormantInv, ReturnInv, LeavingInv

-----------------------------------------------------------------------------
(* The command latched.                                                    *)
OpcodeOf(c) ==
    IF c.kind = "stalled" THEN Cmd.IS_CPU_STALLED
    ELSE IF c.kind = "read" THEN Cmd.READ_CPU_SPR ELSE Cmd.WRITE_CPU_SPR

(* The opcodes are different.                                              *)
LEMMA Opcodes ==
    /\ Cmd.NOP = <<0, 0, 0>> /\ Cmd.IS_CPU_STALLED = <<1, 0, 0>>
    /\ Cmd.WRITE_CPU_SPR = <<0, 1, 0>> /\ Cmd.READ_CPU_SPR = <<1, 1, 0>>
    /\ \A a, b, c \in Bits : <<a, b, c>> \in BitString(3)
    /\ Cmd.IS_CPU_STALLED \notin {Cmd.READ_CPU_SPR, Cmd.WRITE_CPU_SPR}
    /\ Cmd.NOP \notin {Cmd.READ_CPU_SPR, Cmd.WRITE_CPU_SPR, Cmd.IS_CPU_STALLED}
    /\ Cmd.READ_CPU_SPR # Cmd.WRITE_CPU_SPR
    /\ \A c : OpcodeOf(c) = IF c.kind = "stalled" THEN <<1, 0, 0>>
                            ELSE IF c.kind = "read" THEN <<1, 1, 0>> ELSE <<0, 1, 0>>
BY DEF Cmd, BitString, OpcodeOf

(* An opcode read from the register: what nobody has set reads as anything. *)
Read(in, opcode) ==
    /\ opcode \in BitString(3)
    /\ \A i \in 1 .. 3 : in[DataBits + SprBits + i] \in {opcode[i], X}

(* What may be read of bits some of which nobody has set.                  *)
LEMMA ReadsAre ==
    ASSUME NEW in \in [1 .. ShiftRegLen -> Loaded],
           NEW opcode \in Reads(SubSeq(in, DataBits + SprBits + 1, ShiftRegLen))
    PROVE  Read(in, opcode)
<1> DEFINE n == DataBits + SprBits
           L == ShiftRegLen
           s == SubSeq(in, n + 1, n + 3)
<1>1. n \in Nat /\ L \in Nat /\ L = n + 3 /\ 3 \in Nat
  BY Sizes
<1> HIDE DEF n, L
<1>2. s \in [1 .. 3 -> Loaded]
  BY <1>1, PartOf DEF L
<1>3. ASSUME NEW i \in 1 .. 3 PROVE s[i] = in[n + i]
  BY <1>1, PartAt DEF L
<1>4. opcode \in Reads(s)
  BY <1>1 DEF n, L
<1> HIDE DEF s
<1>5. opcode \in [1 .. 3 -> {0, 1}] /\ \A i \in 1 .. 3 : s[i] \in {opcode[i], X}
  BY <1>2, <1>4 DEF Reads
<1> QED BY <1>3, <1>5 DEF Read, BitString, Bits, n

(* Two opcodes of the same bits are one.                                   *)
LEMMA SameOpcode ==
    ASSUME NEW s \in BitString(3), NEW t \in BitString(3), \A i \in 1 .. 3 : s[i] = t[i]
    PROVE  s = t
BY DEF BitString

(* The opcode of a call whose command has been shifted in is that of the   *)
(* call; and of a register left behind, none that the CPU carries out.     *)
LEMMA CallOpcode ==
    ASSUME NEW c \in Calls, NEW in, HoldsCall(in, c), NEW opcode, Read(in, opcode)
    PROVE  opcode = OpcodeOf(c)
<1> DEFINE op == IF c.kind = "stalled" THEN <<1, 0, 0>>
                 ELSE IF c.kind = "read" THEN <<1, 1, 0>> ELSE <<0, 1, 0>>
<1>1. \A i \in 1 .. 3 : in[DataBits + SprBits + i] = op[i]
  BY HeldOpcode
<1>2. op \in BitString(3) /\ OpcodeOf(c) = op
  BY Opcodes DEF Bits
<1> HIDE DEF op
<1>3. ASSUME NEW i \in 1 .. 3 PROVE opcode[i] = op[i]
  <2>1. op[i] \in {opcode[i], X}
    BY <1>1 DEF Read
  <2>2. op[i] # X
    BY <1>2, Sizes DEF BitString, Bits
  <2> QED BY <2>1, <2>2
<1> QED BY <1>2, <1>3, SameOpcode DEF Read

(* If one is read as a command, its SPR number has not been set.           *)
LEMMA HarmlessOpcode ==
    ASSUME NEW in, Harmless(in), NEW opcode, Read(in, opcode),
           opcode \in {Cmd.READ_CPU_SPR, Cmd.WRITE_CPU_SPR}
    PROVE  in[DataBits + 1] = X
<1> DEFINE D == DataBits
           S == SprBits
           L == ShiftRegLen
<1>1. D \in Nat \ {0} /\ S \in Nat \ {0} /\ L \in Nat /\ L = D + S + 3
  BY Sizes
<1>2. opcode[2] = 1 /\ X # 0
  BY Opcodes, Sizes
<1>3. in[D + S + 2] \in {opcode[2], X}
  <2>1. 2 \in 1 .. 3
    OBVIOUS
  <2> QED BY <2>1 DEF Read
<1> HIDE DEF D, S, L
<1>4. in[D + S + 2] # 0
  BY <1>2, <1>3
<1>5. L - 1 = D + S + 2
  BY <1>1
<1>6. ~EndsInZeros(in)
  BY <1>4, <1>5 DEF EndsInZeros, L
<1>7. \A i \in 1 .. L : in[i] \in {X, 0} /\ (in[i] = 0 => \A j \in i .. L : in[j] = 0)
  BY <1>6 DEF Harmless, Unset, L
<1>8. D + 1 \in 1 .. L /\ D + S + 2 \in D + 1 .. L
  BY <1>1
<1>9. in[D + 1] = X
  BY <1>4, <1>7, <1>8
<1> QED BY <1>9 DEF D

(* Two functions with the same values are one.                             *)
LEMMA SameFunction ==
    ASSUME NEW n \in Nat, NEW A, NEW f \in [1 .. n -> A], NEW g \in [1 .. n -> A],
           \A i \in 1 .. n : f[i] = g[i]
    PROVE  f = g
OBVIOUS

(* What is decoded from a call's command is that command.                  *)
LEMMA CallDecoded ==
    ASSUME NEW c \in Calls, dbg \in Submodule, HoldsCall(dbg.in, c), c.kind # "stalled"
    PROVE  Decoded(OpcodeOf(c)) = Promise!Command(c)
<1> DEFINE in == dbg.in
           m == Len(CommandBits(c))
           L == ShiftRegLen
           D == DataBits
           S == SprBits
           d == Decoded(OpcodeOf(c))
<1>1. \A j \in 1 .. m : in[L - m + j] = CommandBits(c)[j]
  BY DEF HoldsCall, HoldsFirst
<1>2. D \in Nat \ {0} /\ S \in Nat \ {0} /\ L \in Nat /\ L = D + S + 3
  BY Sizes
<1>3. /\ d.spr \in [1 .. S -> Loaded] /\ \A i \in 1 .. S : d.spr[i] = in[D + i]
      /\ OpcodeOf(c) # Cmd.READ_CPU_SPR =>
           d.data \in [1 .. D -> Loaded] /\ \A i \in 1 .. D : d.data[i] = in[i]
  BY DecodedIs
<1>4. c.spr \in [1 .. S -> Loaded]
  BY CommandIs DEF BitString, Loaded
<1>5. CASE c.kind = "read"
  <2>1. OpcodeOf(c) = Cmd.READ_CPU_SPR
    BY <1>5 DEF OpcodeOf
  <2>2. d = [kind |-> "read", spr |-> d.spr]
    BY <2>1 DEF Decoded
  <2>3. m = S + 3 /\ \A i \in 1 .. S : CommandBits(c)[i] = c.spr[i]
    BY <1>5, CommandIs
  <2> HIDE DEF in, m, L, D, S, d
  <2>4. ASSUME NEW i \in 1 .. S PROVE d.spr[i] = c.spr[i]
    <3>1. i \in 1 .. m /\ L - m + i = D + i
      BY <1>2, <2>3
    <3> QED BY <1>1, <1>3, <2>3, <3>1
  <2>5. d.spr = c.spr
    BY <1>2, <1>3, <1>4, <2>4, SameFunction
  <2> QED BY <1>5, <2>2, <2>5 DEF Promise!Command, d
<1>6. CASE c.kind # "read"
  <2>1. OpcodeOf(c) = Cmd.WRITE_CPU_SPR /\ OpcodeOf(c) # Cmd.READ_CPU_SPR
    BY <1>6, Opcodes DEF OpcodeOf
  <2>2. d = [kind |-> "write", spr |-> d.spr, data |-> d.data]
    BY <2>1 DEF Decoded
  <2>3. /\ m = D + S + 3 /\ \A i \in 1 .. S : CommandBits(c)[D + i] = c.spr[i]
        /\ \A i \in 1 .. D : CommandBits(c)[i] = c.data[i]
        /\ c.data \in [1 .. D -> Loaded]
    BY <1>6, CommandIs DEF BitString, Loaded
  <2> HIDE DEF in, m, L, D, S, d
  <2>4. ASSUME NEW i \in 1 .. S PROVE d.spr[i] = c.spr[i]
    <3>1. D + i \in 1 .. m /\ L - m + (D + i) = D + i
      BY <1>2, <2>3
    <3> QED BY <1>1, <1>3, <2>3, <3>1
  <2>5. ASSUME NEW i \in 1 .. D PROVE d.data[i] = c.data[i]
    <3>1. i \in 1 .. m /\ L - m + i = i
      BY <1>2, <2>3
    <3> QED BY <1>1, <1>3, <2>1, <2>3, <3>1
  <2>6. d.spr = c.spr
    BY <1>2, <1>3, <1>4, <2>4, SameFunction
  <2>7. d.data = c.data
    BY <1>2, <1>3, <2>1, <2>3, <2>5, SameFunction
  <2> QED BY <1>6, <2>2, <2>6, <2>7 DEF Promise!Command, d
<1> QED BY <1>5, <1>6

(* What Update-DR does.                                                    *)
LEMMA LatchClock ==
    ASSUME Sound, Clock, Selected, tap = "update_dr"
    PROVE  \E opcode : \E stalled \in Bits :
             /\ Read(dbg.in, opcode)
             /\ dbg' = step_state_machine_update(opcode, stalled)
             /\ IF opcode = Cmd.IS_CPU_STALLED
                  THEN Takes([kind |-> "stalled"], [stalled |-> stalled])
                  ELSE UNCHANGED taken
<1>1. PICK opcode \in Reads(SubSeq(dbg.in, DataBits + SprBits + 1, ShiftRegLen)) :
        \E stalled \in {0, 1} :
          /\ dbg' = step_state_machine_update(opcode, stalled)
          /\ IF opcode = Cmd.IS_CPU_STALLED
               THEN Takes([kind |-> "stalled"], [stalled |-> stalled])
               ELSE stalled = 0 /\ UNCHANGED taken
  BY ClockParts
<1>2. PICK stalled \in Bits :
          /\ dbg' = step_state_machine_update(opcode, stalled)
          /\ IF opcode = Cmd.IS_CPU_STALLED
               THEN Takes([kind |-> "stalled"], [stalled |-> stalled])
               ELSE UNCHANGED taken
  BY <1>1 DEF Bits
<1>3. Read(dbg.in, opcode)
  BY ReadsAre DEF Sound, Types, Submodule
<1> QED BY <1>2, <1>3

(* Elsewhere, nothing is latched.                                          *)
LEMMA TickClock ==
    ASSUME Sound, Clock, Selected, tap # "update_dr"
    PROVE  /\ UNCHANGED taken
           /\ dbg'.busy => dbg.busy /\ dbg'.cmd = dbg.cmd
<1>1. dbg \in Submodule /\ Head(todo).tdi \in Bits
  BY TdiIsBit DEF Sound, Types
<1> DEFINE s == step_state_machine_shift(dbg, Head(todo).tdi)
<1>2. dbg' = step_state_machine_tick(s) /\ UNCHANGED taken
  BY ClockParts
<1>3. s \in Submodule /\ s.busy = dbg.busy /\ s.cmd = dbg.cmd
  BY <1>1, ShiftIs
<1> HIDE DEF s
<1>4. dbg'.busy => s.busy /\ dbg'.cmd = s.cmd
  BY <1>2, <1>3, TickIs DEF Submodule
<1> QED BY <1>2, <1>3, <1>4

(* The two halves of NoStrayCommand.                                       *)
CommandOfCall ==
    dbg.busy => \/ call # NoCall /\ dbg.cmd = Promise!Command(call)
                \/ X \in {dbg.cmd.spr[i] : i \in 1 .. SprBits}
Patient == abandoned \in BOOLEAN /\ (abandoned => ~InCall)

(* No command but that of a call, however the program ended.               *)
LEMMA NoStrayClock ==
    ASSUME Sound, ShiftRegister, CommandOfCall, Clock
    PROVE  CommandOfCall'
<1>1. call' = call /\ call \in AnyCall /\ dbg \in Submodule
  BY ClockFacts DEF Sound, Scripted, Base, Types
<1> DEFINE Fits(cmd) == \/ call # NoCall /\ cmd = Promise!Command(call)
                        \/ X \in {cmd.spr[i] : i \in 1 .. SprBits}
<1> SUFFICES ASSUME dbg'.busy PROVE Fits(dbg'.cmd)
  BY <1>1 DEF CommandOfCall, Promise!Command
<1>2. CASE Selected /\ tap # "update_dr"
  <2>1. Fits(dbg.cmd) /\ dbg'.cmd = dbg.cmd
    BY <1>2, TickClock DEF CommandOfCall
  <2> QED BY <2>1
<1>3. CASE Selected /\ tap = "update_dr"
  <2>1. PICK opcode : \E stalled \in Bits :
             /\ Read(dbg.in, opcode)
             /\ dbg' = step_state_machine_update(opcode, stalled)
    BY <1>3, LatchClock
  <2>2. Read(dbg.in, opcode)
    BY <2>1
  <2>3. opcode \in {Cmd.READ_CPU_SPR, Cmd.WRITE_CPU_SPR} /\ dbg'.cmd = Decoded(opcode)
    BY <1>1, <2>1, UpdateIs
  <2>4. CASE HoldsCall(dbg.in, call)
    <3>1. call \in Calls /\ call # NoCall
      BY <1>1, <2>4 DEF AnyCall, HoldsCall
    <3>2. opcode = OpcodeOf(call)
      BY <2>2, <2>4, <3>1, CallOpcode
    <3>3. call.kind # "stalled"
      BY <2>3, <3>2, Opcodes DEF OpcodeOf
    <3>4. dbg'.cmd = Promise!Command(call)
      BY <1>1, <2>3, <2>4, <3>1, <3>2, <3>3, CallDecoded
    <3> QED BY <3>1, <3>4
  <2>5. CASE Harmless(dbg.in)
    <3>1. dbg.in[DataBits + 1] = X
      BY <2>2, <2>3, <2>5, HarmlessOpcode
    <3>2. 1 \in 1 .. SprBits
      BY Sizes
    <3>3. dbg'.cmd.spr[1] = X
      BY <1>1, <2>3, <3>1, <3>2, DecodedIs
    <3> QED BY <3>2, <3>3
  <2>6. Harmless(dbg.in) \/ HoldsCall(dbg.in, call)
    BY <1>3, ShiftRegisterIs DEF LeavingInv
  <2> QED BY <2>4, <2>5, <2>6
<1>4. Selected
  BY InClock
<1> QED BY <1>2, <1>3, <1>4

(* The other steps bring no command, either.                               *)
LEMMA NoStrayElse ==
    ASSUME Sound, ShiftRegister, CommandOfCall, ~CatchErrors,
           Silent \/ CpuAnswers \/ Still
    PROVE  CommandOfCall'
<1>1. CASE dbg'.busy = dbg.busy /\ dbg'.cmd = dbg.cmd /\ call' = call
  BY <1>1 DEF CommandOfCall, Promise!Command
<1>2. CASE CpuAnswers \/ Still
  <2>1. CASE CpuAnswers
    <3>1. PICK answer : dbg' = [dbg EXCEPT !.answer = answer]
      BY <2>1 DEF CpuAnswers
    <3>2. dbg \in Submodule
      BY DEF Sound, Types
    <3>3. dbg'.busy = dbg.busy /\ dbg'.cmd = dbg.cmd
      BY <3>1, <3>2 DEF Submodule
    <3>4. call' = call
      BY <2>1 DEF CpuAnswers, program
    <3> QED BY <1>1, <3>3, <3>4
  <2>2. CASE Still
    BY <1>1, <2>2 DEF Still, program
  <2> QED BY <1>2, <2>1, <2>2
<1>3. CASE Silent
  <2>1. dbg' = dbg
    BY <1>3, SilentIsSilent
  <2>2. CASE \E c \in Calls : Call(c)
    <3>1. pc = "serving"
      BY <2>2 DEF Call, At
    <3>2. ~dbg.busy
      BY <3>1, ShiftRegisterIs DEF DormantInv
    <3> QED BY <2>1, <3>2 DEF CommandOfCall
  <2>3. CASE call' = call
    BY <1>1, <2>1, <2>3
  <2> QED BY <1>3, <2>2, <2>3, Arrivals
<1> QED BY <1>2, <1>3

-----------------------------------------------------------------------------
(* A call.                                                                 *)

(* What a clock in Shift-DR, or elsewhere, does to the answer.             *)
LEMMA TickCall ==
    ASSUME Sound, ChainKnown, IrInv, Clock, InCall, tap # "update_dr"
    PROVE  /\ UNCHANGED <<taken, call>>
           /\ ~dbg.busy =>
                /\ ~dbg'.busy
                /\ tap = "shift_dr" => \A i \in 1 .. 1 + DataBits : dbg'.out[i] = dbg.out[i + 1]
                /\ tap # "shift_dr" => dbg'.out = dbg.out
           /\ dbg.busy /\ dbg.answer = NoCall =>
                /\ dbg'.busy /\ dbg'.answer = NoCall /\ dbg'.cmd = dbg.cmd
                /\ dbg'.out = Zeros(2 + DataBits)
           /\ dbg.busy /\ dbg.answer # NoCall =>
                dbg.answer \in Answer /\ ~dbg'.busy /\ dbg'.out = OutBits(dbg.answer)
<1>1. Selected /\ dbg \in Submodule /\ Head(todo).tdi \in Bits /\ call' = call
  BY CallSelects, TdiIsBit, ClockFacts DEF Sound, Types, Scripted
<1> DEFINE s == step_state_machine_shift(dbg, Head(todo).tdi)
<1>2. dbg' = step_state_machine_tick(s) /\ UNCHANGED taken
  BY <1>1, ClockParts
<1>3. /\ s \in Submodule /\ s.busy = dbg.busy /\ s.cmd = dbg.cmd /\ s.answer = dbg.answer
      /\ tap # "shift_dr" => s = dbg
      /\ tap = "shift_dr" => \A i \in 1 .. 2 + DataBits :
           s.out[i] = IF i < 2 + DataBits THEN dbg.out[i + 1] ELSE 0
  BY <1>1, ShiftIs
<1> HIDE DEF s
<1>4. ASSUME ~dbg.busy
      PROVE  /\ ~dbg'.busy
             /\ tap = "shift_dr" => \A i \in 1 .. 1 + DataBits : dbg'.out[i] = dbg.out[i + 1]
             /\ tap # "shift_dr" => dbg'.out = dbg.out
  <2>1. dbg' = s
    BY <1>2, <1>3, <1>4, TickIs
  <2>2. ASSUME tap = "shift_dr", NEW i \in 1 .. 1 + DataBits PROVE s.out[i] = dbg.out[i + 1]
    <3>1. DataBits \in Nat
      BY Sizes
    <3>2. i \in 1 .. 2 + DataBits /\ i < 2 + DataBits
      BY ONLY <3>1, i \in 1 .. 1 + DataBits
    <3> QED BY <1>3, <2>2, <3>2
  <2> QED BY <1>3, <1>4, <2>1, <2>2
<1>5. ASSUME dbg.busy, dbg.answer = NoCall
      PROVE  /\ dbg'.busy /\ dbg'.answer = NoCall /\ dbg'.cmd = dbg.cmd
             /\ dbg'.out = Zeros(2 + DataBits)
  BY <1>2, <1>3, <1>5, TickIs
<1>6. ASSUME dbg.busy, dbg.answer # NoCall
      PROVE  dbg.answer \in Answer /\ ~dbg'.busy /\ dbg'.out = OutBits(dbg.answer)
  BY <1>2, <1>3, <1>6, TickIs
<1> QED BY <1>1, <1>2, <1>4, <1>5, <1>6

(* What waits for an answer, or has got it.                                *)
LEMMA KeepsLatched ==
    ASSUME Sound, ChainKnown, IrInv, Clock, InCall, tap # "update_dr", NEW a, Latched(a)
    PROVE  Latched(a)'
BY TickCall DEF Latched

(* A clock is a clock nearer to the answer.                                *)
LEMMA StillWaiting ==
    ASSUME Sound, ChainKnown, IrInv, Clock, InCall, tap # "update_dr"
    PROVE  /\ NoAnswerYet => NoAnswerYet'
           /\ AnswerPending => AnswerOut(0)'
<1>1. NoAnswerYet => NoAnswerYet'
  BY TickCall DEF NoAnswerYet
<1>2. ASSUME AnswerPending PROVE AnswerOut(0)'
  <2>0. PICK a \in Answer : a = dbg.answer
    BY <1>2, TickCall DEF AnswerPending
  <2>1. /\ a \in Answer /\ ~dbg'.busy /\ dbg'.out = OutBits(a)
        /\ taken' = <<[cmd |-> Promise!Command(call'), answer |-> a]>>
    BY <1>2, <2>0, TickCall DEF AnswerPending
  <2>2. Latched(a)'
    BY <2>1 DEF Latched
  <2>3. ASSUME NEW j \in 1 .. 2 + DataBits - 0 PROVE dbg'.out[j] = OutBits(a)[0 + j]
    <3>1. 0 + j = j
      OBVIOUS
    <3> QED BY <2>1, <3>1
  <2> QED BY <2>1, <2>2, <2>3 DEF AnswerOut
<1> QED BY <1>1, <1>2

(* The clocks behind Update-DR, and those in which nothing is read.        *)
LEMMA WaitingOn ==
    ASSUME Sound, ChainKnown, IrInv, Clock, InCall, tap \notin {"update_dr", "shift_dr"}, Waiting
    PROVE  Waiting'
<1>1. call' = call /\ (~dbg.busy => dbg'.out = dbg.out)
  BY TickCall
<1>2. CASE call.kind = "stalled"
  <2>1. PICK b \in Bits : Latched([stalled |-> b]) /\ dbg.out[1] = b
    BY <1>2 DEF Waiting
  <2>2. Latched([stalled |-> b])' /\ ~dbg.busy
    BY <2>1, KeepsLatched DEF Latched
  <2>3. dbg'.out[1] = b
    BY <1>1, <2>1, <2>2
  <2> QED BY <1>1, <1>2, <2>2, <2>3 DEF Waiting
<1>3. CASE call.kind # "stalled" /\ AnswerOut(0)
  <2>1. PICK a \in Answer :
          Latched(a) /\ \A j \in 1 .. 2 + DataBits - 0 : dbg.out[j] = OutBits(a)[0 + j]
    BY <1>3 DEF AnswerOut
  <2>2. Latched(a)' /\ ~dbg.busy
    BY <2>1, KeepsLatched DEF Latched
  <2>3. AnswerOut(0)'
    BY <1>1, <2>1, <2>2 DEF AnswerOut
  <2> QED BY <1>1, <1>3, <2>3 DEF Waiting
<1>4. CASE call.kind # "stalled" /\ (NoAnswerYet \/ AnswerPending)
  BY <1>1, <1>4, StillWaiting DEF Waiting
<1> QED BY <1>2, <1>3, <1>4 DEF Waiting

(* What is read in a call is what the submodule shifts out.                *)
LEMMA CallReads ==
    ASSUME Sound, ChainKnown, IrInv, Clock, pc \in {"ack", "error", "data"}
    PROVE  tap = "shift_dr" /\ got' = Append(got, dbg.out[1]) /\ got \in Seq(Bits)
           /\ dbg.out \in BitString(2 + DataBits)
<1>1. InCall /\ Chosen /\ Reading
  BY DEF InCall, Chosen, Reading
<1>2. tap = "shift_dr"
  BY WhereIs DEF Sound
<1>3. setup.tdo = "ok" /\ Typed(tap, devs[1])
  BY <1>1, TheDevice
<1>4. Debugging(devs[1])
  BY <1>1 DEF IrInv, DebugSelected
<1>5. dbg \in Submodule /\ got \in Seq(Bits)
  BY DEF Sound, Types
<1>6. CableTdo = dbg.out[1]
  BY <1>2, <1>3, <1>4, <1>5, TdoIsBit DEF CableTdo
<1> QED BY <1>1, <1>2, <1>5, <1>6, ClockParts DEF Submodule

(* The command of a call that has had none is carried out.                 *)
Performed ==
    taken = <<>> /\ Len(taken') = 1 /\ taken'[1].cmd = Promise!Command(call)

(* The command is latched in one clock of the sequence.                    *)
LEMMA CommandCallClock ==
    ASSUME Sound, ChainKnown, IrInv, ShiftRegister, CallInv, Clock, pc = "command"
    PROVE  /\ IF Len(todo') > 3 THEN taken' = <<>> /\ ~dbg'.busy ELSE Waiting'
           /\ taken' = taken \/ Performed
<1> DEFINE r == Len(todo)
           k == Len(todo')
           m == Size(call)
<1>1. InCall /\ call \in Calls /\ Selected /\ dbg \in Submodule /\ call' = call
  BY CallSelects, ClockFacts DEF InCall, Sound, Types, Scripted
<1>2. k = r - 1 /\ r \in Nat \ {0} /\ tap \in WhereCommand(m, r) /\ m \in Nat \ {0}
  BY WhereIs, ClockFacts DEF Sound, Scripted
<1>3. IF r > 3 THEN taken = <<>> /\ ~dbg.busy ELSE Waiting
  BY DEF CallInv
<1> SUFFICES /\ IF k > 3 THEN taken' = <<>> /\ ~dbg'.busy ELSE Waiting'
             /\ taken' = taken \/ Performed
  OBVIOUS
<1>4. CASE r > 4
  <2> HIDE DEF r, k, m
  <2>1. r > 3 /\ k > 3 /\ r # 4
    BY ONLY <1>2, <1>4
  <2>2. tap # "update_dr"
    BY <1>2, <2>1, ShiftingTable
  <2>3. taken' = taken /\ (~dbg.busy => ~dbg'.busy)
    BY <1>1, <2>2, TickCall
  <2> QED BY <1>3, <2>1, <2>3
<1>5. CASE r = 4
  <2>1. HoldsCall(dbg.in, call)
    <3>1. CommandAt(call, 4, dbg.in)
      BY <1>5, ShiftRegisterIs
    <3> HIDE DEF r, k, m
    <3>2. ~(4 > m + 5) /\ ~(4 > 5)
      BY ONLY <1>2
    <3> QED BY <3>1, <3>2 DEF CommandAt, m
  <2>9. r > 3 /\ ~(k > 3)
    <3> HIDE DEF r, k, m
    <3> QED BY ONLY <1>2, <1>5
  <2>2. tap = "update_dr"
    <3> HIDE DEF r, k, m
    <3> QED BY <1>2, <1>5, ShiftingTable
  <2> HIDE DEF r, k, m
  <2>3. PICK opcode : \E stalled \in Bits :
             /\ Read(dbg.in, opcode)
             /\ dbg' = step_state_machine_update(opcode, stalled)
             /\ IF opcode = Cmd.IS_CPU_STALLED
                  THEN Takes([kind |-> "stalled"], [stalled |-> stalled])
                  ELSE UNCHANGED taken
    BY <1>1, <2>2, LatchClock
  <2>4. PICK b \in Bits :
             /\ Read(dbg.in, opcode)
             /\ dbg' = step_state_machine_update(opcode, b)
             /\ IF opcode = Cmd.IS_CPU_STALLED
                  THEN Takes([kind |-> "stalled"], [stalled |-> b])
                  ELSE UNCHANGED taken
    BY <2>3
  <2>5. opcode = OpcodeOf(call) /\ taken = <<>>
    BY <1>1, <1>3, <2>1, <2>4, <2>9, CallOpcode
  <2>6. CASE call.kind = "stalled"
    <3>1. opcode = Cmd.IS_CPU_STALLED /\ opcode \notin {Cmd.READ_CPU_SPR, Cmd.WRITE_CPU_SPR}
      BY <2>5, <2>6, Opcodes DEF OpcodeOf
    <3>2. ~dbg'.busy /\ dbg'.out[1] = b
      BY <1>1, <2>4, <3>1, UpdateIs
    <3>3. taken' = <<[cmd |-> [kind |-> "stalled"], answer |-> [stalled |-> b]]>>
      BY <1>1, <2>4, <2>5, <3>1 DEF Takes
    <3>4. Promise!Command(call) = [kind |-> "stalled"]
      BY <2>6 DEF Promise!Command
    <3>5. Latched([stalled |-> b])'
      BY <1>1, <3>2, <3>3, <3>4 DEF Latched
    <3>6. Waiting'
      BY <1>1, <2>6, <3>2, <3>5 DEF Waiting
    <3>7. Len(taken') = 1 /\ taken'[1].cmd = Promise!Command(call)
      BY <3>3, <3>4
    <3> QED BY <2>5, <2>9, <3>6, <3>7 DEF Performed
  <2>7. CASE call.kind # "stalled"
    <3>1. opcode # Cmd.IS_CPU_STALLED /\ opcode \in {Cmd.READ_CPU_SPR, Cmd.WRITE_CPU_SPR}
      BY <2>5, <2>7, Opcodes DEF OpcodeOf
    <3>2. /\ dbg'.busy /\ dbg'.cmd = Decoded(opcode) /\ dbg'.answer = NoCall
          /\ dbg'.out = Zeros(2 + DataBits)
      BY <1>1, <2>4, <3>1, UpdateIs
    <3>3. Decoded(opcode) = Promise!Command(call)
      BY <1>1, <2>1, <2>5, <2>7, CallDecoded
    <3>4. taken' = <<>>
      BY <2>4, <2>5, <3>1
    <3>5. NoAnswerYet'
      BY <1>1, <3>2, <3>3, <3>4 DEF NoAnswerYet
    <3>6. Waiting'
      BY <1>1, <2>7, <3>5 DEF Waiting
    <3> QED BY <2>5, <2>9, <3>4, <3>6
  <2> QED BY <2>6, <2>7
<1>6. CASE r < 4
  <2> HIDE DEF r, k, m
  <2>1. ~(r > 3) /\ ~(k > 3) /\ r # 4 /\ r <= 5
    BY ONLY <1>2, <1>6
  <2>2. tap \notin {"update_dr", "shift_dr"}
    BY <1>2, <2>1, ShiftingTable
  <2>3. Waiting' /\ taken' = taken
    BY <1>1, <1>3, <2>1, <2>2, WaitingOn, TickCall
  <2> QED BY <2>1, <2>3
<1>7. r > 4 \/ r = 4 \/ r < 4
  <2> HIDE DEF r, k, m
  <2> QED BY ONLY <1>2
<1> QED BY <1>4, <1>5, <1>6, <1>7

(* The zeros behind the answer make a NOP.                                 *)
LEMMA FinishCallClock ==
    ASSUME Sound, ChainKnown, IrInv, ShiftRegister, CallInv, Clock, pc = "finish"
    PROVE  /\ ~dbg'.busy /\ Len(taken') = 1 /\ taken'[1].cmd = Promise!Command(call)
           /\ kept' = Promise!Result(call, taken'[1].answer) /\ UNCHANGED taken
<1>1. InCall /\ call \in Calls /\ Selected /\ dbg \in Submodule /\ call' = call /\ kept' = kept
  BY CallSelects, ClockFacts DEF InCall, Sound, Types, Scripted
<1>2. /\ ~dbg.busy /\ Len(taken) = 1 /\ taken[1].cmd = Promise!Command(call)
      /\ kept = Promise!Result(call, taken[1].answer)
  BY DEF CallInv
<1>3. CASE tap # "update_dr"
  BY <1>1, <1>2, <1>3, TickCall
<1>4. CASE tap = "update_dr"
  <2> DEFINE r == Len(todo)
  <2>1. r \in Nat \ {0} /\ tap \in WhereEnding(r)
    BY WhereIs, ClockFacts DEF Sound, Scripted
  <2>2. r = 1
    <3>1. 1 \in Nat \ {0}
      BY SmallNumbers
    <3> HIDE DEF r
    <3> QED BY <1>4, <2>1, <3>1, ShiftingTable
  <2>3. ZerosAt(1, dbg.in)
    BY <2>2, ShiftRegisterIs
  <2>4. \A i \in 1 .. 3 : dbg.in[DataBits + SprBits + i] = 0
    <3> DEFINE D == DataBits
               S == SprBits
               L == ShiftRegLen
    <3>1. D \in Nat /\ S \in Nat /\ L = D + S + 3
      BY Sizes
    <3>2. \A i \in 0 .. 2 : i < 4 => dbg.in[L - i] = 0
      BY <2>3 DEF ZerosAt
    <3> HIDE DEF D, S, L
    <3>3. ASSUME NEW i \in 1 .. 3 PROVE dbg.in[D + S + i] = 0
      <4>1. 3 - i \in 0 .. 2 /\ 3 - i < 4 /\ L - (3 - i) = D + S + i
        BY <3>1
      <4> QED BY <3>2, <4>1
    <3> QED BY <3>3 DEF D, S
  <2>5. PICK opcode : \E stalled \in Bits :
             /\ Read(dbg.in, opcode)
             /\ dbg' = step_state_machine_update(opcode, stalled)
             /\ IF opcode = Cmd.IS_CPU_STALLED
                  THEN Takes([kind |-> "stalled"], [stalled |-> stalled])
                  ELSE UNCHANGED taken
    BY <1>1, <1>4, LatchClock
  <2>6. opcode = Cmd.NOP
    <3>1. Cmd.NOP \in BitString(3) /\ \A i \in 1 .. 3 : Cmd.NOP[i] = 0
      BY Opcodes DEF Bits
    <3>2. \A i \in 1 .. 3 : opcode[i] = Cmd.NOP[i]
      BY <2>4, <2>5, <3>1, Sizes DEF Read
    <3> QED BY <2>5, <3>1, <3>2, SameOpcode DEF Read
  <2>7. ~dbg'.busy /\ taken' = taken
    BY <1>1, <2>5, <2>6, UpdateIs, Opcodes
  <2> QED BY <1>1, <1>2, <2>7
<1> QED BY <1>3, <1>4

(* The clock that reads the only bit of a label.                           *)
LEMMA OneBit ==
    ASSUME Sound, ChainKnown, IrInv, Clock, pc \in {"ack", "error"}
    PROVE  todo' = <<>> /\ got'[1] = dbg.out[1]
<1>1. Len(got) + Len(todo) = 1 /\ got \in Seq(Bits) /\ got' = Append(got, dbg.out[1])
      /\ dbg.out \in BitString(2 + DataBits)
  BY CallReads DEF Sound, ReadsAll
<1>2. Len(todo) \in Nat \ {0} /\ Len(todo') = Len(todo) - 1 /\ todo' = Tail(todo)
      /\ todo \in Seq(Packet)
  BY ClockFacts DEF Sound, Scripted, OnScript, FollowsScript
<1>3. Len(got) = 0 /\ Len(todo') = 0
  <2> DEFINE g == Len(got)
             r == Len(todo)
             k == Len(todo')
  <2>1. g \in Nat /\ r \in Nat \ {0} /\ g + r = 1 /\ k = r - 1
    BY <1>1, <1>2
  <2> HIDE DEF g, r, k
  <2>2. g = 0 /\ k = 0
    BY ONLY <2>1
  <2> QED BY <2>2 DEF g, k
<1>4. got = <<>>
  BY <1>1, <1>3, EmptyFacts
<1>5. todo' = <<>>
  <2>1. todo' \in Seq(Packet)
    BY <1>2, EmptyFacts
  <2> QED BY <1>3, <2>1, EmptyFacts
<1>6. got'[1] = dbg.out[1]
  BY <1>1, <1>4
<1> QED BY <1>5, <1>6

(* The bit read is the acknowledge bit, then                               *)
LEMMA AckCallClock ==
    ASSUME Sound, ChainKnown, IrInv, CallInv, Clock, pc = "ack"
    PROVE  /\ todo' = <<>>
           /\ IF call.kind = "stalled" THEN Latched([stalled |-> got[1]])'
              ELSE IF got'[1] = 0 THEN Waiting' ELSE AnswerOut(1)'
<1>1. InCall /\ call' = call /\ todo # <<>> /\ tap = "shift_dr"
  BY CallReads, ClockFacts DEF InCall, Sound, Scripted
<1>2. Waiting /\ todo' = <<>> /\ got'[1] = dbg.out[1]
  BY <1>1, OneBit DEF CallInv
<1>3. tap # "update_dr" /\ DataBits \in Nat
  BY <1>1, Sizes
<1>4. Zeros(2 + DataBits)[1] = 0 /\ 1 \in 1 .. 2 + DataBits
  BY <1>3, ZeroOut
<1>5. CASE call.kind = "stalled"
  <2>1. PICK b \in Bits : Latched([stalled |-> b]) /\ dbg.out[1] = b
    BY <1>2, <1>5 DEF Waiting
  <2>2. Latched([stalled |-> b])'
    BY <1>1, <1>3, <2>1, KeepsLatched
  <2>3. Latched([stalled |-> got[1]])'
    BY <1>2, <2>1, <2>2 DEF Latched
  <2> QED BY <1>2, <1>5, <2>3
<1>6. CASE call.kind # "stalled" /\ (NoAnswerYet \/ AnswerPending)
  <2>1. got'[1] = 0
    BY <1>2, <1>4, <1>6 DEF NoAnswerYet, AnswerPending
  <2>2. Waiting'
    BY <1>1, <1>3, <1>6, StillWaiting DEF Waiting
  <2> QED BY <1>2, <1>6, <2>1, <2>2
<1>7. CASE call.kind # "stalled" /\ AnswerOut(0)
  <2>1. PICK a \in Answer :
          Latched(a) /\ \A j \in 1 .. 2 + DataBits - 0 : dbg.out[j] = OutBits(a)[0 + j]
    BY <1>7 DEF AnswerOut
  <2>2. \A j \in 1 .. 2 + DataBits : dbg.out[j] = OutBits(a)[j]
    <3>1. \A j \in 1 .. 2 + DataBits : j \in 1 .. 2 + DataBits - 0 /\ 0 + j = j
      BY <1>3
    <3> QED BY <2>1, <3>1
  <2>3. got'[1] = 1
    BY <1>2, <1>4, <2>2, OutIs
  <2>4. ASSUME NEW j \in 1 .. 2 + DataBits - 1 PROVE dbg'.out[j] = OutBits(a)[1 + j]
    <3>1. j \in 1 .. 1 + DataBits /\ j + 1 \in 1 .. 2 + DataBits /\ j + 1 = 1 + j
      BY <1>3
    <3>2. ~dbg.busy
      BY <2>1 DEF Latched
    <3>3. dbg'.out[j] = dbg.out[j + 1]
      BY <1>1, <1>3, <3>1, <3>2, TickCall
    <3> QED BY <2>2, <3>1, <3>3
  <2>5. Latched(a)'
    BY <1>1, <1>3, <2>1, KeepsLatched
  <2>6. AnswerOut(1)'
    BY <2>4, <2>5 DEF AnswerOut
  <2> QED BY <1>2, <1>7, <2>3, <2>6
<1> QED BY <1>2, <1>5, <1>6, <1>7 DEF Waiting

(* the error bit,                                                          *)
LEMMA ErrorCallClock ==
    ASSUME Sound, ChainKnown, IrInv, CallInv, Clock, pc = "error"
    PROVE  /\ todo' = <<>>
           /\ (\E a \in Answer : Latched(a) /\ got[1] = a.err /\ (a.err = 0 =>
                  \A j \in 1 .. DataBits : dbg.out[j] = a.data[j]))'
<1>1. InCall /\ todo # <<>> /\ tap = "shift_dr" /\ tap # "update_dr" /\ DataBits \in Nat
  BY CallReads, ClockFacts, Sizes DEF InCall, Sound, Scripted
<1>2. AnswerOut(1) /\ todo' = <<>> /\ got'[1] = dbg.out[1]
  BY <1>1, OneBit DEF CallInv
<1>3. PICK a \in Answer :
        Latched(a) /\ \A j \in 1 .. 2 + DataBits - 1 : dbg.out[j] = OutBits(a)[1 + j]
  BY <1>2 DEF AnswerOut
<1>4. got'[1] = a.err
  <2>1. 1 \in 1 .. 2 + DataBits - 1 /\ 1 + 1 = 2
    BY <1>1
  <2> QED BY <1>2, <1>3, <2>1, OutIs
<1>5. ASSUME a.err = 0, NEW j \in 1 .. DataBits PROVE dbg'.out[j] = a.data[j]
  <2>1. j \in 1 .. 1 + DataBits /\ j + 1 \in 1 .. 2 + DataBits - 1 /\ 1 + (j + 1) = 2 + j
    BY <1>1
  <2>2. ~dbg.busy
    BY <1>3 DEF Latched
  <2>3. dbg'.out[j] = dbg.out[j + 1]
    BY <1>1, <2>1, <2>2, TickCall
  <2>4. OutBits(a)[2 + j] = a.data[j]
    BY <1>5, OutIs
  <2> QED BY <1>3, <2>1, <2>3, <2>4
<1>6. Latched(a)'
  BY <1>1, <1>3, KeepsLatched
<1> QED BY <1>2, <1>4, <1>5, <1>6

(* then the data.                                                          *)
LEMMA DataCallClock ==
    ASSUME Sound, ChainKnown, IrInv, CallInv, Clock, pc = "data"
    PROVE  (\E a \in Answer : Latched(a) /\ a.err = 0
              /\ (\A j \in 1 .. Len(got) : got[j] = a.data[j])
              /\ (\A j \in 1 .. DataBits - Len(got) : dbg.out[j] = a.data[Len(got) + j]))'
<1>1. InCall /\ todo # <<>> /\ tap = "shift_dr" /\ tap # "update_dr" /\ DataBits \in Nat
      /\ got' = Append(got, dbg.out[1]) /\ got \in Seq(Bits)
      /\ dbg.out \in BitString(2 + DataBits)
  BY CallReads, ClockFacts, Sizes DEF InCall, Sound, Scripted
<1>2. PICK a \in Answer :
        /\ Latched(a) /\ a.err = 0
        /\ \A j \in 1 .. Len(got) : got[j] = a.data[j]
        /\ \A j \in 1 .. DataBits - Len(got) : dbg.out[j] = a.data[Len(got) + j]
  BY DEF CallInv
<1> DEFINE n == Len(got)
           D == DataBits
<1>3. n \in Nat /\ D \in Nat /\ n < D /\ Len(got') = n + 1
      /\ (\A j \in 1 .. n : got'[j] = got[j]) /\ got'[n + 1] = dbg.out[1]
  <2> DEFINE r == Len(todo)
  <2>1. n + r = D /\ r \in Nat \ {0} /\ n \in Nat /\ D \in Nat
    BY <1>1, ClockFacts DEF Sound, ReadsAll, Scripted
  <2>2. Len(got') = n + 1 /\ (\A j \in 1 .. n : got'[j] = got[j]) /\ got'[n + 1] = dbg.out[1]
    BY <1>1
  <2> HIDE DEF n, D, r
  <2>3. n < D
    BY ONLY <2>1
  <2> QED BY <2>1, <2>2, <2>3
<1>4. /\ \A j \in 1 .. n : got[j] = a.data[j]
      /\ \A j \in 1 .. D - n : dbg.out[j] = a.data[n + j]
  BY <1>2
<1>5. \A j \in 1 .. 1 + D : dbg'.out[j] = dbg.out[j + 1]
  <2>1. ~dbg.busy
    BY <1>2 DEF Latched
  <2> QED BY <1>1, <2>1, TickCall
<1> HIDE DEF n, D
<1>6. ASSUME NEW j \in 1 .. n + 1 PROVE got'[j] = a.data[j]
  <2>1. CASE j = n + 1
    <3>1. 1 \in 1 .. D - n
      BY <1>3
    <3> QED BY <1>3, <1>4, <2>1, <3>1
  <2>2. CASE j # n + 1
    <3>1. j \in 1 .. n
      BY <1>3, <2>2
    <3> QED BY <1>3, <1>4, <3>1
  <2> QED BY <2>1, <2>2
<1>7. ASSUME NEW j \in 1 .. D - (n + 1) PROVE dbg'.out[j] = a.data[(n + 1) + j]
  <2>1. j \in 1 .. 1 + D /\ j + 1 \in 1 .. D - n /\ n + (j + 1) = (n + 1) + j
    BY <1>3
  <2> QED BY <1>4, <1>5, <2>1
<1>8. Latched(a)'
  BY <1>1, <1>2, KeepsLatched
<1>9. /\ \A j \in 1 .. Len(got') : got'[j] = a.data[j]
      /\ \A j \in 1 .. DataBits - Len(got') : dbg'.out[j] = a.data[Len(got') + j]
  BY <1>3, <1>6, <1>7 DEF D
<1> QED BY <1>2, <1>8, <1>9

(* A clock keeps the invariant of the call.                                *)
LEMMA CallClock ==
    ASSUME Sound, ChainKnown, IrInv, ShiftRegister, CallInv, Clock
    PROVE  CallInv'
<1>1. UNCHANGED <<pc, call>> /\ todo # <<>> /\ (InCall' <=> InCall)
  BY ClockFacts DEF Sound, Scripted, InCall
<1>2. ~InCall => taken' = <<>>
  <2> SUFFICES ASSUME ~InCall PROVE taken' = <<>>
    OBVIOUS
  <2>1. taken = <<>>
    BY DEF CallInv
  <2> QED BY <2>1, ClockParts DEF Takes
<1>3. pc = "command" => IF Len(todo') > 3 THEN taken' = <<>> /\ ~dbg'.busy ELSE Waiting'
  BY CommandCallClock
<1>4. pc = "ack" => /\ todo' = <<>>
                    /\ IF call.kind = "stalled" THEN Latched([stalled |-> got[1]])'
                       ELSE IF got'[1] = 0 THEN Waiting' ELSE AnswerOut(1)'
  BY AckCallClock
<1>5. pc = "error" =>
           /\ todo' = <<>> /\ call.kind # "stalled"
           /\ (\E a \in Answer : Latched(a) /\ got[1] = a.err /\ (a.err = 0 =>
                  \A j \in 1 .. DataBits : dbg.out[j] = a.data[j]))'
  BY ErrorCallClock DEF CallInv
<1>6. pc = "data" => call.kind \notin {"stalled", "write"} /\
           (\E a \in Answer : Latched(a) /\ a.err = 0
              /\ (\A j \in 1 .. Len(got) : got[j] = a.data[j])
              /\ (\A j \in 1 .. DataBits - Len(got) : dbg.out[j] = a.data[Len(got) + j]))'
  BY DataCallClock DEF CallInv
<1>7. pc = "finish" =>
           /\ ~dbg'.busy /\ Len(taken') = 1 /\ taken'[1].cmd = Promise!Command(call)
           /\ kept' = Promise!Result(call, taken'[1].answer)
  BY FinishCallClock
<1> QED BY <1>1, <1>2, <1>3, <1>4, <1>5, <1>6, <1>7 DEF CallInv

(* The steps of the program in a call.                                     *)
LEMMA PollAckCall ==
    ASSUME Sound, CallInv, PollAck
    PROVE  pc' = "ack" /\ todo' # <<>> /\ Waiting' /\ InCall
<1>1. /\ UNCHANGED <<dbg, taken, call>> /\ pc' = "ack" /\ todo' = <<Zero>> /\ todo = <<>>
      /\ pc = "command" \/ (pc = "ack" /\ got = <<0>> /\ call.kind # "stalled")
  BY DEF PollAck, At, Send, hardware
<1>2. Waiting
  <2>1. CASE pc = "command"
    <3>1. Len(todo) = 0 /\ ~(0 > 3)
      BY <1>1
    <3>2. ~(Len(todo) > 3)
      BY <3>1
    <3> QED BY <2>1, <3>2 DEF CallInv
  <2>2. CASE pc # "command"
    <3>1. got[1] = 0
      BY <1>1, <2>2
    <3> QED BY <1>1, <2>2, <3>1 DEF CallInv
  <2> QED BY <2>1, <2>2
<1>3. Waiting'
  BY <1>1, <1>2 DEF Waiting, NoAnswerYet, AnswerPending, AnswerOut, Latched
<1>4. todo' # <<>>
  BY <1>1
<1> QED BY <1>1, <1>3, <1>4 DEF InCall

(* When the answer has been read, it is what the CPU has answered.         *)
LEMMA FinishCall ==
    ASSUME Sound, CallInv, IsStalled \/ ReadSpr \/ SprRead, pc' = "finish"
    PROVE  /\ ~dbg'.busy /\ Len(taken') = 1 /\ taken'[1].cmd = Promise!Command(call')
           /\ kept' = Promise!Result(call', taken'[1].answer)
<1>1. UNCHANGED <<dbg, taken, call>> /\ todo = <<>>
  BY DEF IsStalled, ReadSpr, SprRead, At, hardware
<1>2. ASSUME NEW a, Latched(a)
      PROVE  ~dbg'.busy /\ Len(taken') = 1 /\ taken'[1].cmd = Promise!Command(call')
             /\ taken'[1].answer = a
  BY <1>1, <1>2 DEF Latched
<1>3. CASE IsStalled
  <2>1. /\ pc = "ack" /\ call.kind = "stalled"
        /\ kept' = [stalled |-> got[1]]
    BY <1>3 DEF IsStalled, At, finish_and_leave_a_dbg_nop_cmd_in_place, Keep
  <2>2. Latched([stalled |-> got[1]])
    BY <1>1, <2>1 DEF CallInv
  <2>3. Promise!Result(call, [stalled |-> got[1]]) = [stalled |-> got[1]]
    BY <2>1 DEF Promise!Result
  <2> QED BY <1>1, <1>2, <2>1, <2>2, <2>3
<1>4. CASE ReadSpr
  <2>1. pc = "error" /\ call.kind # "stalled"
    BY <1>4 DEF ReadSpr, At, CallInv
  <2>2. PICK a \in Answer : Latched(a) /\ got[1] = a.err
    BY <1>1, <2>1 DEF CallInv
  <2>3. CASE call.kind = "write"
    <3>1. kept' = [err |-> got[1]]
      BY <1>4, <2>3 DEF ReadSpr, finish_and_leave_a_dbg_nop_cmd_in_place, Keep
    <3>2. Promise!Result(call, a) = [err |-> a.err]
      BY <2>3 DEF Promise!Result
    <3> QED BY <1>1, <1>2, <2>2, <3>1, <3>2
  <2>4. CASE call.kind # "write"
    <3>1. got = <<1>> /\ kept' = [err |-> 1, data |-> Zeros(DataBits)]
      BY <1>4, <2>4 DEF ReadSpr, finish_and_leave_a_dbg_nop_cmd_in_place, Keep, Send
    <3>2. a.err = 1
      BY <2>2, <3>1
    <3>3. Promise!Result(call, a) = [err |-> 1, data |-> Zeros(DataBits)]
      BY <2>1, <2>4, <3>2 DEF Promise!Result
    <3> QED BY <1>1, <1>2, <2>2, <3>1, <3>3
  <2> QED BY <2>3, <2>4
<1>5. CASE SprRead
  <2>1. pc = "data" /\ kept' = [err |-> 0, data |-> got]
    BY <1>5 DEF SprRead, At, finish_and_leave_a_dbg_nop_cmd_in_place, Keep
  <2>2. call.kind \notin {"stalled", "write"} /\ got \in BitString(DataBits)
        /\ Len(got) = DataBits /\ DataBits \in Nat
    BY <1>1, <2>1, BitsInHand, Sizes DEF CallInv
  <2>3. PICK a \in Answer : Latched(a) /\ a.err = 0 /\ \A j \in 1 .. Len(got) : got[j] = a.data[j]
    BY <2>1 DEF CallInv
  <2>4. got = a.data
    <3>1. a.data \in [1 .. DataBits -> Bits] /\ got \in [1 .. DataBits -> Bits]
      BY <2>2 DEF Answer, BitString
    <3> QED BY <2>2, <2>3, <3>1, SameFunction
  <2>5. a = [err |-> 0, data |-> got]
    BY <2>3, <2>4 DEF Answer
  <2>6. Promise!Result(call, a) = a
    BY <2>2, <2>3 DEF Promise!Result
  <2> QED BY <1>1, <1>2, <2>1, <2>3, <2>5, <2>6
<1> QED BY <1>3, <1>4, <1>5

(* A step between clocks keeps the invariant of the call.                  *)
LEMMA CallSilent ==
    ASSUME Sound, ShiftRegister, CallInv, Silent, ~CatchErrors
    PROVE  CallInv'
<1>1. dbg' = dbg /\ got' = <<>>
  BY SilentIsSilent, SilentReadsNothing
<1>2. ~InCall' => taken' = <<>>
  <2>1. CASE Return \/ Fail
    BY <2>1 DEF Return, Fail
  <2>2. CASE \E c \in Calls : Call(c)
    BY <2>2 DEF Call, Send, InCall
  <2>3. CASE PollAck \/ IsStalled \/ ErrorBit \/ ReadSpr \/ SprRead
    <3>1. InCall'
      BY <2>3 DEF PollAck, IsStalled, ErrorBit, ReadSpr, SprRead, Send, InCall,
         finish_and_leave_a_dbg_nop_cmd_in_place
    <3> QED BY <3>1
  <2>4. CASE ~(Return \/ Fail \/ (\E c \in Calls : Call(c)) \/ PollAck \/ IsStalled \/ ErrorBit
               \/ ReadSpr \/ SprRead)
    <3>1. taken' = taken /\ ~InCall
      BY <2>4 DEF Silent, ResetTap, NextDevice, StartBit, ManufacturerCode, RestOfIdCode,
         Enumerated, ConfigureChain, JtagGetIdCode, SanityCheck, Start, At, InCall
    <3> QED BY <3>1 DEF CallInv
  <2> QED BY <2>1, <2>2, <2>3, <2>4
<1>3. ASSUME pc' = "command"
      PROVE  IF Len(todo') > 3 THEN taken' = <<>> /\ ~dbg'.busy ELSE Waiting'
  <2>1. PICK c \in Calls : Call(c)
    BY <1>3, Arrivals
  <2>2. taken' = <<>> /\ pc = "serving" /\ call' = c
    BY <2>1 DEF Call, At
  <2>3. ~dbg'.busy
    BY <1>1, <2>2, ShiftRegisterIs DEF DormantInv
  <2>4. Len(todo') = Size(c) + 8
    BY <2>1, SmallNumbers, CommandSent DEF Call, Send
  <2>5. Len(todo') > 3
    <3> DEFINE m == Size(c)
    <3>1. m \in Nat
      BY SizeNat DEF AnyCall
    <3> HIDE DEF m
    <3>2. m + 8 > 3
      BY ONLY <3>1
    <3> QED BY <2>4, <3>2 DEF m
  <2> QED BY <2>2, <2>3, <2>5
<1>4. ASSUME pc' = "ack" PROVE todo' # <<>> /\ Waiting'
  BY <1>4, Arrivals, PollAckCall
<1>5. ASSUME pc' = "error" PROVE todo' # <<>> /\ AnswerOut(1)' /\ call'.kind # "stalled"
  <2>1. /\ pc = "ack" /\ todo = <<>> /\ got = <<1>> /\ call.kind # "stalled"
        /\ todo' = <<Zero>> /\ UNCHANGED <<dbg, taken, call>>
    BY <1>5, Arrivals DEF ErrorBit, At, Send, hardware
  <2>2. got[1] = 1 /\ todo' # <<>>
    BY <2>1
  <2>3. AnswerOut(1)
    BY <2>1, <2>2 DEF CallInv
  <2> QED BY <2>1, <2>2, <2>3 DEF AnswerOut, Latched
<1>6. ASSUME pc' = "data"
      PROVE  call'.kind \notin {"stalled", "write"} /\
           (\E a \in Answer : Latched(a) /\ a.err = 0
              /\ (\A j \in 1 .. Len(got) : got[j] = a.data[j])
              /\ (\A j \in 1 .. DataBits - Len(got) : dbg.out[j] = a.data[Len(got) + j]))'
  <2>1. /\ pc = "error" /\ todo = <<>> /\ call.kind # "write" /\ got # <<1>>
        /\ UNCHANGED <<dbg, taken, call>>
    BY <1>6, Arrivals DEF ReadSpr, At, Send, hardware, finish_and_leave_a_dbg_nop_cmd_in_place
  <2>2. call.kind # "stalled"
    BY <2>1 DEF CallInv
  <2>3. PICK a \in Answer : Latched(a) /\ got[1] = a.err /\ (a.err = 0 =>
                  \A j \in 1 .. DataBits : dbg.out[j] = a.data[j])
    BY <2>1 DEF CallInv
  <2>4. a.err = 0
    <3>1. got \in [1 .. 1 -> Bits] /\ Len(got) = 1
      BY <2>1, BitsInHand
    <3>2. got[1] # 1
      BY <2>1, <3>1
    <3>3. 1 \in 1 .. 1
      OBVIOUS
    <3> QED BY <2>3, <3>1, <3>2, <3>3 DEF Bits
  <2>5. Latched(a)'
    BY <2>1, <2>3 DEF Latched
  <2>6. Len(got') = 0
    BY <1>1
  <2>7. \A j \in 1 .. Len(got') : got'[j] = a.data[j]
    BY <2>6
  <2>8. ASSUME NEW j \in 1 .. DataBits - Len(got') PROVE dbg'.out[j] = a.data[Len(got') + j]
    <3>1. DataBits \in Nat
      BY Sizes
    <3>2. j \in 1 .. DataBits /\ Len(got') + j = j
      BY <2>6, <3>1
    <3> QED BY <1>1, <2>3, <2>4, <3>2
  <2> QED BY <2>1, <2>2, <2>4, <2>5, <2>7, <2>8
<1>7. ASSUME pc' = "finish"
      PROVE  /\ ~dbg'.busy /\ Len(taken') = 1 /\ taken'[1].cmd = Promise!Command(call')
             /\ kept' = Promise!Result(call', taken'[1].answer)
  BY <1>7, Arrivals, FinishCall
<1> QED BY <1>2, <1>3, <1>4, <1>5, <1>6, <1>7 DEF CallInv

(* The CPU answers what has been asked.                                    *)
LEMMA CallAnswers ==
    ASSUME Sound, CallInv, CpuAnswers
    PROVE  /\ CallInv'
           /\ InCall => Performed
<1>1. PICK answer \in Answer :
        /\ dbg' = [dbg EXCEPT !.answer = answer]
        /\ Takes(dbg.cmd, answer)
  BY DEF CpuAnswers
<1>2. /\ dbg.busy /\ dbg.answer = NoCall /\ dbg \in Submodule
      /\ UNCHANGED <<pc, todo, got, kept, call>> /\ answer # NoCall
  <2>1. dbg.busy /\ dbg.answer = NoCall /\ UNCHANGED <<pc, todo, got, kept, call>>
    BY DEF CpuAnswers, Unanswered, program
  <2> QED BY <2>1, CallAssumption DEF Sound, Types
<1>3. /\ dbg'.busy /\ dbg'.answer = answer /\ dbg'.cmd = dbg.cmd /\ dbg'.out = dbg.out
  BY <1>1, <1>2 DEF Submodule
<1>4. CASE ~InCall
  <2>1. taken' = taken /\ taken = <<>> /\ ~InCall'
    BY <1>1, <1>2, <1>4 DEF Takes, CallInv, InCall
  <2> QED BY <1>2, <1>4, <2>1 DEF CallInv, InCall
<1>5. CASE InCall
  <2>0. InCall'
    BY <1>2, <1>5 DEF InCall
  <2>1. \A a : ~Latched(a)
    BY <1>2 DEF Latched
  <2>2. ~AnswerPending /\ \A n : ~AnswerOut(n)
    BY <1>2, <2>1 DEF AnswerPending, AnswerOut
  <2>3. Waiting => NoAnswerYet /\ call.kind # "stalled"
    BY <2>1, <2>2 DEF Waiting
  <2>4. /\ Waiting
        /\ \/ pc = "command" /\ ~(Len(todo) > 3)
           \/ pc = "ack" /\ todo # <<>>
           \/ pc = "ack" /\ todo = <<>> /\ call.kind # "stalled" /\ got[1] = 0
    BY <1>2, <1>5, <2>1, <2>2 DEF CallInv, InCall
  <2>5. NoAnswerYet /\ call.kind # "stalled"
    BY <2>3, <2>4
  <2>6. taken' = <<[cmd |-> Promise!Command(call), answer |-> answer]>> /\ taken = <<>>
    BY <1>1, <1>5, <2>5 DEF NoAnswerYet, Takes
  <2>7. AnswerPending'
    BY <1>2, <1>3, <2>5, <2>6 DEF AnswerPending, NoAnswerYet
  <2>8. Waiting'
    BY <1>2, <2>5, <2>7 DEF Waiting
  <2>9. CallInv'
    BY <1>2, <2>0, <2>4, <2>8 DEF CallInv
  <2>10. Len(taken') = 1 /\ taken'[1].cmd = Promise!Command(call)
    BY <2>6
  <2> QED BY <2>6, <2>9, <2>10 DEF Performed
<1> QED BY <1>4, <1>5

(* The invariant of the call, before the program is started                *)
LEMMA CallInit ==
    ASSUME Init PROVE CallInv
BY DEF Init, CallInv, InCall

(* and if nothing happens.                                                 *)
LEMMA CallIdle ==
    ASSUME CallInv, Still PROVE CallInv'
BY DEF CallInv, Still, program, InCall, Waiting, NoAnswerYet, AnswerPending, AnswerOut,
   Latched

-----------------------------------------------------------------------------
(* In a call, no operation is abandoned: the submodule stays selected, and *)
(* it latches only when no operation is under way                          *)
LEMMA PatientClock ==
    ASSUME Sound, ChainKnown, IrInv, CallInv, Patient, Clock
    PROVE  Patient'
<1>1. UNCHANGED pc
  BY DEF Clock
<1>2. CASE ~InCall
  <2>1. abandoned' = (abandoned \/ (Unanswered /\ (~Selected \/ tap = "update_dr")))
    BY DEF Clock, DebugClock, Selected, Resets
  <2> QED BY <1>1, <1>2, <2>1 DEF Patient, InCall
<1>3. CASE InCall
  <2>1. Selected /\ call \in Calls /\ ~abandoned
    BY <1>3, CallSelects DEF Patient
  <2>2. abandoned' = (abandoned \/ (Unanswered /\ (~Selected \/ tap = "update_dr")))
    BY DEF Clock, DebugClock, Selected, Resets
  <2>3. tap = "update_dr" => ~dbg.busy
    <3>1. CASE pc \in {"ack", "error", "data"}
      BY <3>1, CallReads
    <3>2. CASE pc = "finish"
      BY <3>2 DEF CallInv
    <3>3. CASE pc = "command" /\ tap = "update_dr"
      <4> DEFINE r == Len(todo)
                 m == Size(call)
      <4>1. r \in Nat \ {0} /\ tap \in WhereCommand(m, r) /\ m \in Nat \ {0}
        BY <3>3, WhereIs, ClockFacts DEF Sound, Scripted
      <4>2. IF r > 3 THEN taken = <<>> /\ ~dbg.busy ELSE Waiting
        BY <3>3 DEF CallInv
      <4> HIDE DEF r, m
      <4>3. r = 4
        BY <3>3, <4>1, ShiftingTable
      <4> QED BY <4>2, <4>3
    <3> QED BY <1>3, <3>1, <3>2, <3>3 DEF InCall
  <2>4. abandoned' = FALSE
    BY <2>1, <2>2, <2>3 DEF Unanswered
  <2> QED BY <2>4 DEF Patient
<1> QED BY <1>2, <1>3

(* and none is called until the CPU has noticed that one has been.         *)
LEMMA PatientElse ==
    ASSUME Patient, ~CatchErrors,
           Silent \/ CpuAnswers \/ (Still /\ abandoned' \in {FALSE, abandoned})
    PROVE  Patient'
<1>1. CASE CpuAnswers \/ (Still /\ abandoned' \in {FALSE, abandoned})
  <2>1. UNCHANGED pc /\ (InCall' <=> InCall)
    BY <1>1 DEF CpuAnswers, Still, program, InCall
  <2>2. abandoned' = FALSE \/ abandoned' = abandoned
    BY <1>1 DEF CpuAnswers
  <2>3. CASE abandoned' = FALSE
    BY <2>3 DEF Patient
  <2>4. CASE abandoned' = abandoned
    BY Zenon, <2>1, <2>4 DEF Patient
  <2> QED BY <2>2, <2>3, <2>4
<1>2. CASE \E c \in Calls : Call(c)
  <2>1. ~abandoned /\ abandoned' = abandoned
    BY <1>2 DEF Call, hardware
  <2> QED BY <2>1 DEF Patient
<1>3. CASE Silent /\ ~(\E c \in Calls : Call(c))
  <2>1. abandoned' = abandoned
    BY <1>3, SilentIsSilent
  <2>2. InCall' => InCall
    BY <1>3 DEF Silent, ResetTap, NextDevice, StartBit, ManufacturerCode, RestOfIdCode,
       Enumerated, ConfigureChain, JtagGetIdCode, SanityCheck, PollAck, IsStalled, ErrorBit,
       ReadSpr, SprRead, Return, Fail, Start, At, Send, SendMarker, Discover, Quit,
       finish_and_leave_a_dbg_nop_cmd_in_place, InCall
  <2> QED BY <2>1, <2>2 DEF Patient
<1> QED BY <1>1, <1>2, <1>3

-----------------------------------------------------------------------------
(* The inductive invariant: what holds whatever instruction is selected in *)
(* the end,                                                                *)
StartInv ==
    /\ Sound /\ InstructionsReset /\ TapeInv /\ Stuck /\ ChainKnown /\ InstructionInv

(* and with the DEBUG instruction.                                         *)
IInv == StartInv /\ IrInv /\ ShiftRegister /\ CallInv /\ CommandOfCall /\ Patient

(* The right opcode selects it.                                            *)
LEMMA SelectsDebug ==
    RightOpcode /\ StartInv => IrInv
<1> SUFFICES ASSUME RightOpcode, StartInv PROVE IrInv
  OBVIOUS
<1>1. Sound /\ InstructionInv
  BY Zenon DEF StartInv
<1>2. Instruction(setup) = Opcode.DEBUG
  BY <1>1 DEF RightOpcode, Sound, Scripted, Base
<1> QED BY <1>1, <1>2 DEF IrInv, InstructionInv, OpcodeSelected, DebugSelected, Debugging

(* The same of the next state.                                             *)
LEMMA SelectsDebugNext ==
    ASSUME RightOpcode PROVE StartInv' => IrInv'
BY SelectsDebug, PTL

(* They hold before the program is started.                                *)
LEMMA StartInvInit ==
    ASSUME Init PROVE StartInv
<1>1. pc = "exit" /\ todo = <<>>
  BY DEF Init
<1>2. InstructionsReset /\ TapeInv /\ Stuck /\ ChainKnown /\ InstructionInv
  BY <1>1, ResetTable DEF InstructionsReset, IsReset, TapeInv, Searching, Enumerating, Stuck,
     ChainKnown, InCall, InstructionInv, IdentifyInv, IdCodeInv, ServingInv, OpcodeSelected
<1> QED BY <1>2, SoundInit DEF StartInv

(* so with the right opcode.                                               *)
LEMMA IInvInit ==
    ASSUME RightOpcode, Init PROVE IInv
<1>1. StartInv /\ IrInv
  BY StartInvInit, SelectsDebug
<1>2. CommandOfCall /\ Patient
  BY DEF Init, CommandOfCall, Patient
<1> QED BY <1>1, <1>2, ShiftRegisterInit, CallInit DEF IInv

(* Every step preserves the first, a clock,                                *)
LEMMA StartInvClock ==
    ASSUME SoundStart, StartInv, Clock PROVE StartInv'
<1>1. ~CatchErrors /\ Next
  BY Zenon DEF SoundStart, Next, ProgramStep
<1>2. Sound /\ InstructionsReset /\ TapeInv /\ Stuck /\ ChainKnown /\ InstructionInv
  BY Zenon DEF StartInv
<1>3. Sound'
  BY <1>1, <1>2, SoundStep
<1>4. InstructionsReset' /\ TapeInv' /\ Stuck'
  BY <1>2, InstructionsClock, TapeClock, StuckClock
<1>5. ChainKnown' /\ InstructionInv'
  BY <1>2, ChainKnownClock, IrClock
<1> QED BY Zenon, <1>3, <1>4, <1>5 DEF StartInv

(* a step between clocks,                                                  *)
LEMMA StartInvSilent ==
    ASSUME SoundStart, StartInv, Silent PROVE StartInv'
<1>1. ~CatchErrors /\ Next
  BY Zenon DEF SoundStart, Next, ProgramStep, Silent
<1>2. Sound /\ InstructionsReset /\ TapeInv /\ Stuck /\ ChainKnown /\ InstructionInv
  BY Zenon DEF StartInv
<1>3. Sound'
  BY <1>1, <1>2, SoundStep
<1>4. InstructionsReset' /\ TapeInv' /\ Stuck'
  BY <1>2, <1>3, InstructionsSilent, TapeSilent, StuckSilent
<1>5. ChainKnown' /\ InstructionInv'
  BY <1>1, <1>2, ChainKnownSilent, IrSilent
<1> QED BY Zenon, <1>3, <1>4, <1>5 DEF StartInv

(* or one of something else.                                               *)
LEMMA StartInvElse ==
    ASSUME SoundStart, StartInv, [Next]_vars, CpuAnswers \/ Still PROVE StartInv'
<1>1. ~CatchErrors
  BY Zenon DEF SoundStart
<1>2. Sound /\ InstructionsReset /\ TapeInv /\ Stuck /\ ChainKnown /\ InstructionInv
  BY Zenon DEF StartInv
<1>3. Sound'
  BY <1>1, <1>2, SoundStep
<1>4. UNCHANGED <<setup, tap, devs, pc, todo, got, kept, sent, discovered, call>>
  BY DEF CpuAnswers, Still, program
<1>5. InstructionsReset' /\ TapeInv' /\ Stuck'
  BY <1>2, <1>4 DEF InstructionsReset, IsReset, TapeInv, Searching, TapeGood, Found, Shifted,
     From, Passed, Stuck, StuckBits
<1>6. ChainKnown'
  BY <1>2, <1>4 DEF ChainKnown, Found, InCall
<1>7. InstructionInv'
  BY <1>2, <1>4 DEF InstructionInv, IdentifyInv, IdCodeInv, ServingInv, OpcodeSelected, InCall,
     get_IR_size, get_debug_cmd, bsdl_get_debug_cmd, KnowsTarget, Target
<1> QED BY Zenon, <1>3, <1>5, <1>6, <1>7 DEF StartInv

(* that is, every step.                                                    *)
LEMMA StartInvStep ==
    ASSUME SoundStart, StartInv, [Next]_vars PROVE StartInv'
BY ThreeKinds, StartInvClock, StartInvSilent, StartInvElse

(* And all of it is preserved by a clock,                                  *)
LEMMA IInvClock ==
    ASSUME SoundStart, RightOpcode, IInv, Clock PROVE IInv'
<1>1. ~CatchErrors /\ [Next]_vars
  BY Zenon DEF SoundStart, Next, ProgramStep
<1>2. StartInv /\ IrInv /\ ShiftRegister /\ CallInv /\ CommandOfCall /\ Patient
  BY Zenon DEF IInv
<1>3. Sound /\ InstructionsReset /\ ChainKnown
  BY Zenon, <1>2 DEF StartInv
<1>4. StartInv' /\ IrInv'
  BY <1>1, <1>2, StartInvStep, SelectsDebugNext
<1>5. ShiftRegister'
  BY <1>1, <1>2, <1>3, <1>4, ShiftRegisterClock
<1>6. CallInv' /\ CommandOfCall' /\ Patient'
  BY <1>2, <1>3, CallClock, NoStrayClock, PatientClock
<1> QED BY Zenon, <1>4, <1>5, <1>6 DEF IInv

(* by a step between clocks,                                               *)
LEMMA IInvSilent ==
    ASSUME SoundStart, RightOpcode, IInv, Silent PROVE IInv'
<1>1. ~CatchErrors /\ [Next]_vars
  BY Zenon DEF SoundStart, Next, ProgramStep, Silent
<1>2. StartInv /\ IrInv /\ ShiftRegister /\ CallInv /\ CommandOfCall /\ Patient
  BY Zenon DEF IInv
<1>3. Sound /\ InstructionsReset /\ ChainKnown
  BY Zenon, <1>2 DEF StartInv
<1>4. StartInv' /\ IrInv'
  BY <1>1, <1>2, StartInvStep, SelectsDebugNext
<1>5. Sound' /\ InstructionsReset' /\ ChainKnown'
  BY Zenon, <1>4 DEF StartInv
<1>6. pc = "finish" /\ todo = <<>> => ~dbg.busy
  BY <1>2 DEF CallInv
<1>7. ShiftRegister'
  BY <1>2, <1>3, <1>4, <1>5, <1>6, ShiftRegisterSilent
<1>8. CallInv' /\ CommandOfCall' /\ Patient'
  BY <1>1, <1>2, <1>3, CallSilent, NoStrayElse, PatientElse
<1> QED BY Zenon, <1>4, <1>7, <1>8 DEF IInv

(* and by an answer of the CPU and a step of something else.               *)
LEMMA IInvElse ==
    ASSUME SoundStart, RightOpcode, IInv, [Next]_vars,
           CpuAnswers \/ (Still /\ abandoned' \in {FALSE, abandoned})
    PROVE  IInv'
<1>1. ~CatchErrors
  BY Zenon DEF SoundStart
<1>2. StartInv /\ IrInv /\ ShiftRegister /\ CallInv /\ CommandOfCall /\ Patient
  BY Zenon DEF IInv
<1>3. Sound
  BY Zenon, <1>2 DEF StartInv
<1>4. StartInv' /\ IrInv'
  BY <1>2, StartInvStep, SelectsDebugNext
<1>5. ShiftRegister' /\ CommandOfCall' /\ Patient'
  BY <1>1, <1>2, <1>3, ShiftRegisterAnswers, NoStrayElse, PatientElse
<1>6. CallInv'
  BY <1>2, <1>3, CallAnswers, CallIdle
<1> QED BY Zenon, <1>4, <1>5, <1>6 DEF IInv

(* that is, by every step.                                                 *)
LEMMA IInvStep ==
    ASSUME SoundStart, RightOpcode, IInv, [Next]_vars PROVE IInv'
BY ThreeKinds, IInvClock, IInvSilent, IInvElse

(* The start holds throughout, as long as the program stops at its first   *)
(* error and the command line does not give the target an instruction      *)
(* register of one bit;                                                    *)
THEOREM StartInvariant ==
    SoundStart => (Spec => []StartInv)
<1> SUFFICES ASSUME SoundStart PROVE Spec => []StartInv
  OBVIOUS
<1>1. Init => StartInv
  BY StartInvInit
<1>2. StartInv /\ [Next]_vars => StartInv'
  BY StartInvStep
<1> QED BY <1>1, <1>2, PTL DEF Spec

(* all of it, if it does not give another opcode either.                   *)
THEOREM ChainInvariant ==
    SoundStart /\ RightOpcode => (Spec => []IInv)
<1> SUFFICES ASSUME SoundStart, RightOpcode PROVE Spec => []IInv
  OBVIOUS
<1>1. Init => IInv
  BY IInvInit
<1>2. IInv /\ [Next]_vars => IInv'
  BY IInvStep
<1> QED BY <1>1, <1>2, PTL DEF Spec

-----------------------------------------------------------------------------
(* What the invariant says of a call.                                      *)
LEMMA TakenOnce ==
    ASSUME Sound, CallInv PROVE Len(taken) \in 0 .. 1
<1>1. \A a : Latched(a) => Len(taken) = 1
  BY DEF Latched
<1>2. AnswerPending => Len(taken) = 1
  BY DEF AnswerPending
<1>3. taken = <<>> \/ NoAnswerYet => Len(taken) = 0
  BY DEF NoAnswerYet
<1>4. \A n : AnswerOut(n) => Len(taken) = 1
  BY <1>1 DEF AnswerOut
<1>5. Waiting => Len(taken) \in {0, 1}
  BY <1>1, <1>2, <1>3, <1>4 DEF Waiting
<1>6. Len(taken) \in {0, 1}
  <2>1. CASE ~InCall
    BY <1>3, <2>1 DEF CallInv
  <2>2. CASE pc = "command"
    BY <1>3, <1>5, <2>2 DEF CallInv
  <2>3. CASE pc = "ack"
    BY <1>1, <1>4, <1>5, <2>3 DEF CallInv
  <2>4. CASE pc = "error"
    BY <1>1, <1>4, <2>4 DEF CallInv
  <2>5. CASE pc = "data"
    BY <1>1, <2>5 DEF CallInv
  <2>6. CASE pc = "finish"
    BY <2>6 DEF CallInv
  <2> QED BY <2>1, <2>2, <2>3, <2>4, <2>5, <2>6 DEF InCall
<1> QED BY ONLY <1>6

(* The types.                                                              *)
LEMMA TypesHold ==
    ASSUME IInv PROVE TypeOK
<1>1. Sound /\ CallInv
  BY Zenon DEF IInv, StartInv
<1>2. /\ setup \in Setups /\ tap \in State /\ pc \in Labels
      /\ call \in Calls \cup {NoCall} /\ sent \in 0 .. MarkerBits
      /\ todo \in Seq(Packet) /\ got \in Seq(Bits)
  BY <1>1 DEF Sound, Scripted, Base, AnyCall, OnScript, FollowsScript, Types
<1>3. Len(setup.chain) \in Nat \ {0}
  BY <1>2, Chain
<1>4. devs \in [1 .. Len(setup.chain) -> Device] /\ dbg \in Submodule
  BY <1>1 DEF Sound, Types
<1>5. Len(devs) = Len(setup.chain) /\ DOMAIN devs = 1 .. Len(setup.chain)
  BY <1>3, <1>4
<1>6. ASSUME NEW i \in DOMAIN devs
      PROVE  /\ devs[i].ir = <<>> \/ devs[i].ir \in BitString(IrLength)
             /\ devs[i].dr = <<>> \/ devs[i].dr \in BitString(1) \cup BitString(IdBits)
             /\ devs[i].instruction \in BitString(IrLength)
  <2>1. devs[i] \in Device
    BY <1>4
  <2> QED BY <2>1 DEF Device, DataRegister
<1>7. /\ dbg.busy \in BOOLEAN /\ dbg.out \in BitString(2 + DataBits)
      /\ dbg.in \in [1 .. ShiftRegLen -> Bits \cup {X}]
  BY <1>4 DEF Submodule, Loaded
<1>8. Len(discovered) \in 0 .. MaxDevices
  <2>1. discovered \in Seq({<<>>} \cup BitString(IdBits)) /\ Len(discovered) <= MaxDevices
    BY <1>1 DEF Sound, Types
  <2>2. Len(discovered) \in Nat /\ MaxDevices \in Nat
    BY <2>1, Sizes
  <2> QED BY <2>1, <2>2
<1>9. Len(taken) \in 0 .. 1
  BY <1>1, TakenOnce
<1>10. abandoned \in BOOLEAN
  BY DEF IInv, Patient
<1> QED BY <1>2, <1>5, <1>6, <1>7, <1>8, <1>9, <1>10 DEF TypeOK

(* What the program has found out before it takes requests.                *)
LEMMA TargetServed ==
    ASSUME StartInv PROVE ServesTheTarget
<1>1. Sound /\ ChainKnown /\ InstructionInv
  BY Zenon DEF StartInv
<1>2. Base /\ OnScript /\ setup \in Setups
  BY <1>1 DEF Sound, Scripted, Base
<1>3. EnumerationIsExact
  <2> SUFFICES ASSUME At("configure")
               PROVE  discovered = [i \in DOMAIN setup.chain |-> IdCode[setup.chain[i]]]
    BY DEF EnumerationIsExact
  <2> DEFINE n == Len(setup.chain)
             S == {<<>>} \cup BitString(IdBits)
             ids == [i \in DOMAIN setup.chain |-> IdCode[setup.chain[i]]]
  <2>1. Found /\ Len(discovered) = n /\ discovered \in Seq(S)
    BY <1>1 DEF At, ChainKnown, Sound, Types
  <2>2. n \in Nat /\ DOMAIN setup.chain = 1 .. n
    BY <1>2, Chain
  <2>3. discovered \in [1 .. n -> S]
    BY <2>1, SeqOfLength
  <2>4. \A i \in 1 .. n : discovered[i] = IdCode[setup.chain[i]]
    BY <2>1 DEF Found, Id
  <2>5. ids \in [1 .. n -> S]
    BY <2>2, <2>3, <2>4
  <2>6. \A i \in 1 .. n : discovered[i] = ids[i]
    BY <2>2, <2>4
  <2> QED BY <2>2, <2>3, <2>5, <2>6, SameFunction
<1>4. OperationsStartIdle
  BY <1>2, Landed DEF OperationsStartIdle, At
<1>5. At("serving") =>
        Len(devs) = 1 /\ setup.tdo = "ok" /\ devs[1].instruction = Instruction(setup)
  BY <1>1, TheDevice DEF At, Chosen, InstructionInv, OpcodeSelected
<1> QED BY <1>3, <1>4, <1>5 DEF ServesTheTarget

-----------------------------------------------------------------------------
(* The values each variable takes: the TAPs of the chain never leave the   *)
(* states and registers the code gives them, and one command is carried    *)
(* out in a call at most.                                                  *)
THEOREM TypeCorrect ==
    SoundStart /\ RightOpcode => (Spec => []TypeOK)
<1> SUFFICES ASSUME SoundStart, RightOpcode PROVE Spec => []TypeOK
  OBVIOUS
<1>1. IInv => TypeOK
  BY TypesHold
<1> QED BY <1>1, ChainInvariant, PTL

(* jtag_enumerate_chain finds the chain as it is, and the functions of     *)
(* dbg_api.cpp are called with the one TAP of the chain in Run-Test/Idle,  *)
(* and the instruction selected that the command line gives, whatever it   *)
(* is, or else DEBUG.                                                      *)
THEOREM TargetIsServed ==
    SoundStart => (Spec => []ServesTheTarget)
<1> SUFFICES ASSUME SoundStart PROVE Spec => []ServesTheTarget
  OBVIOUS
<1>1. StartInv => ServesTheTarget
  BY TargetServed
<1> QED BY <1>1, StartInvariant, PTL

(* Whatever clock the program is stopped at, and however it is started     *)
(* again, the submodule passes no command to the CPU but that of the last  *)
(* call, unless it latches a register that holds nothing at all; and no    *)
(* call is made, nor abandons an operation, while the CPU may not know yet *)
(* that one has been abandoned, which is when it may do anything.          *)
THEOREM NoStrayCommandEver ==
    SoundStart /\ RightOpcode => (Spec => []NoStrayCommand)
<1> SUFFICES ASSUME SoundStart, RightOpcode PROVE Spec => []NoStrayCommand
  OBVIOUS
<1>1. IInv => NoStrayCommand
  BY DEF IInv, CommandOfCall, Patient, NoStrayCommand
<1> QED BY <1>1, ChainInvariant, PTL

-----------------------------------------------------------------------------
(* The functions of dbg_api.cpp.                                           *)
Promised == IF InCall /\ Debugged THEN call ELSE NoCall

(* With the right opcode every call is promised.                           *)
LEMMA DebuggedHolds ==
    RightOpcode /\ IInv => Debugged
<1> SUFFICES ASSUME RightOpcode, IInv PROVE Debugged
  OBVIOUS
<1>1. Sound
  BY Zenon DEF IInv, StartInv
<1> QED BY <1>1 DEF RightOpcode, Debugged, Sound, Scripted, Base

LEMMA DebuggedNext ==
    ASSUME RightOpcode PROVE IInv' => Debugged'
BY DebuggedHolds, PTL

(* The steps of DebugCalls, in terms of the chain.                         *)
LEMMA PromiseIs ==
    /\ Promise!Call <=> Promised = NoCall /\ Promised' \in Calls /\ UNCHANGED taken
    /\ Promise!Perform <=>
         /\ Promised # NoCall /\ taken = <<>>
         /\ Len(taken') = 1 /\ taken'[1].cmd = Promise!Command(Promised)
         /\ Promised' = Promised /\ result' = result
    /\ Promise!Return <=>
         /\ Promised # NoCall /\ Promised' = NoCall /\ taken' = <<>>
         /\ \/ result' = Failed
            \/ taken # <<>> /\ result' = Promise!Result(Promised, taken[1].answer)
    /\ Promise!Forget <=> Promised = NoCall /\ Promised' = Promised /\ UNCHANGED taken
    /\ UNCHANGED Promise!vars <=> Promised' = Promised /\ taken' = taken /\ result' = result
BY Zenon DEF Promise!Call, Promise!Perform, Promise!Return, Promise!Forget, Promise!vars, Promised

(* A clock or an answer of the CPU carries out the command, or nothing.    *)
LEMMA PromiseDuring ==
    ASSUME IInv, Debugged, Debugged', Clock \/ CpuAnswers PROVE [Promise!Next]_(Promise!vars)
<1>1. Sound /\ ChainKnown /\ IrInv /\ ShiftRegister /\ CallInv
  BY Zenon DEF IInv, StartInv
<1>2. UNCHANGED <<pc, call, result>> /\ call \in AnyCall /\ (InCall => call \in Calls)
  BY <1>1 DEF Clock, CpuAnswers, program, Sound, Scripted, Base
<1>3. Promised' = Promised
  BY <1>2 DEF Promised, InCall
<1>4. CASE ~InCall
  <2>1. taken' = taken
    BY <1>4, ClockParts DEF Takes, CpuAnswers
  <2> QED BY Zenon, <1>2, <1>3, <2>1, PromiseIs
<1>5. CASE InCall
  <2>1. Promised = call /\ call # NoCall
    BY <1>2, <1>5, CallAssumption DEF Promised
  <2>2. taken' = taken \/ Performed
    <3>1. CASE CpuAnswers
      BY <1>1, <1>5, <3>1, CallAnswers
    <3>2. CASE Clock
      <4>1. CASE pc \in {"ack", "error", "data"}
        <5>1. tap # "update_dr"
          BY <1>1, <3>2, <4>1, CallReads
        <5> QED BY <1>1, <1>5, <3>2, <5>1, TickCall
      <4>2. CASE pc = "command"
        BY <1>1, <3>2, <4>2, CommandCallClock
      <4>3. CASE pc = "finish"
        BY <1>1, <3>2, <4>3, FinishCallClock
      <4> QED BY <1>5, <4>1, <4>2, <4>3 DEF InCall
    <3> QED BY <3>1, <3>2
  <2>3. CASE taken' = taken
    BY Zenon, <1>2, <1>3, <2>3, PromiseIs
  <2>4. CASE Performed
    <3>1. Promise!Perform
      BY Zenon, <1>2, <1>3, <2>1, <2>4, PromiseIs DEF Performed
    <3> QED BY <3>1 DEF Promise!Next
  <2> QED BY <2>2, <2>3, <2>4
<1> QED BY <1>4, <1>5

(* A step between clocks calls, returns, fails, or does nothing.           *)
LEMMA PromiseSilent ==
    ASSUME SoundStart, IInv, Debugged, Debugged', Silent PROVE [Promise!Next]_(Promise!vars)
<1>1. Sound /\ CallInv /\ ~CatchErrors
  BY Zenon DEF IInv, StartInv, SoundStart
<1>2. call \in AnyCall /\ (InCall => call \in Calls /\ call # NoCall) /\ pc \in Labels
  BY <1>1, CallAssumption DEF Sound, Scripted, Base
<1>3. ~InCall => taken = <<>>
  BY <1>1 DEF CallInv
<1>4. CASE \E c \in Calls : Call(c)
  <2>1. /\ ~InCall /\ InCall' /\ call' \in Calls /\ taken' = <<>>
    BY <1>4 DEF Call, At, Send, InCall
  <2>2. Promise!Call
    BY Zenon, <1>3, <2>1, PromiseIs DEF Promised
  <2> QED BY <2>2 DEF Promise!Next
<1>5. CASE Return
  <2>1. pc = "finish" /\ ~InCall' /\ InCall /\ result' = kept /\ taken' = <<>>
    BY <1>5 DEF Return, At, Send, InCall
  <2>2. Len(taken) = 1 /\ kept = Promise!Result(call, taken[1].answer)
    BY <1>1, <2>1 DEF CallInv
  <2>3. taken # <<>>
    BY <2>2
  <2>4. Promised = call /\ Promised' = NoCall
    BY <2>1 DEF Promised
  <2>5. Promise!Return
    BY Zenon, <1>2, <2>1, <2>2, <2>3, <2>4, PromiseIs
  <2> QED BY <2>5 DEF Promise!Next
<1>6. CASE Fail
  <2>1. ~InCall' /\ result' = Failed /\ taken' = <<>>
    BY <1>1, <1>6 DEF Fail, Send, InCall
  <2>2. Promised' = NoCall
    BY <2>1 DEF Promised
  <2>3. CASE InCall
    <3>1. Promised = call
      BY <2>3 DEF Promised
    <3>2. Promise!Return
      BY Zenon, <1>2, <2>1, <2>2, <2>3, <3>1, PromiseIs
    <3> QED BY <3>2 DEF Promise!Next
  <2>4. CASE ~InCall
    <3>1. Promised = NoCall
      BY <2>4 DEF Promised
    <3>2. Promise!Forget
      BY Zenon, <1>3, <2>1, <2>2, <2>4, <3>1, PromiseIs
    <3> QED BY <3>2 DEF Promise!Next
  <2> QED BY <2>3, <2>4
<1>7. CASE PollAck \/ IsStalled \/ ErrorBit \/ ReadSpr \/ SprRead
  <2>1. InCall /\ InCall' /\ UNCHANGED <<call, taken, result>>
    BY <1>7 DEF PollAck, IsStalled, ErrorBit, ReadSpr, SprRead, At, Send, InCall,
       finish_and_leave_a_dbg_nop_cmd_in_place
  <2> QED BY Zenon, <2>1, PromiseIs DEF Promised
<1>8. CASE \/ ResetTap \/ NextDevice \/ StartBit \/ ManufacturerCode \/ RestOfIdCode
           \/ Enumerated \/ ConfigureChain \/ JtagGetIdCode \/ SanityCheck \/ Start
  <2>1. ~InCall /\ ~InCall' /\ UNCHANGED <<call, taken, result>>
    BY <1>8 DEF ResetTap, NextDevice, StartBit, ManufacturerCode, RestOfIdCode, Enumerated,
       ConfigureChain, JtagGetIdCode, SanityCheck, Start, At, Send, SendMarker, Discover, Quit,
       InCall
  <2> QED BY Zenon, <2>1, PromiseIs DEF Promised
<1> QED BY Zenon, <1>4, <1>5, <1>6, <1>7, <1>8 DEF Silent

(* One command, carried out once, whose answer is returned: over all the   *)
(* clocks of a call, the dbg_cpu0_* functions of dbg_api.cpp do what the   *)
(* rest of the program takes them for.                                     *)
THEOREM ChainImplementsDebugCalls ==
    SoundStart /\ RightOpcode => (Spec => ImplementsDebugCalls)
<1> SUFFICES ASSUME SoundStart, RightOpcode PROVE Spec => ImplementsDebugCalls
  OBVIOUS
<1>1. Init => Promise!Init
  BY DEF Init, Promise!Init, InCall
<1>2. IInv /\ [Next]_vars => [Promise!Next]_(Promise!vars)
  <2> SUFFICES ASSUME IInv, [Next]_vars PROVE [Promise!Next]_(Promise!vars)
    OBVIOUS
  <2>0. Debugged /\ Debugged'
    BY IInvStep, DebuggedHolds, DebuggedNext
  <2>1. CASE Still
    <3>1. Promised' = Promised /\ taken' = taken /\ result' = result
      BY <2>0, <2>1 DEF Still, program, Promised, InCall
    <3> QED BY Zenon, <3>1, PromiseIs
  <2>2. CASE Clock \/ CpuAnswers \/ Silent
    BY Zenon, <2>0, <2>2, PromiseDuring, PromiseSilent
  <2> QED BY <2>1, <2>2, ThreeKinds
<1> QED BY <1>1, <1>2, ChainInvariant, PTL DEF Spec, ImplementsDebugCalls, Promise!Spec
=============================================================================

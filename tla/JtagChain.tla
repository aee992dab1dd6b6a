----------------------------- MODULE JtagChain -----------------------------
(***************************************************************************)
(* GdbToJtagBridge's way to the CPU, clock by clock: the start of the      *)
(* program (main.cpp: reset the chain, find out what is in it, check the   *)
(* target and select its DEBUG instruction), then one command to the CPU   *)
(* at a time (dbg_api.cpp), over the TAPs of the chain and the debug       *)
(* submodule of the OR10 TAP.  The cable may fail and the program may be   *)
(* stopped at any clock, and started again.  DebugPort shows what lies     *)
(* between the submodule and the CPU.                                      *)
(***************************************************************************)
EXTENDS JtagTap

CONSTANTS
    Setups,           \* the chains, the command lines and the BSDL files
    IdCode,           \* of each kind of device; <<>> if it has none
    ManufBits, RestBits, MarkerBits,   \* 11, 20 and 7
    MaxDevices,       \* MAX_DEVICE_COUNT
    SprBits, DataBits,                 \* 16 and 32
    Calls, NoCall, Failed,
    X,                \* a bit nobody has set
    CatchErrors       \* the RSP server goes on after an error, or stops

Bits == {0, 1}
BitString(n) == [1 .. n -> Bits]

IdBits == 1 + ManufBits + RestBits
DoneCode == [i \in 1 .. ManufBits |-> IF i < MarkerBits THEN 1 ELSE 0]

\* [chain, trst, tdo]: the devices, the first being the one nearest the data
\* input of the cable; is TRST wired?; is TDO "ok" or stuck at 0 or 1?
\* [target, ir_length, debug_cmd, bsdl]: the options, 0 or <<>> if not
\* given, and what the BSDL files know about the OR10.  debug_cmd is an
\* opcode, any number, least significant bit first.
ASSUME ChainAssumption ==
    /\ {ManufBits, RestBits, MaxDevices, SprBits, DataBits} \subseteq Nat \ {0}
    /\ MarkerBits \in 1 .. ManufBits
    /\ X \notin {0, 1} /\ CatchErrors \in BOOLEAN
    /\ \A s \in Setups :
         /\ s.chain \in Seq(DOMAIN IdCode) /\ s.chain # <<>>
         /\ s.trst \in BOOLEAN /\ s.tdo \in {"ok", "0", "1"}
         /\ s.target \in Nat /\ s.ir_length \in Nat /\ s.debug_cmd \in Seq(Bits)
         /\ s.bsdl \in {"full", "no DEBUG", "none"}
         /\ \A i \in DOMAIN s.chain :
              IdCode[s.chain[i]] # <<>> =>
                /\ IdCode[s.chain[i]] \in BitString(IdBits)
                /\ IdCode[s.chain[i]][1] = 1
                \* See the README: such a device ends the enumeration.
                /\ SubSeq(IdCode[s.chain[i]], 2, 1 + ManufBits) # DoneCode

VARIABLES
    setup,            \* does not change
    tap, devs,        \* the TAPs of the chain: their state, their registers
    dbg,              \* the debug submodule of the OR10 TAP
    abandoned,        \* an operation was, and the CPU may not know yet
    pc, todo,         \* the program: the clocks it is about to make, and what
                      \* it does then
    got, kept,        \* the bits it reads and those it has read
    sent,             \* bits of the marker sent
    discovered,       \* discovered_id_codes
    call, result,     \* the last dbg_cpu0_* call and the last result
    taken             \* what the CPU has carried out since the call

hardware == <<tap, devs, dbg, abandoned>>
program == <<pc, todo, got, kept, sent, discovered, call, result>>
vars == <<setup, hardware, program, taken>>

InCall == pc \in {"command", "ack", "error", "data", "finish"}

-----------------------------------------------------------------------------
(* The registers of a TAP (tap_top.v), least significant bit first.        *)
IrLength == 4
Opcode == [IDCODE |-> <<0, 1, 0, 0>>, DEBUG |-> <<0, 0, 0, 1>>, BYPASS |-> <<1, 1, 1, 1>>]
Debugging(d) == d.instruction = Opcode.DEBUG

reset_sync(kind) ==
    [ir |-> <<>>, dr |-> <<>>,
     instruction |-> IF IdCode[kind] = <<>> THEN Opcode.BYPASS ELSE Opcode.IDCODE]
\* The instructions that the TAP does not support are taken for BYPASS here;
\* their TDO is 0, as that of BYPASS is for the zeros that a call shifts in.
do_capture_dr(kind, d) ==
    IF d.instruction = Opcode.IDCODE /\ IdCode[kind] # <<>> THEN IdCode[kind] ELSE <<0>>

Tdo(d) == IF tap = "shift_ir" THEN Head(d.ir)
          ELSE IF Debugging(d) THEN Head(dbg.out) ELSE Head(d.dr)

tck_posedge(kind, d, tdi) ==
    CASE tap = "test_logic_reset" -> reset_sync(kind)
      [] tap = "capture_ir" -> [d EXCEPT !.ir = <<1, 0, 1, 0>>]
      [] tap = "shift_ir"   -> [d EXCEPT !.ir = Append(Tail(@), tdi)]
      [] tap = "update_ir"  -> [d EXCEPT !.instruction = d.ir]
      [] tap = "capture_dr" /\ ~Debugging(d) -> [d EXCEPT !.dr = do_capture_dr(kind, d)]
      [] tap = "shift_dr" /\ ~Debugging(d)   -> [d EXCEPT !.dr = Append(Tail(@), tdi)]
      [] OTHER -> d

-----------------------------------------------------------------------------
(* The debug submodule (tap_or10.v).  in is [data, SPR number, opcode].    *)
Cmd == [NOP |-> <<0, 0, 0>>, IS_CPU_STALLED |-> <<1, 0, 0>>,
        WRITE_CPU_SPR |-> <<0, 1, 0>>, READ_CPU_SPR |-> <<1, 1, 0>>]
ShiftRegLen == DataBits + SprBits + 3
Idle(d) == [d EXCEPT !.busy = FALSE, !.cmd = NoCall, !.answer = NoCall]

Request == {[kind |-> "stalled"]} \cup [kind : {"read"}, spr : BitString(SprBits)]
           \cup [kind : {"write", "write and read"}, spr : BitString(SprBits),
                 data : BitString(DataBits)]
Answer == [err : Bits, data : BitString(DataBits)]

ASSUME CallAssumption == Calls \subseteq Request /\ NoCall \notin Request \cup Answer

\* A bit nobody has set reads as 0 or 1.
Reads(bits) == {b \in [DOMAIN bits -> {0, 1}] : \A i \in DOMAIN bits : bits[i] \in {b[i], X}}
Decoded(opcode) ==
    LET spr == SubSeq(dbg.in, DataBits + 1, DataBits + SprBits)
    IN  IF opcode = Cmd.READ_CPU_SPR THEN [kind |-> "read", spr |-> spr]
        ELSE [kind |-> "write", spr |-> spr, data |-> SubSeq(dbg.in, 1, DataBits)]

step_state_machine_update(opcode, stalled) ==
    IF opcode \in {Cmd.READ_CPU_SPR, Cmd.WRITE_CPU_SPR}
      THEN [dbg EXCEPT !.busy = TRUE, !.cmd = Decoded(opcode), !.answer = NoCall,
                       !.out = Zeros(2 + DataBits)]
      ELSE [Idle(dbg) EXCEPT
              !.out = <<IF opcode = Cmd.IS_CPU_STALLED THEN stalled ELSE 0>>
                        \o Zeros(1 + DataBits)]

step_state_machine_shift(d, tdi) ==
    IF tap # "shift_dr" THEN d
    ELSE [d EXCEPT !.in = Append(Tail(@), tdi), !.out = Append(Tail(@), 0)]

\* Mutant: the answer is there once the register is shifted no more.
step_tick_after_shift(d) ==
    IF ~d.busy THEN d
    ELSE IF d.answer = NoCall \/ tap = "shift_dr" THEN [d EXCEPT !.out = Zeros(2 + DataBits)]
    ELSE [Idle(d) EXCEPT
            !.out = <<1, d.answer.err>> \o IF d.answer.err = 1 THEN Zeros(DataBits)
                                           ELSE d.answer.data]
step_state_machine_tick(d) ==
    IF ~d.busy THEN d
    ELSE IF d.answer = NoCall THEN [d EXCEPT !.out = Zeros(2 + DataBits)]
    ELSE [Idle(d) EXCEPT
            !.out = <<1, d.answer.err>> \o IF d.answer.err = 1 THEN Zeros(DataBits)
                                           ELSE d.answer.data]

Reset(d) == [Idle(d) EXCEPT !.in = [i \in 1 .. ShiftRegLen |-> X]]
Takes(cmd, answer) ==
    taken' = IF InCall THEN Append(taken, [cmd |-> cmd, answer |-> answer]) ELSE taken

Latch ==
    \E opcode \in Reads(SubSeq(dbg.in, DataBits + SprBits + 1, ShiftRegLen)),
       stalled \in {0, 1} :
        /\ dbg' = step_state_machine_update(opcode, stalled)
        /\ IF opcode = Cmd.IS_CPU_STALLED
             THEN Takes([kind |-> "stalled"], [stalled |-> stalled])
             ELSE stalled = 0 /\ UNCHANGED taken
Unanswered == dbg.busy /\ dbg.answer = NoCall

DebugClock(selected, tdi) ==
    /\ abandoned' = (abandoned \/ (Unanswered /\ (~selected \/ tap = "update_dr")))
    /\ \/ ~selected /\ dbg' = Reset(dbg) /\ UNCHANGED taken
       \/ /\ selected /\ tap # "update_dr"
          /\ dbg' = step_state_machine_tick(step_state_machine_shift(dbg, tdi))
          /\ UNCHANGED taken
       \/ selected /\ tap = "update_dr" /\ Latch

\* The CPU carries out the command of the submodule; see DebugPort.
CpuAnswers ==
    /\ Unanswered
    /\ \E answer \in Answer :
         /\ dbg' = [dbg EXCEPT !.answer = answer]
         /\ Takes(dbg.cmd, answer)
    /\ UNCHANGED <<setup, tap, devs, abandoned, program>>

\* It sees that an operation has been abandoned.  Until then, with the wires
\* no longer defined, it may write to the wrong register or address.
CpuRealises ==
    /\ abandoned /\ abandoned' = FALSE
    /\ UNCHANGED <<setup, tap, devs, dbg, program, taken>>

-----------------------------------------------------------------------------
(* One clock.  TDO is read before the rising edge.                         *)
Reading == pc \in {"start bit", "manufacturer", "rest", "idcode", "ack", "error", "data"}
CableTdo == CASE setup.tdo = "ok" -> Tdo(devs[1]) [] setup.tdo = "0" -> 0 [] OTHER -> 1

Clock ==
    /\ todo # <<>>
    /\ LET p == Head(todo)
           resets == p.trst /\ setup.trst
           Tdi(i) == IF i = Len(devs) THEN p.tdi
                     ELSE IF tap \in {"shift_ir", "shift_dr"} THEN Tdo(devs[i + 1]) ELSE 0
       IN  /\ devs' = [i \in DOMAIN devs |->
                         IF resets THEN reset_sync(setup.chain[i])
                         ELSE tck_posedge(setup.chain[i], devs[i], Tdi(i))]
           /\ tap' = IF resets THEN "test_logic_reset" ELSE After(tap, p.tms)
           /\ DebugClock(~resets /\ tap # "test_logic_reset" /\ Debugging(devs[1]), p.tdi)
    /\ todo' = Tail(todo)
    /\ got' = IF Reading THEN Append(got, CableTdo) ELSE got
    /\ UNCHANGED <<setup, pc, kept, sent, discovered, call, result>>

-----------------------------------------------------------------------------
(* The program.  Each of its steps needs the clocks of the one before.     *)
Send(packets, next) == todo' = packets /\ pc' = next /\ got' = <<>>
At(label) == pc = label /\ todo = <<>>
Keep(bits) == kept' = bits
Quit == Send(<<>>, "exit") /\ UNCHANGED kept

ResetTap ==
    /\ At("started")
    /\ Send(tap_reset \o tap_move_from_idle_to_shift_dr, "next device")
    /\ UNCHANGED <<setup, hardware, kept, sent, discovered, call, result, taken>>

(* jtag_enumerate_chain.  invalid_code is the marker that is shifted in    *)
(* behind what the devices hold, followed by zeros.                        *)
SendMarker(n, next) ==
    /\ Send(Stream([i \in 1 .. n |-> IF sent + i <= MarkerBits THEN 1 ELSE 0], FALSE), next)
    /\ sent' = IF sent + n > MarkerBits THEN MarkerBits ELSE sent + n

Discover(id) ==
    /\ discovered' = Append(discovered, id)
    /\ Send(<<>>, "next device")

\* Mutant: one device too many.
NextDeviceTooMany ==
    /\ At("next device")
    /\ IF Len(discovered) <= MaxDevices THEN SendMarker(1, "start bit")
       ELSE Send(<<>>, "enumerated") /\ UNCHANGED sent
    /\ UNCHANGED <<setup, hardware, kept, discovered, call, result, taken>>
NextDevice ==
    /\ At("next device")
    /\ IF Len(discovered) < MaxDevices THEN SendMarker(1, "start bit")
       ELSE Send(<<>>, "enumerated") /\ UNCHANGED sent
    /\ UNCHANGED <<setup, hardware, kept, discovered, call, result, taken>>

\* Mutant: a device without an ID code is passed over.
StartBitSkips ==
    /\ At("start bit")
    /\ \/ got = <<0>> /\ Send(<<>>, "next device") /\ UNCHANGED <<sent, discovered>>
       \/ got = <<1>> /\ SendMarker(ManufBits, "manufacturer") /\ UNCHANGED discovered
    /\ UNCHANGED <<setup, hardware, kept, call, result, taken>>
StartBit ==
    /\ At("start bit")
    /\ \/ got = <<0>> /\ Discover(<<>>) /\ UNCHANGED sent
       \/ got = <<1>> /\ SendMarker(ManufBits, "manufacturer") /\ UNCHANGED discovered
    /\ UNCHANGED <<setup, hardware, kept, call, result, taken>>

ManufacturerCode ==
    /\ At("manufacturer")
    /\ Keep(got)
    /\ IF got # DoneCode THEN SendMarker(RestBits, "rest")
       ELSE Send(<<>>, "enumerated") /\ UNCHANGED sent
    /\ UNCHANGED <<setup, hardware, discovered, call, result, taken>>

RestOfIdCode ==
    /\ At("rest")
    /\ Discover(<<1>> \o kept \o got)
    /\ Keep(<<>>)
    /\ UNCHANGED <<setup, hardware, sent, call, result, taken>>

\* None but zeros read, no device, too many: each throws.
Enumerated ==
    /\ At("enumerated")
    /\ IF Len(discovered) \in 1 .. MaxDevices - 1
         THEN Send(<<TMS>> \o tap_move_from_exit_1_to_idle, "configure") /\ Keep(<<>>)
         ELSE Quit
    /\ UNCHANGED <<setup, hardware, sent, discovered, call, result, taken>>

(* configure_chain: what the BSDL files say, unless the command line says  *)
(* otherwise.  0 is no length, <<>> is TAP_CMD_INVALID.                    *)
Target == discovered[setup.target + 1]
KnowsTarget == Target # <<>> /\ setup.bsdl # "none"
get_IR_size == IF setup.ir_length # 0 THEN setup.ir_length
               ELSE IF KnowsTarget THEN IrLength ELSE 0
bsdl_get_debug_cmd == IF KnowsTarget /\ setup.bsdl = "full" THEN Opcode.DEBUG ELSE <<>>
\* Mutant: what the BSDL file says goes before the command line.
get_debug_cmd_bsdl_first ==
    IF bsdl_get_debug_cmd # <<>> THEN bsdl_get_debug_cmd ELSE setup.debug_cmd
get_debug_cmd == IF setup.debug_cmd # <<>> THEN setup.debug_cmd ELSE bsdl_get_debug_cmd
bsdl_get_idcode_cmd == IF KnowsTarget THEN Opcode.IDCODE ELSE <<>>

\* tap_set_ir, with the opcode cut or extended to the length of the IR.
Fitted(opcode, length) == [i \in 1 .. length |-> IF i <= Len(opcode) THEN opcode[i] ELSE 0]
SetIr(opcode) == tap_set_ir(Fitted(opcode, get_IR_size))

ConfigureChain ==
    /\ At("configure")
    /\ IF /\ Len(discovered) = 1 /\ setup.target = 0
          /\ get_IR_size # 0 /\ get_debug_cmd # <<>> /\ bsdl_get_idcode_cmd # <<>>
         THEN Send(SetIr(bsdl_get_idcode_cmd) \o tap_move_from_idle_to_shift_dr, "identify")
         ELSE Send(<<>>, "exit")
    /\ UNCHANGED <<setup, hardware, kept, sent, discovered, call, result, taken>>

JtagGetIdCode ==
    /\ At("identify")
    /\ Send(Stream(Zeros(IdBits), TRUE), "idcode")
    /\ UNCHANGED <<setup, hardware, kept, sent, discovered, call, result, taken>>

SanityCheck ==
    /\ At("idcode")
    /\ IF got = Target
         THEN Send(tap_move_from_exit_1_to_idle \o SetIr(get_debug_cmd), "serving")
         ELSE Send(tap_move_from_exit_1_to_idle, "exit")
    /\ UNCHANGED <<setup, hardware, kept, sent, discovered, call, result, taken>>

-----------------------------------------------------------------------------
(* dbg_cpu0_*.  A command is shifted in and latched; then the answer is    *)
(* shifted out, zeros being shifted in, and a NOP latched.                 *)
CommandBits(c) ==
    CASE c.kind = "stalled" -> Cmd.IS_CPU_STALLED
      [] c.kind = "read" -> c.spr \o Cmd.READ_CPU_SPR
      [] OTHER -> c.data \o c.spr \o Cmd.WRITE_CPU_SPR

\* The CPU has long noticed what the program before this one has abandoned:
\* its start takes many clocks of the TAPs, that only some of the CPU.
Call(c) ==
    /\ At("serving") /\ ~abandoned
    /\ call' = c /\ taken' = <<>> /\ result' = Failed
    /\ Send(tap_move_from_idle_to_shift_dr \o Stream(CommandBits(c), TRUE)
              \o tap_move_from_exit_1_to_idle \o tap_move_from_idle_to_shift_dr, "command")
    /\ UNCHANGED <<setup, hardware, kept, sent, discovered>>

finish_and_leave_a_dbg_nop_cmd_in_place(answer) ==
    /\ Send(Stream(Zeros(3), TRUE) \o tap_move_from_exit_1_to_idle, "finish")
    /\ Keep(answer)

PollAck ==
    /\ At("command") \/ (At("ack") /\ got = <<0>> /\ call.kind # "stalled")
    /\ Send(<<Zero>>, "ack")
    /\ UNCHANGED <<setup, hardware, kept, sent, discovered, call, result, taken>>

IsStalled ==
    /\ At("ack") /\ call.kind = "stalled"
    /\ finish_and_leave_a_dbg_nop_cmd_in_place([stalled |-> got[1]])
    /\ UNCHANGED <<setup, hardware, sent, discovered, call, result, taken>>

ErrorBit ==
    /\ At("ack") /\ got = <<1>> /\ call.kind # "stalled"
    /\ Send(<<Zero>>, "error")
    /\ UNCHANGED <<setup, hardware, kept, sent, discovered, call, result, taken>>

\* Mutant: the error bit is not looked at.
ReadSprAnyway ==
    /\ At("error")
    /\ IF call.kind = "write"
         THEN finish_and_leave_a_dbg_nop_cmd_in_place([err |-> got[1]])
         ELSE Send(Stream(Zeros(DataBits), FALSE), "data") /\ UNCHANGED kept
    /\ UNCHANGED <<setup, hardware, sent, discovered, call, result, taken>>
ReadSpr ==
    /\ At("error")
    /\ CASE call.kind = "write" ->
              finish_and_leave_a_dbg_nop_cmd_in_place([err |-> got[1]])
         [] call.kind # "write" /\ got = <<1>> ->
              finish_and_leave_a_dbg_nop_cmd_in_place([err |-> 1, data |-> Zeros(DataBits)])
         [] OTHER -> Send(Stream(Zeros(DataBits), FALSE), "data") /\ UNCHANGED kept
    /\ UNCHANGED <<setup, hardware, sent, discovered, call, result, taken>>

SprRead ==
    /\ At("data")
    /\ finish_and_leave_a_dbg_nop_cmd_in_place([err |-> 0, data |-> got])
    /\ UNCHANGED <<setup, hardware, sent, discovered, call, result, taken>>

Return ==
    /\ At("finish")
    /\ result' = kept /\ Keep(<<>>)
    /\ Send(<<>>, "serving") /\ taken' = <<>>
    /\ UNCHANGED <<setup, hardware, sent, discovered, call>>

-----------------------------------------------------------------------------
(* A cable error throws, and so ends the program or, in a request of GDB,  *)
(* only the request; or the program is stopped.                            *)
Fail ==
    /\ pc # "exit"
    /\ Send(<<>>, IF InCall /\ CatchErrors THEN "serving" ELSE "exit") /\ Keep(<<>>)
    /\ result' = Failed
    /\ taken' = <<>>
    /\ UNCHANGED <<setup, hardware, sent, discovered, call>>

\* The chain is as the last program left it.
Start ==
    /\ At("exit")
    /\ Send(<<>>, "started") /\ Keep(<<>>)
    /\ sent' = 0 /\ discovered' = <<>>
    /\ UNCHANGED <<setup, hardware, call, result, taken>>

Init ==
    /\ setup \in Setups
    /\ tap = "test_logic_reset"
    /\ devs = [i \in DOMAIN setup.chain |-> reset_sync(setup.chain[i])]
    /\ dbg = [busy |-> FALSE, cmd |-> NoCall, answer |-> NoCall, out |-> Zeros(2 + DataBits),
              in |-> [i \in 1 .. ShiftRegLen |-> X]]
    /\ abandoned = FALSE
    /\ pc = "exit" /\ todo = <<>> /\ got = <<>> /\ kept = <<>>
    /\ sent = 0 /\ discovered = <<>>
    /\ call = NoCall /\ result = Failed /\ taken = <<>>

ProgramStep ==
    \/ Clock
    \/ ResetTap \/ NextDevice \/ StartBit \/ ManufacturerCode \/ RestOfIdCode
    \/ Enumerated \/ ConfigureChain \/ JtagGetIdCode \/ SanityCheck
    \/ PollAck \/ IsStalled \/ ErrorBit \/ ReadSpr \/ SprRead \/ Return

Next ==
    \/ ProgramStep
    \/ CpuAnswers
    \/ CpuRealises
    \/ \E c \in Calls : Call(c)
    \/ Fail
    \/ Start

Spec == Init /\ [][Next]_vars

\* The program does not wait for anything, and the CPU answers.
FairSpec == Spec /\ WF_vars(ProgramStep) /\ WF_vars(CpuAnswers)

-----------------------------------------------------------------------------
Labels == {"exit", "started", "next device", "start bit", "manufacturer", "rest",
           "enumerated", "configure", "identify", "idcode", "serving", "command",
           "ack", "error", "data", "finish"}

(* The values each variable takes.                                         *)
TypeOK ==
    /\ setup \in Setups /\ tap \in State /\ Len(devs) = Len(setup.chain)
    /\ \A i \in DOMAIN devs :
         /\ devs[i].ir = <<>> \/ devs[i].ir \in BitString(IrLength)
         /\ devs[i].dr = <<>> \/ devs[i].dr \in BitString(1) \cup BitString(IdBits)
         /\ devs[i].instruction \in BitString(IrLength)
    /\ dbg.busy \in BOOLEAN /\ dbg.out \in BitString(2 + DataBits)
    /\ dbg.in \in [1 .. ShiftRegLen -> Bits \cup {X}] /\ abandoned \in BOOLEAN
    /\ pc \in Labels /\ todo \in Seq(Packet) /\ got \in Seq(Bits)
    /\ sent \in 0 .. MarkerBits /\ Len(discovered) \in 0 .. MaxDevices
    /\ call \in Calls \cup {NoCall} /\ Len(taken) \in 0 .. 1

(* Once the program takes requests, the enumeration has found just what is *)
(* in the chain; the OR10 is alone in it and has its DEBUG instruction     *)
(* selected, or the one the command line gives, which nothing checks; and  *)
(* between two calls the TAP is in Run-Test/Idle, as each function assumes.*)
EnumerationIsExact ==
    At("configure") =>
        discovered = [i \in DOMAIN setup.chain |-> IdCode[setup.chain[i]]]
OperationsStartIdle == At("serving") => tap = "run_test_idle"
Instruction(s) == IF s.debug_cmd = <<>> THEN Opcode.DEBUG ELSE Fitted(s.debug_cmd, IrLength)
ServesTheTarget ==
    /\ EnumerationIsExact /\ OperationsStartIdle
    /\ At("serving") =>
         Len(devs) = 1 /\ setup.tdo = "ok" /\ devs[1].instruction = Instruction(setup)

(* A dbg_cpu0_* function that returns has had its command carried out      *)
(* once, and returns the answer to it, if DEBUG is what the command line   *)
(* makes the TAP select. With another instruction nothing is carried out.  *)
Debugged == Instruction(setup) = Opcode.DEBUG
Promise == INSTANCE DebugCalls WITH
    call <- IF InCall /\ Debugged THEN call ELSE NoCall, NoData <- Zeros(DataBits)
ImplementsDebugCalls == Promise!Spec

(* Whatever clock the program is stopped at, and however it is started     *)
(* again: no command is latched but the one of the last call, unless the   *)
(* register it is latched from holds nothing at all; and the program is    *)
(* patient: no operation is abandoned while a call waits for it, only by   *)
(* the start after a program that was stopped.  What the CPU does before   *)
(* it realises that is anybody's guess.                                    *)
NoStrayCommand ==
    /\ dbg.busy => \/ call # NoCall /\ dbg.cmd = Promise!Command(call)
                   \/ X \in {dbg.cmd.spr[i] : i \in 1 .. SprBits}
    /\ abandoned => ~InCall

(* The start never hangs, whatever the chain and the command line; nor     *)
(* does a call, with DEBUG selected. With BYPASS wait_for_cpu_ack waits    *)
(* for an answer that nobody gives.                                        *)
Responds ==
    (pc \notin {"exit", "serving"} /\ (InCall => Debugged)) ~> (pc \in {"exit", "serving"})
=============================================================================

----------------------------- MODULE RspAccess -----------------------------
(***************************************************************************)
(* The requests of GDB that look at a stalled CPU and change it: the       *)
(* handlers of rsp_or10.cpp for memory, registers, queries and "monitor"   *)
(* commands, between the packets of RspPackets and the memory accesses of  *)
(* DbgMemory.  Running the CPU and hardware breakpoints: see GdbBridge.    *)
(*                                                                         *)
(* A number in a packet is one hexadecimal digit here, separators are left *)
(* out, and each name (of a query, of a monitor command) is one letter.    *)
(* Addresses and lengths are numbers modulo 4 * WordCount, as they are     *)
(* modulo 2^32 in the code.                                                *)
(***************************************************************************)
EXTENDS RspPackets, DbgMemory

CONSTANTS
    DigitBase,      \* values of a hex digit of the data, a power of 2: 16
    MAX_GPRS,
    HasPic, HasTick, \* the unit presence register
    PatientMonitor, \* GDB does not time out on a "monitor" command
    NoJob

ASSUME RspAccessAssumption ==
    /\ DigitBase \in {4, 8, 16} /\ ByteBase = DigitBase * DigitBase
    \* Addresses and lengths of one digit fit: see StartAddress and Length.
    /\ WordCount >= 5
    /\ NoJob \notin [op : {"read", "write"}, start : Address, count : Nat, data : Seq(Byte)]
    /\ MAX_GPRS \in Nat
    \* What sets the CPU running is not a request of this module.
    /\ \A n \in 1 .. MaxRequests : \A r \in GdbRequest[n] : r[1] \notin {99, 115, 90, 122}
    /\ HasPic \in BOOLEAN /\ HasTick \in BOOLEAN /\ PatientMonitor \in BOOLEAN

\* GDB sends text: binary data only to a stub that has taken an 'X' packet,
\* and 'b' and 'B' to one that runs backwards or has a baud rate.
ASSUME RequestsAreText ==
    \A n \in 1 .. MaxRequests : \A r \in GdbRequest[n] :
        \/ r \in {<<KillRequest>>, <<GDB_RSP_BREAK_CMD>>}
        \/ /\ \A k \in 1 .. Len(r) :
                 r[k] \notin {0, GDB_RSP_BREAK_CMD, Dollar, Hash, Star, Brace}
           /\ r[1] \notin {Plus, Minus, KillRequest, 66, 98}

VARIABLES
    regs,           \* the other Special Purpose Registers of the CPU
    jtag_ok         \* the connection with the CPU

vars == <<pc, receiver, reply, wires, client, history, memory, access, regs, jtag_ok>>
target == <<memory, access, regs, jtag_ok>>

\* Numbers of the SPRs, and GDB's numbers of the registers.
SPR_NPC == MAX_GPRS
SPR_SR == MAX_GPRS + 1
EPCR == MAX_GPRS + 2
PICMR == MAX_GPRS + 3
TTMR == MAX_GPRS + 4
Spr == 0 .. TTMR
PPC_REGNUM == MAX_GPRS
NPC_REGNUM == MAX_GPRS + 1
SR_REGNUM == MAX_GPRS + 2

\* Letters of the protocol: 'm' and so on.
ReadMem == 109
WriteMem == 77
WriteReg == 80
ReadRegs == 103
Query == 113
Rcmd == 82
OK == <<79, 75>>
ErrorCode == <<69, 48, 49>>
Stopped == <<83, 48, 53>>
Text == <<116>>
ErrorText == <<120>>

TypeOK ==
    /\ PacketsTypeOK /\ MemoryTypeOK
    /\ regs \in [Spr -> 0 .. DigitBase - 1] /\ jtag_ok \in BOOLEAN
    /\ access.at # "none" => pc = "access"

-----------------------------------------------------------------------------
(* How a handler ends.                                                     *)

\* Mutant: the error is reported instead, as the "monitor" commands do it.
ThrowReplies ==
    /\ PutPacket(ErrorText, "acking") /\ toBridge' = <<>>
    /\ access' = NoAccess /\ UNCHANGED <<memory, regs, jtag_ok>>

\* process_rsp_client_request gives the client up, which takes the CPU: the
\* exception of detach_from_cpu ends the program.
Throw ==
    /\ pc' = IF jtag_ok THEN "listening" ELSE "crashed"
    /\ ClientClose
    /\ access' = NoAccess /\ UNCHANGED <<memory, regs, jtag_ok>>

Reply(payload) == PutPacket(payload, "acking") /\ UNCHANGED toBridge

Handles(op) == pc = "handling" /\ Head(buf) = op
HasFields(n) == Len(buf) >= n + 1 /\ \A k \in 2 .. n + 1 : buf[k] \in HexDigit
Field(k) == parse_hex_digit(buf[k + 1])
\* Digits in a packet are those of this instance.
DataDigit(char) == parse_hex_digit(char) % DigitBase
\* 0 to 9 are themselves, a to f the six highest addresses, and as lengths the
\* six from 2^31 on, which are negative to an int and wrap when doubled.
StartAddress == IF Field(1) < 10 THEN Field(1) ELSE 4 * WordCount - 16 + Field(1)
Length == IF Field(2) < 10 THEN Field(2) ELSE 2 * WordCount - 10 + Field(2)
TwiceLength == (2 * Length) % (4 * WordCount)
Digits(data) == [i \in 1 .. 2 * Len(data) |->
    get_hex_char(IF i % 2 = 1 THEN data[(i + 1) \div 2] \div DigitBase
                 ELSE data[i \div 2] % DigitBase)]
BytesIn(chars) == [i \in 1 .. Len(chars) \div 2 |->
    DigitBase * DataDigit(chars[2 * i - 1]) + DataDigit(chars[2 * i])]

\* rsp_read_mem
ReadMemIsLegal == HasFields(2) /\ Length > 0 /\ TwiceLength < BufMax

rsp_read_mem ==
    /\ Handles(ReadMem) /\ ReadMemIsLegal
    /\ pc' = "access" /\ StartReadMem(StartAddress, Length)
    /\ UNCHANGED <<receiver, reply, wires, client, history, memory, regs, jtag_ok>>

\* rsp_write_mem
WriteDigits == SubSeq(buf, 4, Len(buf))

\* The loop that reads the data digits ends at once when the length is negative.
NegativeLength == Length >= 2 * WordCount
WriteMemIsLegal ==
    /\ HasFields(2) /\ TwiceLength = Len(WriteDigits)
    /\ NegativeLength \/ \A k \in DOMAIN WriteDigits : WriteDigits[k] \in HexDigit

\* Where the packet has no data digit its ':' may be missing too, which sscanf
\* does not notice: memchr then returns a null pointer, the number of digits
\* computed from it is any number, and hardly ever the right one.
ColonMayMiss == HasFields(2) /\ (WriteDigits # <<>> => buf[4] \notin HexDigit)

rsp_write_mem ==
    /\ Handles(WriteMem) /\ WriteMemIsLegal /\ Length > 0 /\ ~NegativeLength
    /\ pc' = "access" /\ StartWriteMem(StartAddress, BytesIn(WriteDigits))
    /\ UNCHANGED <<receiver, reply, wires, client, history, memory, regs, jtag_ok>>

AccessMemory ==
    /\ pc = "access" /\ jtag_ok /\ AccessStep
    /\ UNCHANGED <<pc, receiver, reply, wires, client, history, regs, jtag_ok>>

\* Mutant: an error of a write is reported as one of a read is.
MemoryReplyHidesErrors ==
    IF Head(buf) = ReadMem THEN Digits(access.data) ELSE OK

MemoryReply ==
    IF Head(buf) = ReadMem THEN Digits(access.data)
    ELSE IF access.at = "failed" THEN ErrorCode ELSE OK

\* Two digits a byte and the end of the string have to fit.
ReplyFits == Head(buf) = ReadMem => 2 * Len(access.data) < BufMax

FinishAccess ==
    /\ pc = "access" /\ access.at \in {"done", "failed"} /\ ReplyFits
    /\ Reply(MemoryReply)
    /\ access' = NoAccess /\ UNCHANGED <<memory, regs, jtag_ok>>

\* What happens when the reply is written beyond its buffer is undefined; the
\* model says that it ends the program.
ReplyOverflows ==
    /\ pc = "access" /\ access.at = "done" /\ ~ReplyFits
    /\ pc' = "crashed" /\ ClientClose
    /\ access' = NoAccess /\ UNCHANGED <<memory, regs, jtag_ok>>

-----------------------------------------------------------------------------
(* Registers.                                                              *)

rsp_read_all_regs ==
    /\ Handles(ReadRegs) /\ jtag_ok
    /\ Reply([i \in 1 .. MAX_GPRS |-> get_hex_char(regs[i - 1])]
             \o <<get_hex_char(0), get_hex_char(regs[SPR_NPC]), get_hex_char(regs[SPR_SR])>>)
    /\ UNCHANGED target

\* parse_reg_32_from_hex sets bits in a variable it has not initialised.
HasBitsOf(g, v) ==
    \A bit \in {2 ^ k : k \in 0 .. DigitBase} :
        (v \div bit) % 2 = 1 => (g \div bit) % 2 = 1
parse_reg_from_hex(v) == {g \in 0 .. DigitBase - 1 : HasBitsOf(g, v)}

SprOf(regnum) ==
    IF regnum = NPC_REGNUM THEN SPR_NPC ELSE IF regnum = SR_REGNUM THEN SPR_SR ELSE regnum

\* The value of the register that is ignored is not even parsed.
WriteRegIsLegal ==
    /\ HasFields(1) /\ Len(buf) > 2 /\ Field(1) <= SR_REGNUM
    /\ Field(1) # PPC_REGNUM => HasFields(2)

rsp_write_reg ==
    /\ Handles(WriteReg) /\ WriteRegIsLegal
    /\ \/ Field(1) = PPC_REGNUM /\ UNCHANGED regs
       \/ /\ Field(1) # PPC_REGNUM /\ jtag_ok
          /\ \E v \in parse_reg_from_hex(Field(2)) :
                regs' = [regs EXCEPT ![SprOf(Field(1))] = v]
    /\ Reply(OK)
    /\ UNCHANGED <<memory, access, jtag_ok>>

-----------------------------------------------------------------------------
(* rsp_pass_through_command: the "monitor" commands.  What throws in here, *)
(* the acknowledgement of the reply included, is caught in here and makes  *)
(* one more reply.                                                         *)

Monitors(command) == pc = "handling" /\ IsPrefix(<<Query, Rcmd, command>>, buf)
MonitorReply(payload) == PutPacket(payload, "acking_monitor") /\ UNCHANGED toBridge

MonitorHelp == Monitors(104) /\ MonitorReply(Text) /\ UNCHANGED target

SprArgument(n) == Len(buf) >= n + 3 /\ \A k \in 4 .. n + 3 : buf[k] \in HexDigit
SprNumber == parse_hex_digit(buf[4])
SprIsThere == SprArgument(1) /\ SprNumber \in Spr

MonitorReadSpr ==
    /\ Monitors(114) /\ SprIsThere /\ jtag_ok
    /\ MonitorReply(<<get_hex_char(regs[SprNumber])>>) /\ UNCHANGED target

\* Of a register that holds its value and does nothing else.
MonitorWriteSpr ==
    /\ Monitors(119) /\ SprArgument(2) /\ SprIsThere /\ jtag_ok
    /\ regs' = [regs EXCEPT ![SprNumber] = DataDigit(buf[5])]
    /\ MonitorReply(OK) /\ UNCHANGED <<memory, access, jtag_ok>>

\* EEAR, ESR and TTCR are written as EPCR and TTMR are.
ResetWrites ==
    <<SPR_SR, SPR_NPC, EPCR>> \o [i \in 1 .. MAX_GPRS |-> i - 1]
       \o (IF HasPic THEN <<PICMR>> ELSE <<>>) \o (IF HasTick THEN <<TTMR>> ELSE <<>>)
\* RESET_SPR_SR, RESET_VECTOR and so on: any values will do.
ResetValue(spr) == IF spr \in {SPR_SR, SPR_NPC} THEN 1 ELSE IF spr < MAX_GPRS THEN 2 ELSE 0
AfterWrites(n) ==
    [spr \in Spr |-> IF \E i \in 1 .. n : ResetWrites[i] = spr
                     THEN ResetValue(spr) ELSE regs[spr]]

MonitorReset ==
    /\ Monitors(122) /\ jtag_ok /\ UNCHANGED <<memory, access>>
    /\ \/ /\ regs' = AfterWrites(Len(ResetWrites)) /\ UNCHANGED jtag_ok
          /\ MonitorReply(Text)
       \/ \E n \in 0 .. Len(ResetWrites) - 1 :
             /\ regs' = AfterWrites(n) /\ jtag_ok' = FALSE
             /\ Reply(ErrorText)

\* Unknown commands, illegal arguments, SPRs that are not there and a lost
\* JTAG connection all end in a text.
MonitorError ==
    /\ Handles(Query) /\ Len(buf) >= 2 /\ buf[2] = Rcmd
    /\ ~ \/ Monitors(104)
         \/ jtag_ok /\ Monitors(114) /\ SprIsThere
         \/ jtag_ok /\ Monitors(119) /\ SprArgument(2) /\ SprIsThere
         \/ jtag_ok /\ Monitors(122)
    /\ Reply(ErrorText) /\ UNCHANGED target

MonitorRefused ==
    /\ BadAcknowledgement("acking_monitor")
    /\ toBridge' = IF Char = EndOfFile THEN toBridge ELSE Tail(toBridge)
    /\ PutPacket(ErrorText, "acking")
    /\ UNCHANGED target

-----------------------------------------------------------------------------
(* The requests with an answer that needs nothing from the CPU: rsp_query, *)
(* rsp_vpkt and the rest of process_client_command.                        *)

FixedReply ==
    LET op == Head(buf)
        name == IF Len(buf) > 1 THEN buf[2] ELSE 0
    IN  CASE op \in {GDB_RSP_BREAK_CMD, 63} -> Stopped  \* '?'
          [] op \in {33, 72} -> OK                      \* '!' 'H'
          [] op \in {68, 88} -> <<>>                    \* 'D' 'X'
          [] op = 118 -> IF name = 75 THEN OK ELSE <<>> \* 'v', "Kill"
          [] op = Query /\ name = 89 -> OK              \* "Symbol"
          [] op = Query /\ name \in {67, 65, 84} -> <<>> \* "C", "Attached", "TStatus"
          [] op = Query /\ name \in {79, 83} -> Text    \* "Offsets", "Supported"

IsFixed ==
    \/ Head(buf) \in {GDB_RSP_BREAK_CMD, 63, 33, 72, 68, 88, 118} /\ (Head(buf) = 118 => Len(buf) > 1)
    \/ Head(buf) = Query /\ Len(buf) > 1 /\ buf[2] \in {89, 67, 65, 84, 79, 83}

AnswerFixed == pc = "handling" /\ IsFixed /\ Reply(FixedReply) /\ UNCHANGED target

kill_request ==
    /\ Handles(KillRequest) /\ pc' = "idle"
    /\ UNCHANGED <<receiver, reply, wires, client, history, target>>

\* Unknown packets and queries fail an assertion, which ends the program and
\* leaves the CPU as it is; so do a write of no bytes and one of a negative
\* number of bytes, as the data is shorter than that.
AssertionFails ==
    /\ \/ pc = "handling"
          /\ Head(buf) \notin {ReadMem, WriteMem, WriteReg, ReadRegs, Query, KillRequest}
          /\ ~IsFixed /\ Head(buf) # 118
       \/ Handles(Query) /\ Len(buf) > 1 /\ buf[2] # Rcmd /\ ~IsFixed
       \/ Handles(WriteMem) /\ WriteMemIsLegal /\ (Length = 0 \/ NegativeLength)
       \/ Handles(WriteMem) /\ ColonMayMiss
    /\ pc' = "crashed" /\ ClientClose /\ UNCHANGED target

-----------------------------------------------------------------------------
(* What is thrown.                                                         *)

IllegalRequest ==
    \/ Handles(ReadMem) /\ ~ReadMemIsLegal
    \/ Handles(WriteMem) /\ (~WriteMemIsLegal \/ ColonMayMiss)
    \/ Handles(WriteReg) /\ ~WriteRegIsLegal
    \/ pc = "handling" /\ Head(buf) \in {Query, 118} /\ Len(buf) = 1

JtagThrows ==
    /\ ~jtag_ok
    /\ \/ Handles(ReadRegs)
       \/ Handles(WriteReg) /\ WriteRegIsLegal /\ Field(1) # PPC_REGNUM
       \/ pc = "access" /\ access.at \notin {"done", "failed"}

Caught ==
    /\ BadInput \/ BadAcknowledgement("acking") \/ IllegalRequest \/ JtagThrows
    /\ Throw

\* poll_cpu and check_connection_with_cpu_is_still_there: nobody catches.
PollFails ==
    /\ pc \in {"listening", "idle"} /\ ~jtag_ok
    /\ pc' = "crashed" /\ ClientClose /\ UNCHANGED target

-----------------------------------------------------------------------------
Init ==
    /\ PacketsInit
    /\ mem \in [Word -> WordValue] /\ bad \subseteq Word
    /\ write_mem_addr \in Word /\ access = NoAccess
    /\ regs \in [Spr -> 0 .. DigitBase - 1] /\ jtag_ok = TRUE

Handle ==
    \/ rsp_read_mem \/ rsp_write_mem \/ AccessMemory \/ FinishAccess
    \/ ReplyOverflows \/ rsp_read_all_regs \/ rsp_write_reg
    \/ MonitorHelp \/ MonitorReadSpr \/ MonitorWriteSpr \/ MonitorReset
    \/ MonitorError \/ MonitorRefused
    \/ AnswerFixed \/ kill_request \/ AssertionFails \/ Caught

Receive == (GetPacket \/ Acknowledged) /\ UNCHANGED target

JtagIsLost ==
    /\ jtag_ok /\ jtag_ok' = FALSE
    /\ UNCHANGED <<pc, receiver, reply, wires, client, history, memory, access, regs>>

Connect == Accept /\ jtag_ok /\ UNCHANGED target

\* The user starts the program again, on a target that works.
Restart ==
    /\ pc = "crashed" /\ pc' = "listening" /\ jtag_ok' = TRUE
    /\ UNCHANGED <<receiver, reply, wires, client, history, memory, access, regs>>

\* A "monitor" command may take GDB's patience to wait for its reply.
MayTimeOut == PatientMonitor => ~IsPrefix(<<Query, Rcmd>>, request)
GdbStep == Gdb /\ UNCHANGED target /\ (timeouts' # timeouts => MayTimeOut)

Bridge == Receive \/ Handle \/ PollFails

Next == GdbStep \/ Bridge \/ JtagIsLost \/ Connect \/ Restart

Spec == Init /\ [][Next]_vars

\* The server loop runs, and GDB reads what it is sent.
Fairness ==
    /\ WF_vars(Bridge)
    /\ WF_vars((GdbGetsAck \/ GdbGetsReply) /\ UNCHANGED target)

FairSpec == Spec /\ Fairness

-----------------------------------------------------------------------------
(***************************************************************************)
(* Properties                                                              *)
(***************************************************************************)

\* get_packet_2: what the handlers get is what GDB sent, whole and once,
\* whatever was lost on the way, cut off by a disconnection, repeated after
\* a timeout or left over from an earlier connection.  Only the request to
\* kill the program, which has no reply and no effect, may run twice.
OnlyWholeRequests ==
    pc \in {"handling", "access"} /\ buf # <<KillRequest>> =>
        buf = request /\ ~damaged /\ started = 1

\* rsp_server.cpp, "Any errors reading o processing a packet close the
\* client connection": a request never gets a second reply, which GDB would
\* take for the answer to its next one.
OneReplyPerRequest == gdb # "absent" => answered <= 1

\* "Make sure we won't overflow the buffer" (rsp_or10.cpp:348): what has been
\* read fits into the reply.  With a length that wraps it does not, and no run
\* checks it: see section 5 of the README.
ReadFitsTheReply == pc = "access" /\ access.at = "done" => ReplyFits

\* The memory under every sequence of requests, errors and disconnections is
\* the one GDB is promised (RemoteMemory).
DecodedReply ==
    IF reply = OK THEN [kind |-> "ok", data |-> <<>>]
    ELSE IF reply = ErrorCode THEN [kind |-> "error", data |-> <<>>]
    ELSE IF \A k \in DOMAIN reply : reply[k] \in HexDigit
    THEN [kind |-> "data", data |-> BytesIn(reply)]
    ELSE [kind |-> "other", data |-> <<>>]

Remote == INSTANCE RemoteMemory WITH
    AddressCount <- 4 * WordCount,
    bytes <- [a \in Address |-> break_up_into_bytes(mem[a \div 4])[(a % 4) + 1]],
    broken <- {a \in Address : a \div 4 \in bad},
    job <- IF pc # "access" THEN NoJob
           ELSE [op |-> IF Head(buf) = ReadMem THEN "read" ELSE "write",
                 start |-> StartAddress, count |-> Length,
                 data |-> BytesIn(WriteDigits)],
    stored <- IF pc = "access" /\ Head(buf) = WriteMem
              THEN Length - Len(access.data) ELSE 0,
    answer <- DecodedReply

ImplementsRemoteMemory == Remote!Spec

\* A request that reaches the bridge whole is answered, or the connection
\* ends, whatever GDB sends again meanwhile.
RequestsAreAnswered == gdb \in {"ack", "reply"} /\ ~damaged ~> gdb \in {"idle", "absent"}
=============================================================================

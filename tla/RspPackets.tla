---------------------------- MODULE RspPackets -----------------------------
(***************************************************************************)
(* The Remote Serial Protocol between GDB and the bridge, one character    *)
(* after another over a TCP socket: get_packet_2 and put_packet of         *)
(* rsp_packet_helpers.cpp, and the GDB they expect at the other end, which *)
(* times out and repeats itself, goes away in the middle of anything, or   *)
(* speaks through a serial line that loses a character.                    *)
(***************************************************************************)
EXTENDS Integers, Sequences, SequencesExt

CONSTANTS
    MaxRequests,    \* bound: requests of GDB
    GdbRequest,     \* what GDB sends: the contents of its n-th packet
    BufMax,         \* GDB_BUF_MAX
    MaxTimeouts     \* bound: timeouts of GDB

ASSUME RspPacketsAssumption ==
    /\ \A n \in 1 .. MaxRequests : \A r \in GdbRequest[n] : r \in Seq(0 .. 255) /\ r # <<>>
    /\ BufMax \in Nat \ {0, 1} /\ MaxRequests \in Nat /\ MaxTimeouts \in Nat

VARIABLES
    pc,             \* where the bridge is
    is_first_packet, buf, checksum, digit, \* get_packet_2
    reply,          \* the packet put_packet was last given
    toBridge,       \* client_fd: characters on their way to the bridge,
    toGdb,          \* and acknowledgements and packets on their way to GDB
    gdb, request,   \* what GDB is waiting for, and its last request
    damaged,        \* the serial line has lost a character of it
    asked, timeouts, \* counters for the bounds
    started, answered \* history: the request's executions and replies

receiver == <<is_first_packet, buf, checksum, digit>>
client == <<gdb, request, damaged, asked, timeouts>>
history == <<started, answered>>
wires == <<toBridge, toGdb>>

Dollar == 36    \* '$'
Hash == 35      \* '#'
Star == 42      \* '*'
Brace == 125    \* '}'
Plus == 43      \* '+'
Minus == 45     \* '-'
GDB_RSP_BREAK_CMD == 3
EndOfFile == 256 \* the -1 of get_rsp_char
KillRequest == 107  \* 'k', which has no reply

get_hex_char(v) == IF v < 10 THEN 48 + v ELSE 87 + v
HexDigit == {get_hex_char(v) : v \in 0 .. 15} \cup 65 .. 70
parse_hex_digit(c) == IF c < 58 THEN c - 48 ELSE IF c < 71 THEN c - 55 ELSE c - 87

\* All the characters that put_packet escapes have the bit 0x20 set.
Escape(ch) == IF ch \in {Dollar, Hash, Star, Brace} THEN <<Brace, ch - 32>> ELSE <<ch>>

\* Recursive functions, and not folds, for the sake of TLC's speed.
Sum(chars) ==
    LET sum[n \in 0 .. Len(chars)] == IF n = 0 THEN 0 ELSE (sum[n - 1] + chars[n]) % 256
    IN  sum[Len(chars)]
Body(payload) ==
    LET body[n \in 0 .. Len(payload)] ==
            IF n = 0 THEN <<>> ELSE body[n - 1] \o Escape(payload[n])
    IN  body[Len(payload)]
Wrapped(body) ==
    <<Dollar>> \o body \o <<Hash, get_hex_char(Sum(body) \div 16), get_hex_char(Sum(body) % 16)>>
Frame(payload) == Wrapped(Body(payload))

PacketsTypeOK ==
    /\ pc \in {"listening", "idle", "start", "body", "sum1", "sum2", "handling",
               "access", "acking", "acking_monitor", "crashed"}
    /\ is_first_packet \in BOOLEAN /\ damaged \in BOOLEAN
    /\ buf \in Seq(0 .. 255) /\ Len(buf) < BufMax
    /\ checksum \in 0 .. 255 /\ digit \in 0 .. 256
    /\ reply \in Seq(0 .. 255)
    /\ toBridge \in Seq(0 .. 256) /\ toGdb \in Seq(Seq(0 .. 255))
    /\ gdb \in {"absent", "idle", "ack", "reply"}
    /\ request = <<>> \/ \E n \in 1 .. MaxRequests : request \in GdbRequest[n]
    /\ asked \in 0 .. MaxRequests /\ timeouts \in 0 .. MaxTimeouts
    /\ started \in Nat /\ answered \in Nat

PacketsInit ==
    /\ pc = "listening" /\ is_first_packet = TRUE
    /\ buf = <<>> /\ checksum = 0 /\ digit = 0 /\ reply = <<>>
    /\ toBridge = <<>> /\ toGdb = <<>>
    /\ gdb = "absent" /\ request = <<>> /\ damaged = FALSE
    /\ asked = 0 /\ timeouts = 0 /\ started = 0 /\ answered = 0

-----------------------------------------------------------------------------
(* GDB.                                                                    *)

Asks(r) ==
    /\ gdb = "idle"
    /\ gdb' = IF r = <<GDB_RSP_BREAK_CMD>> THEN "reply" ELSE "ack"
    /\ request' = r /\ asked' = asked + 1
    /\ started' = 0 /\ answered' = 0
    /\ UNCHANGED <<pc, receiver, reply, toGdb, timeouts>>

\* A break is a single character, and not acknowledged.
Sent(r) == IF r = <<GDB_RSP_BREAK_CMD>> THEN r ELSE Frame(r)

GdbSends(r) ==
    /\ Asks(r) /\ damaged' = FALSE
    /\ toBridge' = toBridge \o Sent(r)

GdbSendsDamaged(r) ==
    /\ Asks(r) /\ damaged' = TRUE
    /\ \E k \in 1 .. Len(Sent(r)) : toBridge' = toBridge \o RemoveAt(Sent(r), k)

\* A second acknowledgement in the place of a reply is dropped.
GdbGetsAck ==
    /\ gdb \in {"ack", "reply"} /\ toGdb # <<>> /\ Head(toGdb) = <<Plus>>
    /\ gdb' = IF Head(request) = KillRequest THEN "idle" ELSE "reply"
    /\ toGdb' = Tail(toGdb)
    /\ UNCHANGED <<pc, receiver, reply, toBridge, request, damaged, asked, timeouts, history>>

\* A reply in the place of the acknowledgement is an old one: GDB
\* acknowledges it and drops it.
GdbGetsReply ==
    /\ gdb \in {"ack", "reply"} /\ toGdb # <<>> /\ Head(toGdb) # <<Plus>>
    /\ toGdb' = Tail(toGdb) /\ toBridge' = Append(toBridge, Plus)
    /\ gdb' = IF gdb = "reply" THEN "idle" ELSE gdb
    /\ UNCHANGED <<pc, receiver, reply, request, damaged, asked, timeouts, history>>

\* GDB sends a request again that is not acknowledged, and asks with a '-'
\* for a reply that does not come.
GdbTimesOut ==
    /\ gdb \in {"ack", "reply"} /\ timeouts < MaxTimeouts
    /\ timeouts' = timeouts + 1
    /\ toBridge' = toBridge \o (IF gdb = "ack" THEN Frame(request) ELSE <<Minus>>)
    /\ UNCHANGED <<pc, receiver, reply, toGdb, gdb, request, damaged, asked, history>>

GdbLeaves ==
    /\ gdb # "absent" /\ gdb' = "absent"
    /\ toBridge' = Append(toBridge, EndOfFile) /\ toGdb' = <<>>
    /\ UNCHANGED <<pc, receiver, reply, request, damaged, asked, timeouts, history>>

Gdb ==
    \/ asked < MaxRequests /\ \E r \in GdbRequest[asked + 1] : GdbSends(r) \/ GdbSendsDamaged(r)
    \/ GdbGetsAck \/ GdbGetsReply \/ GdbTimesOut \/ GdbLeaves

-----------------------------------------------------------------------------
(* get_packet_2                                                            *)

Reads == toBridge # <<>> /\ toBridge' = Tail(toBridge)
Char == Head(toBridge)

\* A packet is complete: the handler runs next.
Received(packet) ==
    /\ pc' = "handling" /\ buf' = packet /\ is_first_packet' = FALSE
    /\ started' = IF packet = <<KillRequest>> THEN started ELSE started + 1

\* poll() has reported input.
BeginPacket ==
    /\ pc = "idle" /\ toBridge # <<>> /\ pc' = "start"
    /\ UNCHANGED <<receiver, reply, wires, client, history>>

\* GDB begins with "---+" or the like, until it gets its first answer.
MaySkip(ch) == is_first_packet /\ ch \in {Plus, Minus}

SkipCharacter ==
    /\ pc = "start" /\ Reads /\ MaySkip(Char)
    /\ UNCHANGED <<pc, receiver, reply, toGdb, client, history>>

StartOfPacket ==
    /\ pc = "start" /\ Reads /\ Char = Dollar
    /\ pc' = "body" /\ buf' = <<>> /\ checksum' = 0
    /\ UNCHANGED <<is_first_packet, digit, reply, toGdb, client, history>>

BreakCommand ==
    /\ pc = "start" /\ Reads /\ Char = GDB_RSP_BREAK_CMD
    /\ Received(<<Char>>)
    /\ UNCHANGED <<checksum, digit, reply, toGdb, client, answered>>

\* Mutant: the buffer has no end.
BodyUnbounded ==
    /\ pc = "body" /\ Reads /\ Char \notin {Hash, Dollar, EndOfFile}
    /\ buf' = Append(buf, Char) /\ checksum' = (checksum + Char) % 256
    /\ UNCHANGED <<pc, is_first_packet, digit, reply, toGdb, client, history>>

BodyCharacter ==
    /\ pc = "body" /\ Len(buf) < BufMax - 1 /\ Reads
    /\ Char \notin {Hash, Dollar, EndOfFile}
    /\ buf' = Append(buf, Char) /\ checksum' = (checksum + Char) % 256
    /\ UNCHANGED <<pc, is_first_packet, digit, reply, toGdb, client, history>>

EndOfBody ==
    /\ pc = "body" /\ Len(buf) < BufMax - 1 /\ Reads /\ Char = Hash
    /\ pc' = "sum1"
    /\ UNCHANGED <<receiver, reply, toGdb, client, history>>

FirstDigit ==
    /\ pc = "sum1" /\ Reads /\ Char # EndOfFile
    /\ pc' = "sum2" /\ digit' = Char
    /\ UNCHANGED <<is_first_packet, buf, checksum, reply, toGdb, client, history>>

\* Mutant: the checksum is not compared.
ChecksumIgnored(last) == TRUE

ChecksumMatches(last) ==
    /\ {digit, last} \subseteq HexDigit
    /\ checksum = 16 * parse_hex_digit(digit) + parse_hex_digit(last)

\* Mutant: packets are not acknowledged.
EndOfPacketUnacknowledged ==
    /\ pc = "sum2" /\ Reads /\ Char # EndOfFile /\ ChecksumMatches(Char)
    /\ Received(buf)
    /\ UNCHANGED <<checksum, digit, reply, toGdb, client, answered>>

EndOfPacket ==
    /\ pc = "sum2" /\ Reads /\ Char # EndOfFile /\ ChecksumMatches(Char)
    /\ Received(buf) /\ toGdb' = Append(toGdb, <<Plus>>)
    /\ UNCHANGED <<checksum, digit, reply, client, answered>>

\* The false and the exceptions of get_packet_2.
BadInput ==
    \/ /\ pc = "start" /\ toBridge # <<>>
       /\ Char \notin {Dollar, GDB_RSP_BREAK_CMD} /\ ~MaySkip(Char)
    \/ /\ pc = "body"
       /\ \/ Len(buf) = BufMax - 1
          \/ toBridge # <<>> /\ Char \in {Dollar, EndOfFile}
    \/ pc = "sum1" /\ toBridge # <<>> /\ Char = EndOfFile
    \/ /\ pc = "sum2" /\ toBridge # <<>>
       /\ Char = EndOfFile \/ ~ChecksumMatches(Char)

GetPacket ==
    \/ BeginPacket \/ SkipCharacter \/ StartOfPacket \/ BreakCommand
    \/ BodyCharacter \/ EndOfBody \/ FirstDigit \/ EndOfPacket

-----------------------------------------------------------------------------
(* put_packet                                                              *)

\* The wait for the acknowledgement is a step of its own.
PutPacket(payload, next) ==
    /\ reply' = payload /\ toGdb' = Append(toGdb, Frame(payload))
    /\ answered' = answered + 1 /\ pc' = next
    /\ UNCHANGED <<receiver, client, started>>

Acknowledged ==
    /\ pc \in {"acking", "acking_monitor"} /\ Reads /\ Char = Plus
    /\ pc' = "idle"
    /\ UNCHANGED <<receiver, reply, toGdb, client, history>>

BadAcknowledgement(where) == pc = where /\ toBridge # <<>> /\ Char # Plus

-----------------------------------------------------------------------------
\* rsp_client_close: GDB sees the end of the connection.
ClientClose ==
    /\ toBridge' = <<>> /\ toGdb' = <<>> /\ gdb' = "absent"
    /\ buf' = <<>> /\ checksum' = 0 /\ digit' = 0
    /\ UNCHANGED <<is_first_packet, reply, request, damaged, asked, timeouts, history>>

\* accept_incoming_gdb_client_connection
Accept ==
    /\ pc = "listening" /\ gdb = "absent" /\ pc' = "idle" /\ gdb' = "idle"
    /\ is_first_packet' = TRUE
    /\ \E noise \in {<<>>, <<Minus, Plus>>} : toBridge' = noise
    /\ request' = <<>> /\ damaged' = FALSE /\ started' = 0 /\ answered' = 0
    /\ UNCHANGED <<buf, checksum, digit, reply, toGdb, asked, timeouts>>
=============================================================================

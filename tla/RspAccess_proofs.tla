-------------------------- MODULE RspAccess_proofs --------------------------
(***************************************************************************)
(* The handlers of RspAccess keep the types of their variables, and the    *)
(* memory under them is the one GDB is promised (RemoteMemory): for every  *)
(* size of the memory, whichever words cannot be accessed, and every set   *)
(* of requests, character by character, as they may be lost, repeated or   *)
(* malformed. The argument: of the access in progress the bytes read so    *)
(* far are those of the first places of its range, the bytes written so    *)
(* far are in their places, and the routine has reached the next place; a  *)
(* word is only stored when those of its bytes that are not to be written  *)
(* are the ones it had.                                                    *)
(*                                                                         *)
(* The second half is about the packets (RspPackets): whatever is lost,    *)
(* repeated or cut off, a handler gets whole requests once, and GDB one    *)
(* reply to each.  The argument: the request is on its way undamaged, is   *)
(* being served, or is not on its way at all, but for a packet that is     *)
(* doomed, since a text without one of its characters has another sum and  *)
(* a packet without its delimiters is not completed by the next one.       *)
(***************************************************************************)
EXTENDS RspAccess, SequenceTheorems, WellFoundedInduction, TLAPS

-----------------------------------------------------------------------------
(* Induction, and what the recursive functions of RspPackets compute.      *)

(* Every set of numbers that is not empty has a least element.             *)
LEMMA LeastNatural ==
    ASSUME NEW T \in SUBSET Nat, T # {}
    PROVE  \E x \in T : \A y \in T : x <= y
<1>1. PICK x \in T : \A y \in T : ~ (<<y, x>> \in OpToRel(<, Nat))
  BY NatLessThanWellFounded, WFMin
<1>2. ASSUME NEW y \in T, y < x PROVE <<y, x>> \in OpToRel(<, Nat)
  BY <1>2 DEF OpToRel
<1>3. \A y \in T : ~(y < x)
  BY <1>1, <1>2
<1>4. x \in Nat /\ \A y \in T : y \in Nat
  OBVIOUS
<1> QED BY <1>3, <1>4

(* Induction, in terms of the set of the numbers that have the property.   *)
LEMMA SetInduction ==
    ASSUME NEW T, 0 \in T, \A n \in Nat : n \in T => n + 1 \in T
    PROVE  Nat \subseteq T
<1> SUFFICES ASSUME Nat \ T # {} PROVE FALSE
  OBVIOUS
<1>1. PICK x \in Nat \ T : \A y \in Nat \ T : x <= y
  BY LeastNatural
<1>2. x # 0 /\ x - 1 \in Nat /\ x - 1 \in T
  BY <1>1
<1>3. x - 1 + 1 \in T
  BY <1>2
<1> QED BY <1>3, <1>1

(* f is what a recursive function of the length of a sequence computes.    *)
Iterates(f, L, S, a, G) ==
    f \in [0 .. L -> S] /\ f[0] = a /\ \A n \in 1 .. L : f[n] = G[<<n, f[n - 1]>>]

(* There is such a function: its CHOOSE is not in vain.                    *)
LEMMA IterationExists ==
    ASSUME NEW L \in Nat, NEW S, NEW a \in S, NEW G \in [(1 .. L) \X S -> S]
    PROVE  \E f : Iterates(f, L, S, a, G)
<1> DEFINE Reaches(f, m) ==
             f \in [0 .. m -> S] /\ f[0] = a /\ \A n \in 1 .. m : f[n] = G[<<n, f[n - 1]>>]
           T == {m \in Nat : m <= L => \E f : Reaches(f, m)}
<1>1. 0 \in T
  <2>1. Reaches([n \in 0 .. 0 |-> a], 0)
    OBVIOUS
  <2> QED BY <2>1
<1>2. ASSUME NEW m \in Nat, m \in T PROVE m + 1 \in T
  <2> SUFFICES ASSUME m + 1 <= L PROVE \E f : Reaches(f, m + 1)
    OBVIOUS
  <2>1. PICK f : Reaches(f, m)
    BY <1>2
  <2> DEFINE g == [n \in 0 .. m + 1 |-> IF n <= m THEN f[n] ELSE G[<<m + 1, f[m]>>]]
  <2>2. f[m] \in S /\ <<m + 1, f[m]>> \in (1 .. L) \X S
    BY <2>1
  <2>3. G[<<m + 1, f[m]>>] \in S
    BY <2>2
  <2>4. g \in [0 .. m + 1 -> S]
    BY <2>1, <2>3
  <2>5. g[0] = a
    BY <2>1
  <2>6. ASSUME NEW n \in 1 .. m + 1 PROVE g[n] = G[<<n, g[n - 1]>>]
    <3>1. CASE n = m + 1
      BY <3>1
    <3>2. CASE n # m + 1
      <4>1. n \in 1 .. m /\ n - 1 \in 0 .. m
        BY <3>2
      <4>2. g[n] = f[n] /\ g[n - 1] = f[n - 1]
        BY <4>1
      <4> QED BY <4>1, <4>2, <2>1
    <3> QED BY <3>1, <3>2
  <2> QED BY <2>4, <2>5, <2>6
<1> HIDE DEF T
<1>3. L \in T
  BY <1>1, <1>2, SetInduction
<1> USE DEF T
<1> QED BY <1>3 DEF Iterates

(* Every value of such a function is in the set its steps stay in.         *)
LEMMA IterationStays ==
    ASSUME NEW L \in Nat, NEW S, NEW f, f[0] \in S,
           \A n \in 1 .. L : f[n - 1] \in S => f[n] \in S
    PROVE  \A n \in 0 .. L : f[n] \in S
<1> DEFINE T == {m \in Nat : m <= L => f[m] \in S}
<1>1. 0 \in T
  OBVIOUS
<1>2. ASSUME NEW m \in Nat, m \in T PROVE m + 1 \in T
  <2>1. SUFFICES ASSUME m + 1 <= L PROVE f[m + 1] \in S
    OBVIOUS
  <2>2. m + 1 \in 1 .. L /\ m + 1 - 1 = m /\ f[m] \in S
    BY <1>2, <2>1
  <2> QED BY <2>2
<1> HIDE DEF T
<1>3. \A m \in 0 .. L : m \in T
  BY <1>1, <1>2, SetInduction
<1> USE DEF T
<1> QED BY <1>3

Chars == Seq(0 .. 255)

(* One more character in a checksum.                                       *)
LEMMA SumOfBytes == \A x, c \in 0 .. 255 : (x + c) % 256 \in 0 .. 255
OBVIOUS

(* Checksums are bytes.                                                    *)
LEMMA SumIsByte ==
    ASSUME NEW chars \in Chars
    PROVE  Sum(chars) \in 0 .. 255
<1> DEFINE L == Len(chars)
           IsSum(f) == f = [n \in 0 .. L |-> IF n = 0 THEN 0 ELSE (f[n - 1] + chars[n]) % 256]
<1>1. L \in Nat /\ \A n \in 1 .. L : chars[n] \in 0 .. 255
  BY ElementOfSeq, LenProperties DEF Chars
<1>2. \E f : IsSum(f)
  <2> DEFINE G == [p \in (1 .. L) \X (0 .. 255) |-> (p[2] + chars[p[1]]) % 256]
  <2>1. G \in [(1 .. L) \X (0 .. 255) -> 0 .. 255]
    <3>1. ASSUME NEW p \in (1 .. L) \X (0 .. 255) PROVE (p[2] + chars[p[1]]) % 256 \in 0 .. 255
      <4>1. p[1] \in 1 .. L /\ p[2] \in 0 .. 255
        BY ONLY p \in (1 .. L) \X (0 .. 255)
      <4>2. chars[p[1]] \in 0 .. 255
        BY ONLY <1>1, <4>1
      <4> QED BY ONLY <4>1, <4>2, SumOfBytes
    <3> QED BY ONLY <3>1, SMTT(30)
  <2>9. 0 \in 0 .. 255
    OBVIOUS
  <2>0. \A n \in 1 .. L : \A x \in 0 .. 255 : G[<<n, x>>] = (x + chars[n]) % 256
    OBVIOUS
  <2> HIDE DEF L, G
  <2>8. PICK f : Iterates(f, L, 0 .. 255, 0, G)
    BY ONLY <1>1, <2>1, <2>9, IterationExists, Zenon
  <2>2. /\ f \in [0 .. L -> 0 .. 255] /\ f[0] = 0
        /\ \A n \in 1 .. L : f[n] = G[<<n, f[n - 1]>>]
    BY <2>8 DEF Iterates
  <2>3. ASSUME NEW n \in 1 .. L PROVE f[n] = (f[n - 1] + chars[n]) % 256
    <3>1. f[n - 1] \in 0 .. 255
      BY <1>1, <2>2
    <3> QED BY <3>1, <2>2, <2>0, ZenonT(60)
  <2>4. IsSum(f)
    BY <2>2, <2>3, <1>1
  <2> QED BY <2>4
<1> DEFINE sum == CHOOSE f : IsSum(f)
<1>3. IsSum(sum)
  BY <1>2
<1>4. Sum(chars) = sum[L]
  BY DEF Sum
<1> HIDE DEF sum
<1>5. sum[0] \in 0 .. 255 /\ \A n \in 1 .. L : sum[n - 1] \in 0 .. 255 => sum[n] \in 0 .. 255
  <2>1. sum[0] = 0
    BY <1>3, <1>1
  <2>2. ASSUME NEW n \in 1 .. L, sum[n - 1] \in 0 .. 255 PROVE sum[n] \in 0 .. 255
    <3>1. sum[n] = (sum[n - 1] + chars[n]) % 256
      BY <1>3, <1>1
    <3> QED BY <3>1, <2>2, <1>1, SumOfBytes, ZenonT(60)
  <2> QED BY <2>1, <2>2
<1> HIDE DEF IsSum, L
<1>6. \A n \in 0 .. L : sum[n] \in 0 .. 255
  BY <1>5, <1>1, IterationStays
<1> QED BY <1>4, <1>6, <1>1

(* The body of a packet is made of characters.                             *)
LEMMA BodyIsChars ==
    ASSUME NEW payload \in Chars
    PROVE  Body(payload) \in Chars
<1> DEFINE L == Len(payload)
           IsBody(f) == f = [n \in 0 .. L |->
                               IF n = 0 THEN <<>> ELSE f[n - 1] \o Escape(payload[n])]
<1>1. L \in Nat /\ \A n \in 1 .. L : payload[n] \in 0 .. 255
  BY ElementOfSeq, LenProperties DEF Chars
<1>2. \A n \in 1 .. L : Escape(payload[n]) \in Chars
  <2>1. ASSUME NEW ch \in 0 .. 255 PROVE Escape(ch) \in Seq(0 .. 255)
    <3>1. CASE ch \in {Dollar, Hash, Star, Brace}
      <4>1. ch - 32 \in 0 .. 255 /\ Brace \in 0 .. 255
        BY <3>1 DEF Dollar, Hash, Star, Brace
      <4> QED BY <3>1, <4>1 DEF Escape
    <3>2. CASE ch \notin {Dollar, Hash, Star, Brace}
      BY <3>2 DEF Escape
    <3> QED BY <3>1, <3>2
  <2> QED BY <1>1, <2>1 DEF Chars
<1>3. <<>> \in Chars
  BY DEF Chars
<1>4. \A s, t \in Chars : s \o t \in Chars
  BY DEF Chars
<1>5. \E f : IsBody(f)
  <2> DEFINE G == [p \in (1 .. L) \X Chars |-> p[2] \o Escape(payload[p[1]])]
  <2>1. G \in [(1 .. L) \X Chars -> Chars]
    BY <1>2, <1>4
  <2>0. \A n \in 1 .. L : \A x \in Chars : G[<<n, x>>] = x \o Escape(payload[n])
    OBVIOUS
  <2> HIDE DEF L, G
  <2>8. PICK f : Iterates(f, L, Chars, <<>>, G)
    BY ONLY <1>1, <1>3, <2>1, IterationExists, Zenon
  <2>2. /\ f \in [0 .. L -> Chars] /\ f[0] = <<>>
        /\ \A n \in 1 .. L : f[n] = G[<<n, f[n - 1]>>]
    BY <2>8 DEF Iterates
  <2>3. ASSUME NEW n \in 1 .. L PROVE f[n] = f[n - 1] \o Escape(payload[n])
    <3>1. f[n - 1] \in Chars
      BY <1>1, <2>2
    <3> QED BY <3>1, <2>2, <2>0
  <2>4. \A n \in 0 .. L : f[n] = IF n = 0 THEN <<>> ELSE f[n - 1] \o Escape(payload[n])
    <3>1. ASSUME NEW n \in 0 .. L, n # 0 PROVE n \in 1 .. L
      BY <1>1, <3>1
    <3> QED BY <2>2, <2>3, <3>1, Zenon
  <2>5. f = [n \in 0 .. L |-> f[n]]
    BY <2>2
  <2>6. IsBody(f)
    BY <2>4, <2>5, Zenon
  <2> QED BY <2>6
<1> DEFINE body == CHOOSE f : IsBody(f)
<1>6. IsBody(body)
  BY <1>5
<1>7. Body(payload) = body[L]
  BY DEF Body
<1> HIDE DEF body
<1>8. body[0] \in Chars /\ \A n \in 1 .. L : body[n - 1] \in Chars => body[n] \in Chars
  <2>1. body[0] = <<>>
    BY <1>6, <1>1
  <2>2. ASSUME NEW n \in 1 .. L, body[n - 1] \in Chars PROVE body[n] \in Chars
    <3>1. body[n] = IF n = 0 THEN <<>> ELSE body[n - 1] \o Escape(payload[n])
      <4>1. n \in 0 .. L
        BY <1>1
      <4> HIDE DEF L
      <4> QED BY <1>6, <4>1, Zenon
    <3>2. n # 0
      BY <1>1
    <3> QED BY <3>1, <3>2, <2>2, <1>2, <1>4
  <2> QED BY <2>1, <2>2, <1>3
<1> HIDE DEF IsBody, L
<1>9. \A n \in 0 .. L : body[n] \in Chars
  BY <1>8, <1>1, IterationStays
<1> QED BY <1>7, <1>9, <1>1

(* So is all of the packet.                                                *)
LEMMA FrameIsChars ==
    ASSUME NEW payload \in Chars
    PROVE  Frame(payload) \in Chars
<1> DEFINE b == Body(payload)
           s == Sum(b)
<1>1. b \in Chars
  BY BodyIsChars
<1>2. s \in 0 .. 255
  BY <1>1, SumIsByte
<1> HIDE DEF b, s
<1>3. get_hex_char(s \div 16) \in 0 .. 255 /\ get_hex_char(s % 16) \in 0 .. 255
  BY <1>2 DEF get_hex_char
<1>4. <<Dollar>> \in Chars /\ <<Hash, get_hex_char(s \div 16), get_hex_char(s % 16)>> \in Chars
  BY <1>3 DEF Chars, Dollar, Hash
<1>5. Wrapped(b) = <<Dollar>> \o b \o <<Hash, get_hex_char(s \div 16), get_hex_char(s % 16)>>
  BY DEF Wrapped, s
<1> QED BY <1>1, <1>4, <1>5 DEF Frame, b, Chars

-----------------------------------------------------------------------------
(* Types.                                                                  *)

(* The sequences on the wires, with the end of the connection as one more  *)
(* character.                                                              *)
LEMMA CharsOnTheWire ==
    /\ \A s \in Chars : s \in Seq(0 .. 256)
    /\ \A s, t \in Seq(0 .. 256) : s \o t \in Seq(0 .. 256)
    /\ \A s \in Seq(0 .. 256) : \A k \in 1 .. Len(s) : RemoveAt(s, k) \in Seq(0 .. 256)
<1>1. \A s \in Chars : s \in Seq(0 .. 256)
  BY SeqMonotonic, 0 .. 255 \subseteq 0 .. 256 DEF Chars
<1>2. \A s, t \in Seq(0 .. 256) : s \o t \in Seq(0 .. 256)
  OBVIOUS
<1>3. ASSUME NEW s \in Seq(0 .. 256), NEW k \in 1 .. Len(s)
      PROVE  RemoveAt(s, k) \in Seq(0 .. 256)
  <2>0. Len(s) \in Nat /\ \A i \in 1 .. Len(s) : s[i] \in 0 .. 256
    BY ElementOfSeq, LenProperties
  <2>1. SubSeq(s, 1, k - 1) \in Seq(0 .. 256) /\ SubSeq(s, k + 1, Len(s)) \in Seq(0 .. 256)
    BY <2>0, SubSeqProperties
  <2> QED BY <2>1 DEF RemoveAt
<1> QED BY <1>1, <1>2, <1>3

(* The last request is made of characters.                                 *)
LEMMA RequestsAreChars ==
    ASSUME TypeOK
    PROVE  request \in Chars
<1>1. \A n \in 1 .. MaxRequests : \A r \in GdbRequest[n] : r \in Chars
  BY RspPacketsAssumption DEF Chars
<1>2. request = <<>> \/ \E n \in 1 .. MaxRequests : request \in GdbRequest[n]
  BY DEF TypeOK, PacketsTypeOK
<1>3. <<>> \in Chars
  BY DEF Chars
<1> QED BY <1>1, <1>2, <1>3

(* Steps that leave the target alone outside an access.                    *)
LEMMA TargetKeepsTypes ==
    ASSUME TypeOK, UNCHANGED target, PacketsTypeOK', pc' = "access" \/ access.at = "none"
    PROVE  TypeOK'
BY DEF TypeOK, target, memory, MemoryTypeOK, Quad, Byte

(* The next character.                                                     *)
LEMMA FirstChar ==
    ASSUME TypeOK, Reads
    PROVE  Char \in 0 .. 256 /\ toBridge' \in Seq(0 .. 256)
<1>1. toBridge \in Seq(0 .. 256) /\ toBridge # <<>> /\ toBridge' = Tail(toBridge)
  BY DEF TypeOK, PacketsTypeOK, Reads
<1> QED BY <1>1, HeadTailProperties DEF Char

(* GDB sends a request, whole or damaged.                                  *)
LEMMA AskingKeepsTypes ==
    ASSUME TypeOK, asked < MaxRequests, NEW r \in GdbRequest[asked + 1],
           GdbSends(r) \/ GdbSendsDamaged(r)
    PROVE  PacketsTypeOK'
<1>1. asked + 1 \in 1 .. MaxRequests
  BY RspPacketsAssumption DEF TypeOK, PacketsTypeOK
<1>2. r \in Chars
  BY <1>1, RspPacketsAssumption DEF Chars
<1>3. Sent(r) \in Seq(0 .. 256)
  BY <1>2, FrameIsChars, CharsOnTheWire DEF Sent
<1>4. toBridge' \in Seq(0 .. 256) /\ damaged' \in BOOLEAN
  <2>1. CASE GdbSends(r)
    BY <2>1, <1>3, CharsOnTheWire DEF TypeOK, PacketsTypeOK, GdbSends
  <2>2. CASE GdbSendsDamaged(r)
    BY <2>2, <1>3, CharsOnTheWire DEF TypeOK, PacketsTypeOK, GdbSendsDamaged
  <2> QED BY <2>1, <2>2
<1>5. Asks(r)
  BY DEF GdbSends, GdbSendsDamaged
<1>6. /\ \E n \in 1 .. MaxRequests : request' \in GdbRequest[n]
      /\ asked' \in 0 .. MaxRequests /\ gdb' \in {"ack", "reply"}
      /\ started' = 0 /\ answered' = 0
  BY <1>1, <1>5, RspPacketsAssumption DEF Asks
<1> QED BY <1>4, <1>5, <1>6 DEF TypeOK, PacketsTypeOK, Asks, receiver

(* GDB keeps the types.                                                    *)
LEMMA GdbKeepsTypes ==
    ASSUME TypeOK, GdbStep
    PROVE  TypeOK'
<1> USE DEF TypeOK, PacketsTypeOK
<1>1. UNCHANGED target /\ Gdb
  BY DEF GdbStep
<1>2. CASE asked < MaxRequests /\ \E r \in GdbRequest[asked + 1] :
              GdbSends(r) \/ GdbSendsDamaged(r)
  <2>1. PICK r \in GdbRequest[asked + 1] : GdbSends(r) \/ GdbSendsDamaged(r)
    BY <1>2
  <2>2. PacketsTypeOK'
    BY <1>2, <2>1, AskingKeepsTypes
  <2>3. pc' = pc
    BY <2>1 DEF GdbSends, GdbSendsDamaged, Asks
  <2> QED BY <1>1, <2>2, <2>3, TargetKeepsTypes
<1>3. CASE GdbGetsAck
  <2>1. toGdb' \in Seq(Seq(0 .. 255))
    BY <1>3 DEF GdbGetsAck
  <2>2. PacketsTypeOK'
    BY <1>3, <2>1 DEF GdbGetsAck, receiver, history
  <2> QED BY <1>1, <1>3, <2>2, TargetKeepsTypes DEF GdbGetsAck
<1>4. CASE GdbGetsReply
  <2>1. toGdb' \in Seq(Seq(0 .. 255)) /\ toBridge' \in Seq(0 .. 256)
    BY <1>4 DEF GdbGetsReply, Plus
  <2>2. PacketsTypeOK'
    BY <1>4, <2>1 DEF GdbGetsReply, receiver, history
  <2> QED BY <1>1, <1>4, <2>2, TargetKeepsTypes DEF GdbGetsReply
<1>5. CASE GdbTimesOut
  <2>1. Frame(request) \in Seq(0 .. 256)
    BY RequestsAreChars, FrameIsChars, CharsOnTheWire
  <2>2. toBridge' \in Seq(0 .. 256)
    <3>1. <<Minus>> \in Seq(0 .. 256)
      BY DEF Minus
    <3>2. toBridge \in Seq(0 .. 256)
      OBVIOUS
    <3> QED BY <1>5, <2>1, <3>1, <3>2, CharsOnTheWire DEF GdbTimesOut
  <2>3. timeouts' \in 0 .. MaxTimeouts
    BY <1>5, RspPacketsAssumption DEF GdbTimesOut
  <2>4. PacketsTypeOK'
    BY <1>5, <2>2, <2>3 DEF GdbTimesOut, receiver, history
  <2> QED BY <1>1, <1>5, <2>4, TargetKeepsTypes DEF GdbTimesOut
<1>6. CASE GdbLeaves
  <2>1. toGdb' \in Seq(Seq(0 .. 255)) /\ toBridge' \in Seq(0 .. 256)
    BY <1>6 DEF GdbLeaves, EndOfFile
  <2>2. PacketsTypeOK'
    BY <1>6, <2>1 DEF GdbLeaves, receiver, history
  <2> QED BY <1>1, <1>6, <2>2, TargetKeepsTypes DEF GdbLeaves
<1> QED BY <1>1, <1>2, <1>3, <1>4, <1>5, <1>6 DEF Gdb

(* So does get_packet_2.                                                   *)
LEMMA ReceivingKeepsTypes ==
    ASSUME TypeOK, Receive
    PROVE  TypeOK'
<1> USE DEF TypeOK, PacketsTypeOK
<1>1. UNCHANGED target /\ (GetPacket \/ Acknowledged)
  BY DEF Receive
<1>2. pc # "access"
  BY <1>1 DEF GetPacket, Acknowledged, BeginPacket, SkipCharacter, StartOfPacket, BreakCommand,
              BodyCharacter, EndOfBody, FirstDigit, EndOfPacket
<1>3. SUFFICES PacketsTypeOK'
  BY <1>1, <1>2, TargetKeepsTypes
<1>4. CASE BeginPacket
  BY <1>4 DEF BeginPacket, receiver, wires, client, history
<1>5. CASE SkipCharacter
  BY <1>5, FirstChar DEF SkipCharacter, receiver, client, history
<1>6. CASE StartOfPacket
  BY <1>6, FirstChar, RspPacketsAssumption DEF StartOfPacket, client, history
<1>7. CASE BreakCommand
  <2>1. toBridge' \in Seq(0 .. 256) /\ buf' = <<3>> /\ buf' \in Seq(0 .. 255) /\ Len(buf') = 1
    BY <1>7, FirstChar DEF BreakCommand, Received, GDB_RSP_BREAK_CMD
  <2>2. started' \in Nat
    BY <1>7 DEF BreakCommand, Received
  <2>3. Len(buf') < BufMax
    BY <2>1, RspPacketsAssumption
  <2> QED BY <1>7, <2>1, <2>2, <2>3 DEF BreakCommand, Received, client
<1>8. CASE BodyCharacter
  <2>1. Char \in 0 .. 255 /\ toBridge' \in Seq(0 .. 256)
    BY <1>8, FirstChar DEF BodyCharacter, EndOfFile
  <2>2. buf' \in Seq(0 .. 255) /\ Len(buf') = Len(buf) + 1
    BY <1>8, <2>1 DEF BodyCharacter
  <2>3. checksum' \in 0 .. 255
    BY <1>8, <2>1, SumOfBytes DEF BodyCharacter
  <2>4. Len(buf') < BufMax
    BY <1>8, <2>2, RspPacketsAssumption DEF BodyCharacter
  <2> QED BY <1>8, <2>1, <2>2, <2>3, <2>4 DEF BodyCharacter, client, history
<1>9. CASE EndOfBody
  BY <1>9, FirstChar DEF EndOfBody, receiver, client, history
<1>10. CASE FirstDigit
  BY <1>10, FirstChar DEF FirstDigit, client, history
<1>11. CASE EndOfPacket
  <2>1. toGdb' \in Seq(Seq(0 .. 255))
    BY <1>11 DEF EndOfPacket, Plus
  <2>2. started' \in Nat
    BY <1>11 DEF EndOfPacket, Received
  <2>3. toBridge' \in Seq(0 .. 256)
    BY <1>11, FirstChar DEF EndOfPacket
  <2>4. pc' = "handling" /\ buf' = buf /\ is_first_packet' = FALSE
    BY <1>11 DEF EndOfPacket, Received
  <2>5. UNCHANGED <<checksum, digit, reply, client, answered>>
    BY <1>11 DEF EndOfPacket
  <2> QED BY <2>1, <2>2, <2>3, <2>4, <2>5 DEF client
<1>12. CASE Acknowledged
  BY <1>12, FirstChar DEF Acknowledged, receiver, client, history
<1> QED BY <1>1, <1>4, <1>5, <1>6, <1>7, <1>8, <1>9, <1>10, <1>11, <1>12 DEF GetPacket

-----------------------------------------------------------------------------
(* Bytes and words.                                                        *)

(* The sizes of digits and bytes.                                          *)
LEMMA Bases ==
    /\ DigitBase \in {4, 8, 16} /\ ByteBase \in {16, 64, 256}
    /\ ByteBase = DigitBase * DigitBase /\ WordCount \in Nat \ {0}
<1>1. DigitBase = 4 => ByteBase = 16
  BY RspAccessAssumption
<1>2. DigitBase = 8 => ByteBase = 64
  BY RspAccessAssumption
<1>3. DigitBase = 16 => ByteBase = 256
  BY RspAccessAssumption
<1> QED BY <1>1, <1>2, <1>3, RspAccessAssumption, DbgMemoryAssumption

(* The quotient and the rest of u * D + r.                                 *)
LEMMA Quotient ==
    ASSUME NEW D \in Nat \ {0}, NEW u \in Nat, NEW r \in 0 .. D - 1
    PROVE  (u * D + r) \div D = u /\ (u * D + r) % D = r
OBVIOUS

(* A number of two digits.                                                 *)
LEMMA TwoDigits ==
    ASSUME NEW X \in Nat, NEW D \in Nat, NEW x \in 0 .. X - 1, NEW y \in 0 .. D - 1
    PROVE  x * D + y \in 0 .. X * D - 1
OBVIOUS

(* v has the digits a, b, c and d to the base D.                           *)
HasDigits(v, D, a, b, c, d) ==
    /\ v \in 0 .. D * D * D * D - 1
    /\ (v \div (D * D * D)) % D = a /\ (v \div (D * D)) % D = b
    /\ (v \div D) % D = c /\ v % D = d

(* The digits of a number of four digits.                                  *)
LEMMA FourDigits ==
    ASSUME NEW D \in Nat \ {0}, NEW a \in 0 .. D - 1, NEW b \in 0 .. D - 1,
           NEW c \in 0 .. D - 1, NEW d \in 0 .. D - 1
    PROVE  HasDigits(((a * D + b) * D + c) * D + d, D, a, b, c, d)
<1> DEFINE v == ((a * D + b) * D + c) * D + d
<1> DEFINE q == a * D + b
           p == q * D + c
           E == D * D
           F == D * D * D
<1>1. E \in Nat \ {0} /\ F \in Nat \ {0} /\ F = E * D
  OBVIOUS
<1>2. q \in 0 .. E - 1
  BY TwoDigits
<1>3. v = p * D + d
  OBVIOUS
<1>4. c * D + d \in 0 .. E - 1
  BY TwoDigits
<1>5. v = q * E + (c * D + d)
  OBVIOUS
<1>6. b * E + (c * D + d) \in 0 .. D * E - 1
  <2> HIDE DEF E
  <2> QED BY <1>1, <1>4, TwoDigits
<1>7. D * E = F
  OBVIOUS
<1>8. v = a * F + (b * E + (c * D + d))
  OBVIOUS
<1> HIDE DEF v, q, E, F
<1>9. p \in 0 .. E * D - 1 /\ p \in Nat
  BY <1>1, <1>2, TwoDigits
<1>10. v \in 0 .. F * D - 1
  <2> HIDE DEF p
  <2> QED BY <1>1, <1>3, <1>9, TwoDigits
<1>11. v \div D = p /\ v % D = d /\ p % D = c
  <2>1. p % D = c
    BY <1>2, <1>1, Quotient
  <2> HIDE DEF p
  <2> QED BY <1>3, <1>9, <2>1, Quotient
<1>12. v \div E = q /\ q % D = b
  <2>1. v \div E = q
    BY <1>1, <1>2, <1>4, <1>5, Quotient
  <2>2. q % D = b
    BY Quotient DEF q
  <2> QED BY <2>1, <2>2
<1>13. v \div F = a /\ a % D = a
  BY <1>1, <1>6, <1>7, <1>8, Quotient
<1>14. HasDigits(v, D, a, b, c, d)
  BY <1>10, <1>11, <1>12, <1>13 DEF E, F, HasDigits
<1> QED BY <1>14 DEF v

(* break_up_into_bytes makes bytes.                                        *)
LEMMA BreakUpIsQuad ==
    ASSUME NEW val \in WordValue
    PROVE  /\ break_up_into_bytes(val) \in Quad /\ break_up_into_bytes(val) \in Seq(Byte)
           /\ Len(break_up_into_bytes(val)) = 4
<1> DEFINE D == ByteBase
           b == break_up_into_bytes(val)
<1>1. D \in Nat \ {0} /\ val \in Nat
  BY Bases DEF WordValue
<1>2. D * D \in Nat \ {0} /\ D * D * D \in Nat \ {0}
  BY <1>1
<1>3. \A x \in Int : x % D \in 0 .. D - 1
  BY <1>1
<1>4. val \div D \in Int /\ val \div (D * D) \in Int /\ val \div (D * D * D) \in Int
  BY <1>1, <1>2
<1>7. \A x1, x2, x3, x4 \in Byte : LET x == <<x1, x2, x3, x4>> IN
        x \in [1 .. 4 -> Byte] /\ x \in Seq(Byte) /\ Len(x) = 4
  OBVIOUS
<1> DEFINE x1 == (val \div (D * D * D)) % D
           x2 == (val \div (D * D)) % D
           x3 == (val \div D) % D
           x4 == val % D
<1>9. x1 \in Byte /\ x2 \in Byte /\ x3 \in Byte /\ x4 \in Byte
  BY <1>1, <1>3, <1>4 DEF Byte
<1>10. b = <<x1, x2, x3, x4>>
  BY DEF break_up_into_bytes
<1> HIDE DEF b, x1, x2, x3, x4
<1>8. b \in [1 .. 4 -> Byte] /\ b \in Seq(Byte) /\ Len(b) = 4
  BY <1>7, <1>9, <1>10
<1> QED BY <1>8 DEF Quad, b

(* break_up_into_bytes takes apart what assemble_bytes puts together.      *)
LEMMA AssembledBytes ==
    ASSUME NEW b \in Quad
    PROVE  /\ assemble_bytes(b) \in WordValue
           /\ \A k \in 1 .. 4 : break_up_into_bytes(assemble_bytes(b))[k] = b[k]
<1> DEFINE v == assemble_bytes(b)
<1>1. /\ b[1] \in 0 .. ByteBase - 1 /\ b[2] \in 0 .. ByteBase - 1
      /\ b[3] \in 0 .. ByteBase - 1 /\ b[4] \in 0 .. ByteBase - 1
  BY DEF Quad, Byte
<1>2. ByteBase \in Nat \ {0}
  BY Bases
<1>3. v = ((b[1] * ByteBase + b[2]) * ByteBase + b[3]) * ByteBase + b[4]
  BY DEF assemble_bytes
<1> HIDE DEF v
<1>4. HasDigits(v, ByteBase, b[1], b[2], b[3], b[4])
  BY <1>1, <1>2, <1>3, FourDigits, Zenon
<1>5. \A k \in 1 .. 4 : break_up_into_bytes(v)[k] = b[k]
  <2> DEFINE w1 == (v \div (ByteBase * ByteBase * ByteBase)) % ByteBase
             w2 == (v \div (ByteBase * ByteBase)) % ByteBase
             w3 == (v \div ByteBase) % ByteBase
             w4 == v % ByteBase
  <2>1. break_up_into_bytes(v) = <<w1, w2, w3, w4>>
    BY DEF break_up_into_bytes
  <2>2. w1 = b[1] /\ w2 = b[2] /\ w3 = b[3] /\ w4 = b[4]
    BY <1>4 DEF HasDigits
  <2> HIDE DEF w1, w2, w3, w4
  <2> QED BY <2>1, <2>2
<1> QED BY <1>4, <1>5 DEF WordValue, v, HasDigits

(* The address of a word, and that of the next one.                        *)
LEMMA AddressOfWord ==
    ASSUME NEW w \in Word
    PROVE  /\ (4 * w) \div 4 = w /\ 4 * w \in Address
           /\ AddTo(4 * w, 4) = 4 * (IF w + 1 = WordCount THEN 0 ELSE w + 1)
<1>1. WordCount \in Nat \ {0} /\ w \in 0 .. WordCount - 1
  BY Bases DEF Word
<1>2. (4 * w) \div 4 = w /\ 4 * w \in Address
  BY <1>1 DEF Address
<1>3. CASE w + 1 = WordCount
  <2>1. 4 * w + 4 = 4 * WordCount /\ (4 * WordCount) % (4 * WordCount) = 0
    BY <1>1, <1>3
  <2> QED BY <1>2, <1>3, <2>1 DEF AddTo
<1>4. CASE w + 1 # WordCount
  <2>1. 4 * w + 4 < 4 * WordCount /\ 4 * w + 4 \in Nat /\ 4 * WordCount \in Nat
    BY <1>1, <1>4
  <2>2. (4 * w + 4) % (4 * WordCount) = 4 * w + 4
    BY <2>1
  <2> QED BY <1>1, <1>2, <1>4, <2>2 DEF AddTo
<1> QED BY <1>3, <1>4

(* The word and the position in it of an address.                          *)
LEMMA WordOfAddress ==
    ASSUME NEW a \in Address
    PROVE  /\ a \div 4 \in Word /\ a % 4 \in 0 .. 3
           /\ a = 4 * (a \div 4) + (a % 4) /\ a - (a % 4) = 4 * (a \div 4)
BY Bases DEF Address, Word

-----------------------------------------------------------------------------
(* The memory accesses keep the types.                                     *)

Aligned == {4 * w : w \in Word}
AccessType ==
    [at : {"none", "read", "load", "address", "data", "done", "failed"},
     addr : Aligned, byte_pos : 0 .. 3, left : Nat,
     data : Seq(Byte), bytes : Quad]

(* The local variables of an access.                                       *)
LEMMA AccessFields ==
    ASSUME MemoryTypeOK
    PROVE  /\ access \in AccessType
           /\ access.addr = 4 * CurrentWord /\ CurrentWord \in Word
           /\ AddTo(access.addr, 4) \in Aligned
           /\ access.byte_pos \in 0 .. 3 /\ access.left \in Nat
           /\ access.data \in Seq(Byte) /\ access.bytes \in Quad
           /\ mem[CurrentWord] \in WordValue
<1>1. access \in AccessType /\ mem \in [Word -> WordValue]
  BY DEF MemoryTypeOK, AccessType, Aligned
<1>2. PICK w \in Word : access.addr = 4 * w
  BY <1>1 DEF AccessType, Aligned
<1>3. CurrentWord = w
  BY <1>2, AddressOfWord DEF CurrentWord
<1>4. WordCount \in Nat \ {0} /\ w \in 0 .. WordCount - 1
  BY Bases DEF Word
<1>5. (IF w + 1 = WordCount THEN 0 ELSE w + 1) \in Word
  BY <1>4 DEF Word
<1>6. AddTo(access.addr, 4) \in Aligned
  BY <1>2, <1>5, AddressOfWord DEF Aligned
<1> QED BY <1>1, <1>2, <1>3, <1>6 DEF AccessType

(* The smaller of two numbers, in the parts that proofs use.               *)
LEMMA SmallerOfTwo ==
    ASSUME NEW m \in Nat, NEW n \in Nat
    PROVE  Smaller(m, n) \in Nat /\ Smaller(m, n) <= m /\ Smaller(m, n) <= n
           /\ (Smaller(m, n) = m \/ Smaller(m, n) = n)
BY DEF Smaller

(* How far a word is read.                                                 *)
ReadNow == Smaller(4 - access.byte_pos, access.left)
BytesRead ==
    SubSeq(break_up_into_bytes(mem[CurrentWord]), access.byte_pos + 1, access.byte_pos + ReadNow)

(* What is read of a word are bytes of it.                                 *)
LEMMA BytesReadAreBytes ==
    ASSUME MemoryTypeOK
    PROVE  /\ ReadNow \in 0 .. access.left /\ ReadNow \in 0 .. 4 - access.byte_pos
           /\ BytesRead \in Seq(Byte) /\ Len(BytesRead) = ReadNow
           /\ \A k \in 1 .. ReadNow :
                 BytesRead[k] = break_up_into_bytes(mem[CurrentWord])[access.byte_pos + k]
<1> DEFINE b == break_up_into_bytes(mem[CurrentWord])
           p == access.byte_pos
           n == ReadNow
<1>1. p \in 0 .. 3 /\ b \in [1 .. 4 -> Byte] /\ n \in 0 .. access.left /\ n \in 0 .. 4 - p
  <2>1. p \in 0 .. 3 /\ 4 - p \in Nat /\ access.left \in Nat
    BY AccessFields
  <2>2. b \in [1 .. 4 -> Byte]
    BY AccessFields, BreakUpIsQuad DEF Quad
  <2>3. n = Smaller(4 - p, access.left)
    BY DEF ReadNow
  <2> HIDE DEF n, p
  <2>4. n \in Nat /\ n <= 4 - p /\ n <= access.left
    BY <2>1, <2>3, SmallerOfTwo
  <2> QED BY <2>1, <2>2, <2>4
<1>2. BytesRead = SubSeq(b, p + 1, p + n)
  BY DEF BytesRead
<1> HIDE DEF b, p, n
<1>3. p + 1 \in Int /\ p + n \in Int /\ \A i \in p + 1 .. p + n : b[i] \in Byte
  BY <1>1
<1> DEFINE lo == p + 1
           hi == p + n
<1>4. /\ SubSeq(b, lo, hi) \in Seq(Byte)
      /\ Len(SubSeq(b, lo, hi)) = IF lo <= hi THEN hi - lo + 1 ELSE 0
      /\ \A i \in 1 .. hi - lo + 1 : SubSeq(b, lo, hi)[i] = b[lo + i - 1]
  <2> HIDE DEF lo, hi
  <2> QED BY <1>3, SubSeqProperties DEF lo, hi
<1>5. n \in Nat /\ p \in Nat
  BY <1>1
<1>6. BytesRead \in Seq(Byte) /\ Len(BytesRead) = n
  BY <1>2, <1>4, <1>5
<1>7. ASSUME NEW k \in 1 .. n PROVE BytesRead[k] = b[p + k]
  <2>1. k \in 1 .. hi - lo + 1 /\ lo + k - 1 = p + k
    BY <1>5
  <2> QED BY <1>2, <1>4, <2>1
<1> QED BY <1>1, <1>6, <1>7 DEF b, p, n

(* What is written of a word is in its place.                              *)
LEMMA OverwrittenBytes ==
    ASSUME MemoryTypeOK
    PROVE  /\ Overwritten \in 0 .. Len(access.data) /\ Overwritten \in 0 .. 4 - access.byte_pos
           /\ Overwritten = 4 - access.byte_pos \/ Overwritten = Len(access.data)
           /\ MergedBytes \in Quad
           /\ \A k \in 1 .. Overwritten : MergedBytes[access.byte_pos + k] = access.data[k]
<1> DEFINE p == access.byte_pos
           d == access.data
           n == Overwritten
<1>1. p \in 0 .. 3 /\ d \in Seq(Byte) /\ Len(d) \in Nat /\ access.bytes \in [1 .. 4 -> Byte]
      /\ \A i \in 1 .. Len(d) : d[i] \in Byte
  BY AccessFields, LenProperties, ElementOfSeq DEF Quad
<1>2. n \in 0 .. Len(d) /\ n \in 0 .. 4 - p /\ (n = 4 - p \/ n = Len(d))
  <2>1. n = Smaller(4 - p, Len(d))
    BY DEF Overwritten
  <2> HIDE DEF n, p, d
  <2>2. 4 - p \in Nat
    BY <1>1
  <2>3. n \in Nat /\ n <= 4 - p /\ n <= Len(d) /\ (n = 4 - p \/ n = Len(d))
    BY <1>1, <2>1, <2>2, SmallerOfTwo
  <2> QED BY <2>3
<1>3. MergedBytes = [k \in 1 .. 4 |-> IF k - p \in 1 .. n THEN d[k - p] ELSE access.bytes[k]]
  BY DEF MergedBytes
<1> HIDE DEF p, d, n
<1>4. MergedBytes \in [1 .. 4 -> Byte]
  BY <1>1, <1>2, <1>3
<1>5. ASSUME NEW k \in 1 .. n PROVE MergedBytes[p + k] = d[k]
  <2>1. p + k \in 1 .. 4 /\ (p + k) - p = k /\ (p + k) - p \in 1 .. n
    BY <1>1, <1>2
  <2>2. MergedBytes[p + k] = IF (p + k) - p \in 1 .. n THEN d[(p + k) - p] ELSE access.bytes[p + k]
    BY <1>3, <2>1
  <2> QED BY <2>1, <2>2, Zenon
<1> QED BY <1>2, <1>4, <1>5 DEF p, d, n, Quad

(* What is left to write after a word.                                     *)
LEMMA DataLeft ==
    ASSUME MemoryTypeOK
    PROVE  LET rest == SubSeq(access.data, Overwritten + 1, Len(access.data)) IN
           /\ rest \in Seq(Byte) /\ Len(rest) = Len(access.data) - Overwritten
           /\ \A k \in 1 .. Len(rest) : rest[k] = access.data[Overwritten + k]
<1> DEFINE d == access.data
           n == Overwritten
<1>1. d \in Seq(Byte) /\ Len(d) \in Nat /\ n \in 0 .. Len(d) /\ \A i \in 1 .. Len(d) : d[i] \in Byte
  BY AccessFields, OverwrittenBytes, LenProperties, ElementOfSeq
<1> HIDE DEF d, n
<1>2. n + 1 \in Int /\ Len(d) \in Int /\ \A i \in n + 1 .. Len(d) : d[i] \in Byte
  BY <1>1
<1>3. /\ SubSeq(d, n + 1, Len(d)) \in Seq(Byte)
      /\ Len(SubSeq(d, n + 1, Len(d))) = IF n + 1 <= Len(d) THEN Len(d) - (n + 1) + 1 ELSE 0
      /\ \A i \in 1 .. Len(d) - (n + 1) + 1 : SubSeq(d, n + 1, Len(d))[i] = d[n + 1 + i - 1]
  BY <1>2, SubSeqProperties
<1>4. Len(SubSeq(d, n + 1, Len(d))) = Len(d) - n
  BY <1>1, <1>3
<1>5. ASSUME NEW k \in 1 .. Len(d) - n PROVE SubSeq(d, n + 1, Len(d))[k] = d[n + k]
  <2>1. k \in 1 .. Len(d) - (n + 1) + 1 /\ n + 1 + k - 1 = n + k
    BY <1>1
  <2> QED BY <1>3, <2>1
<1> QED BY <1>3, <1>4, <1>5 DEF d, n

(* Every access over JTAG keeps the types.                                 *)
LEMMA AccessStepKeepsTypes ==
    ASSUME MemoryTypeOK, AccessStep
    PROVE  MemoryTypeOK' /\ access'.at # "none"
<1>0. /\ access \in AccessType /\ mem \in [Word -> WordValue]
      /\ bad \subseteq Word /\ write_mem_addr \in Word
  BY DEF MemoryTypeOK, AccessType, Aligned
<1>1. SUFFICES access' \in AccessType /\ mem' \in [Word -> WordValue] /\ bad' \subseteq Word
               /\ write_mem_addr' \in Word /\ access'.at # "none"
  BY DEF MemoryTypeOK, AccessType, Aligned
<1>2. CASE ReadWord
  <2>1. access' = IF CurrentWord \in bad THEN [access EXCEPT !.at = "done"]
                  ELSE [access EXCEPT
                           !.at = IF access.byte_pos + ReadNow = 4 THEN "read" ELSE "done",
                           !.addr = AddTo(@, 4), !.byte_pos = 0, !.left = @ - ReadNow,
                           !.data = @ \o BytesRead]
    BY <1>2 DEF ReadWord, ReadNow, BytesRead
  <2>2. access.left - ReadNow \in Nat /\ access.data \o BytesRead \in Seq(Byte)
    BY AccessFields, BytesReadAreBytes
  <2>3. AddTo(access.addr, 4) \in Aligned
    BY AccessFields
  <2>4. access' \in AccessType /\ access'.at # "none"
    <3>1. CASE CurrentWord \in bad
      BY <1>0, <2>1, <3>1 DEF AccessType
    <3>2. CASE CurrentWord \notin bad
      <4> DEFINE next == IF access.byte_pos + ReadNow = 4 THEN "read" ELSE "done"
      <4>1. access' = [access EXCEPT !.at = next, !.addr = AddTo(access.addr, 4), !.byte_pos = 0,
                                    !.left = access.left - ReadNow,
                                    !.data = access.data \o BytesRead]
        BY <2>1, <3>2
      <4>2. next \in {"read", "load", "address", "data", "done", "failed"}
        OBVIOUS
      <4> HIDE DEF next
      <4>3. access' = [access EXCEPT !.at = next, !.addr = AddTo(access.addr, 4), !.byte_pos = 0,
                                    !.left = access.left - ReadNow,
                                    !.data = access.data \o BytesRead, !.bytes = access.bytes]
        BY <1>0, <4>1 DEF AccessType
      <4>4. access.bytes \in Quad /\ 0 \in 0 .. 3
        BY AccessFields
      <4> DEFINE addr2 == AddTo(access.addr, 4)
                 left2 == access.left - ReadNow
                 data2 == access.data \o BytesRead
                 D == Seq(Byte)
      <4>5. addr2 \in Aligned /\ left2 \in Nat /\ data2 \in D
        BY <2>2, <2>3
      <4>6. access \in [at : {"none", "read", "load", "address", "data", "done", "failed"},
                        addr : Aligned, byte_pos : 0 .. 3, left : Nat, data : D, bytes : Quad]
        BY <1>0 DEF AccessType
      <4>8. access' = [access EXCEPT !.at = next, !.addr = addr2, !.byte_pos = 0,
                                    !.left = left2, !.data = data2, !.bytes = access.bytes]
        BY <4>3
      <4> HIDE DEF addr2, left2, data2, D
      <4>7. access' \in [at : {"none", "read", "load", "address", "data", "done", "failed"},
                        addr : Aligned, byte_pos : 0 .. 3, left : Nat, data : D, bytes : Quad]
            /\ access'.at = next
        BY ONLY <4>2, <4>8, <4>4, <4>5, <4>6
      <4> QED BY <4>2, <4>7 DEF AccessType, D
    <3> QED BY <3>1, <3>2
  <2> QED BY <1>0, <1>2, <2>4 DEF ReadWord, memory
<1>3. CASE LoadWord
  <2>1. break_up_into_bytes(mem[CurrentWord]) \in Quad
    BY AccessFields, BreakUpIsQuad
  <2> QED BY <1>0, <1>3, <2>1 DEF LoadWord, memory, AccessType
<1>4. CASE SetWriteAddress
  BY <1>0, <1>4, AccessFields DEF SetWriteAddress, AccessType
<1>5. CASE StoreWord
  <2>1. CASE write_mem_addr \in bad
    BY <1>0, <1>5, <2>1 DEF StoreWord, AccessType
  <2>2. CASE write_mem_addr \notin bad
    <3>1. assemble_bytes(MergedBytes) \in WordValue /\ MergedBytes \in Quad
      BY OverwrittenBytes, AssembledBytes
    <3>2. SubSeq(access.data, Overwritten + 1, Len(access.data)) \in Seq(Byte)
      BY DataLeft
    <3>3. AddTo(access.addr, 4) \in Aligned
      BY AccessFields
    <3>4. AfterStore \in {"read", "load", "address", "data", "done", "failed"}
      BY DEF AfterStore
    <3>5. mem' \in [Word -> WordValue]
      BY <1>0, <1>5, <2>2, <3>1 DEF StoreWord
    <3>6. access' = [access EXCEPT
                       !.at = AfterStore, !.addr = AddTo(access.addr, 4), !.byte_pos = 0,
                       !.left = access.left,
                       !.data = SubSeq(access.data, Overwritten + 1, Len(access.data)),
                       !.bytes = MergedBytes]
      BY <1>0, <1>5, <2>2 DEF StoreWord, AccessType
    <3>8. access.left \in Nat /\ 0 \in 0 .. 3
      BY AccessFields
    <3>7. access' \in AccessType /\ access'.at # "none"
      <4> DEFINE addr2 == AddTo(access.addr, 4)
                 data2 == SubSeq(access.data, Overwritten + 1, Len(access.data))
                 bytes2 == MergedBytes
                 at2 == AfterStore
                 D == Seq(Byte)
      <4>1. addr2 \in Aligned /\ data2 \in D /\ bytes2 \in Quad
            /\ at2 \in {"read", "load", "address", "data", "done", "failed"}
        BY <3>1, <3>2, <3>3, <3>4
      <4>2. access \in [at : {"none", "read", "load", "address", "data", "done", "failed"},
                        addr : Aligned, byte_pos : 0 .. 3, left : Nat, data : D, bytes : Quad]
        BY <1>0 DEF AccessType
      <4>3. access' = [access EXCEPT !.at = at2, !.addr = addr2, !.byte_pos = 0,
                                    !.left = access.left, !.data = data2, !.bytes = bytes2]
        BY <3>6
      <4> HIDE DEF addr2, data2, bytes2, at2, D
      <4>4. access' \in [at : {"none", "read", "load", "address", "data", "done", "failed"},
                        addr : Aligned, byte_pos : 0 .. 3, left : Nat, data : D, bytes : Quad]
            /\ access'.at = at2
        BY ONLY <3>8, <4>1, <4>2, <4>3
      <4> QED BY <4>1, <4>4 DEF AccessType, D
    <3> QED BY <1>0, <1>5, <3>5, <3>7 DEF StoreWord
  <2> QED BY <2>1, <2>2
<1> QED BY <1>2, <1>3, <1>4, <1>5 DEF AccessStep

-----------------------------------------------------------------------------
(* The handlers keep the types.                                            *)

(* No access has the type of one.                                          *)
LEMMA NoAccessIsAccess == NoAccess \in AccessType
<1>1. 0 \in Aligned
  BY Bases DEF Aligned, Word
<1>2. [k \in 1 .. 4 |-> 0] \in Quad
  BY Bases DEF Quad, Byte
<1>3. <<>> \in Seq(Byte)
  OBVIOUS
<1> QED BY <1>1, <1>2, <1>3 DEF NoAccess, AccessType

(* A handler that replies keeps the types.                                 *)
LEMMA HandlersReplyWell ==
    ASSUME TypeOK, NEW payload \in Chars, NEW next \in {"acking", "acking_monitor"},
           PutPacket(payload, next), toBridge' \in Seq(0 .. 256),
           regs' \in [Spr -> 0 .. DigitBase - 1], jtag_ok' \in BOOLEAN, UNCHANGED memory,
           (UNCHANGED access /\ pc # "access") \/ access' = NoAccess
    PROVE  TypeOK'
<1>1. Frame(payload) \in Seq(0 .. 255) /\ payload \in Seq(0 .. 255)
  BY FrameIsChars DEF Chars
<1>2. toGdb' \in Seq(Seq(0 .. 255))
  BY <1>1 DEF TypeOK, PacketsTypeOK, PutPacket
<1>3. PacketsTypeOK'
  BY <1>1, <1>2 DEF TypeOK, PacketsTypeOK, PutPacket, receiver, client
<1>4. access' \in AccessType /\ access'.at = "none"
  <2>1. CASE UNCHANGED access /\ pc # "access"
    BY <2>1 DEF TypeOK, MemoryTypeOK, AccessType, Aligned
  <2>2. CASE access' = NoAccess
    BY <2>2, NoAccessIsAccess DEF NoAccess
  <2> QED BY <2>1, <2>2
<1>5. MemoryTypeOK'
  BY <1>4 DEF TypeOK, MemoryTypeOK, memory, AccessType, Aligned
<1> QED BY <1>3, <1>4, <1>5 DEF TypeOK

(* So does the end of the connection.                                      *)
LEMMA ClosingKeepsTypes ==
    ASSUME TypeOK, ClientClose, pc' \in {"listening", "crashed"},
           regs' = regs, jtag_ok' = jtag_ok, UNCHANGED memory,
           (UNCHANGED access /\ pc # "access") \/ access' = NoAccess
    PROVE  TypeOK'
<1>1. PacketsTypeOK'
  <2>1. <<>> \in Seq(0 .. 255) /\ <<>> \in Seq(0 .. 256) /\ <<>> \in Seq(Seq(0 .. 255))
        /\ Len(<<>>) = 0
    OBVIOUS
  <2>2. buf' = <<>> /\ toBridge' = <<>> /\ toGdb' = <<>>
    BY DEF ClientClose
  <2>3. Len(buf') < BufMax
    BY <2>1, <2>2, RspPacketsAssumption
  <2> QED BY <2>1, <2>2, <2>3 DEF TypeOK, PacketsTypeOK, ClientClose, history
<1>2. access' \in AccessType /\ access'.at = "none"
  <2>1. CASE UNCHANGED access /\ pc # "access"
    BY <2>1 DEF TypeOK, MemoryTypeOK, AccessType, Aligned
  <2>2. CASE access' = NoAccess
    BY <2>2, NoAccessIsAccess DEF NoAccess
  <2> QED BY <2>1, <2>2
<1> QED BY <1>1, <1>2 DEF TypeOK, MemoryTypeOK, memory, AccessType, Aligned

(* Hexadecimal digits are characters, and say their values.                *)
LEMMA HexDigits ==
    /\ \A v \in 0 .. 15 : get_hex_char(v) \in HexDigit /\ get_hex_char(v) \in 0 .. 255
                          /\ parse_hex_digit(get_hex_char(v)) = v
    /\ \A c \in HexDigit : parse_hex_digit(c) \in 0 .. 15
    /\ \A c \in 0 .. 255 : DataDigit(c) \in 0 .. DigitBase - 1
<1>1. ASSUME NEW v \in 0 .. 15
      PROVE  get_hex_char(v) \in HexDigit /\ get_hex_char(v) \in 0 .. 255
             /\ parse_hex_digit(get_hex_char(v)) = v
  BY DEF get_hex_char, HexDigit, parse_hex_digit
<1>2. ASSUME NEW c \in HexDigit PROVE parse_hex_digit(c) \in 0 .. 15
  BY <1>1 DEF HexDigit, parse_hex_digit
<1>3. ASSUME NEW c \in 0 .. 255 PROVE DataDigit(c) \in 0 .. DigitBase - 1
  <2>1. parse_hex_digit(c) \in Int /\ DigitBase \in Nat \ {0}
    BY Bases DEF parse_hex_digit
  <2> HIDE DEF parse_hex_digit
  <2> QED BY <2>1 DEF DataDigit
<1> QED BY <1>1, <1>2, <1>3

(* The digits of a request say bytes.                                      *)
LEMMA BytesAreBytes ==
    ASSUME NEW chars \in Chars
    PROVE  BytesIn(chars) \in Seq(Byte) /\ Len(BytesIn(chars)) = Len(chars) \div 2
<1>1. Len(chars) \in Nat /\ \A i \in 1 .. Len(chars) : chars[i] \in 0 .. 255
  BY ElementOfSeq, LenProperties DEF Chars
<1> DEFINE n == Len(chars) \div 2
<1>2. n \in Nat
  BY <1>1
<1>3. ASSUME NEW i \in 1 .. n
      PROVE  DigitBase * DataDigit(chars[2 * i - 1]) + DataDigit(chars[2 * i]) \in Byte
  <2> DEFINE x == DataDigit(chars[2 * i - 1])
             y == DataDigit(chars[2 * i])
  <2>1. 2 * i - 1 \in 1 .. Len(chars) /\ 2 * i \in 1 .. Len(chars)
    BY <1>1
  <2>2. x \in 0 .. DigitBase - 1 /\ y \in 0 .. DigitBase - 1
    BY <1>1, <2>1, HexDigits
  <2> HIDE DEF x, y
  <2>3. DigitBase \in Nat
    BY Bases
  <2>4. x * DigitBase + y \in 0 .. DigitBase * DigitBase - 1
    BY <2>2, <2>3, TwoDigits
  <2>5. x * DigitBase = DigitBase * x
    BY <2>2, <2>3
  <2> QED BY <2>4, <2>5, Bases DEF Byte, x, y
<1>4. BytesIn(chars) = [i \in 1 .. n |->
          DigitBase * DataDigit(chars[2 * i - 1]) + DataDigit(chars[2 * i])]
  BY DEF BytesIn
<1> HIDE DEF n
<1>5. BytesIn(chars) \in [1 .. n -> Byte]
  BY <1>3, <1>4
<1>6. BytesIn(chars) \in Seq(Byte)
  BY <1>2, <1>5
<1> QED BY <1>2, <1>5, <1>6 DEF n

(* The values of a digit of the data are values of a hexadecimal digit.    *)
LEMMA BelowSixteen == \A v \in 0 .. DigitBase - 1 : v \in 0 .. 15
BY Bases

(* Each byte of a reply becomes two digits.                                *)
LEMMA DigitsAreDigits ==
    ASSUME NEW data \in Seq(Byte)
    PROVE  /\ Digits(data) \in Chars /\ Len(Digits(data)) = 2 * Len(data)
           /\ \A i \in 1 .. 2 * Len(data) : Digits(data)[i] \in HexDigit
           /\ \A i \in 1 .. Len(data) :
                 /\ Digits(data)[2 * i - 1] = get_hex_char(data[i] \div DigitBase)
                 /\ Digits(data)[2 * i] = get_hex_char(data[i] % DigitBase)
                 /\ data[i] \div DigitBase \in 0 .. DigitBase - 1
                 /\ data[i] % DigitBase \in 0 .. DigitBase - 1
<1> DEFINE n == Len(data)
           d == Digits(data)
<1>1. n \in Nat /\ \A i \in 1 .. n : data[i] \in Byte
  BY ElementOfSeq, LenProperties
<1>2. ASSUME NEW v \in Byte
      PROVE  v \div DigitBase \in 0 .. DigitBase - 1 /\ v % DigitBase \in 0 .. DigitBase - 1
  BY Bases DEF Byte
<1>3. d = [i \in 1 .. 2 * n |->
             get_hex_char(IF i % 2 = 1 THEN data[(i + 1) \div 2] \div DigitBase
                          ELSE data[i \div 2] % DigitBase)]
  BY DEF Digits
<1>4. ASSUME NEW i \in 1 .. 2 * n PROVE d[i] \in HexDigit /\ d[i] \in 0 .. 255
  <2>1. CASE i % 2 = 1
    <3>1. (i + 1) \div 2 \in 1 .. n
      BY <1>1, <2>1
    <3>2. d[i] = get_hex_char(data[(i + 1) \div 2] \div DigitBase)
      BY <1>3, <2>1
    <3> HIDE DEF n, d
    <3>3. data[(i + 1) \div 2] \div DigitBase \in 0 .. DigitBase - 1
      BY <1>1, <1>2, <3>1
    <3>4. data[(i + 1) \div 2] \div DigitBase \in 0 .. 15
      BY <3>3, BelowSixteen
    <3> QED BY <3>2, <3>4, HexDigits, ZenonT(60)
  <2>2. CASE i % 2 # 1
    <3>1. i \div 2 \in 1 .. n
      BY <1>1, <2>2
    <3>2. d[i] = get_hex_char(data[i \div 2] % DigitBase)
      BY <1>3, <2>2
    <3> HIDE DEF n, d
    <3>3. data[i \div 2] % DigitBase \in 0 .. DigitBase - 1
      BY <1>1, <1>2, <3>1
    <3>4. data[i \div 2] % DigitBase \in 0 .. 15
      BY <3>3, BelowSixteen
    <3> QED BY <3>2, <3>4, HexDigits, ZenonT(60)
  <2> QED BY <2>1, <2>2
<1>5. ASSUME NEW i \in 1 .. n
      PROVE  /\ d[2 * i - 1] = get_hex_char(data[i] \div DigitBase)
             /\ d[2 * i] = get_hex_char(data[i] % DigitBase)
  <2>1. /\ 2 * i - 1 \in 1 .. 2 * n /\ 2 * i \in 1 .. 2 * n
        /\ (2 * i - 1) % 2 = 1 /\ ((2 * i - 1) + 1) \div 2 = i
        /\ (2 * i) % 2 = 0 /\ (2 * i) \div 2 = i
    BY <1>1
  <2> QED BY <1>3, <2>1
<1>6. 2 * n \in Nat
  BY <1>1
<1> HIDE DEF d, n
<1>7. d \in [1 .. 2 * n -> 0 .. 255]
  <2>1. d = [i \in 1 .. 2 * n |-> d[i]]
    BY <1>3
  <2> QED BY <1>4, <2>1
<1>8. d \in Chars /\ Len(d) = 2 * n
  <2> DEFINE m == 2 * n
  <2>1. m \in Nat /\ d \in [1 .. m -> 0 .. 255]
    BY <1>6, <1>7
  <2> HIDE DEF m
  <2>2. d \in Seq(0 .. 255) /\ Len(d) = m
    BY <2>1
  <2> QED BY <2>2 DEF m, Chars
<1> QED BY <1>1, <1>2, <1>4, <1>5, <1>8 DEF d, n

(* The numbers of a request.                                               *)
LEMMA RequestFields ==
    ASSUME TypeOK
    PROVE  /\ HasFields(1) => Field(1) \in 0 .. 15
           /\ HasFields(2) =>
                 /\ Field(1) \in 0 .. 15 /\ Field(2) \in 0 .. 15
                 /\ StartAddress \in Address /\ Length \in Nat /\ Length < 4 * WordCount
           /\ WriteDigits \in Chars
           /\ Len(buf) >= 3 => Len(WriteDigits) = Len(buf) - 3
<1>1. buf \in Seq(0 .. 255) /\ Len(buf) \in Nat /\ \A i \in 1 .. Len(buf) : buf[i] \in 0 .. 255
  BY ElementOfSeq, LenProperties DEF TypeOK, PacketsTypeOK
<1>0. Field(1) = parse_hex_digit(buf[2]) /\ Field(2) = parse_hex_digit(buf[3])
  BY DEF Field
<1>2. HasFields(1) => Field(1) \in 0 .. 15
  <2>1. HasFields(1) => buf[2] \in HexDigit
    BY DEF HasFields
  <2> QED BY <1>0, <2>1, HexDigits
<1>3. HasFields(2) => Field(1) \in 0 .. 15 /\ Field(2) \in 0 .. 15
  <2>1. HasFields(2) => buf[2] \in HexDigit /\ buf[3] \in HexDigit
    BY DEF HasFields
  <2> QED BY <1>0, <2>1, HexDigits
<1>4. Field(1) \in 0 .. 15 /\ Field(2) \in 0 .. 15 =>
         StartAddress \in Address /\ Length \in Nat /\ Length < 4 * WordCount
  <2> SUFFICES ASSUME Field(1) \in 0 .. 15, Field(2) \in 0 .. 15
               PROVE  StartAddress \in Address /\ Length \in Nat /\ Length < 4 * WordCount
    OBVIOUS
  <2>1. WordCount \in Nat /\ WordCount >= 5
    BY RspAccessAssumption, DbgMemoryAssumption
  <2>2. PICK s, n : s = Field(1) /\ n = Field(2)
    OBVIOUS
  <2>3. /\ StartAddress = IF s < 10 THEN s ELSE 4 * WordCount - 16 + s
        /\ Length = IF n < 10 THEN n ELSE 2 * WordCount - 10 + n
    BY <2>2 DEF StartAddress, Length
  <2>4. s \in 0 .. 15 /\ n \in 0 .. 15
    BY <2>2
  <2> QED BY <2>1, <2>3, <2>4 DEF Address
<1>5. /\ SubSeq(buf, 4, Len(buf)) \in Seq(0 .. 255)
      /\ Len(SubSeq(buf, 4, Len(buf))) = IF 4 <= Len(buf) THEN Len(buf) - 4 + 1 ELSE 0
  <2>1. \A i \in 4 .. Len(buf) : buf[i] \in 0 .. 255
    BY <1>1
  <2> QED BY <1>1, <2>1, SubSeqProperties
<1>6. WriteDigits \in Chars /\ (Len(buf) >= 3 => Len(WriteDigits) = Len(buf) - 3)
  <2>1. WriteDigits = SubSeq(buf, 4, Len(buf))
    BY DEF WriteDigits
  <2>2. CASE Len(buf) >= 4
    <3>1. Len(buf) - 4 + 1 = Len(buf) - 3 /\ 4 <= Len(buf)
      BY <1>1, <2>2
    <3> QED BY <1>5, <2>1, <3>1 DEF Chars
  <2>3. CASE ~(Len(buf) >= 4)
    <3> DEFINE l == Len(buf)
    <3>2. l \in Nat /\ ~(l >= 4)
      BY <1>1, <2>3
    <3>1. ~(4 <= Len(buf)) /\ (Len(buf) >= 3 => Len(buf) - 3 = 0)
      <4> HIDE DEF l
      <4>1. ~(4 <= l) /\ (l >= 3 => l - 3 = 0)
        BY <3>2
      <4> QED BY <4>1 DEF l
    <3> QED BY <1>5, <2>1, <3>1 DEF Chars
  <2> QED BY <2>2, <2>3
<1> QED BY <1>2, <1>3, <1>4, <1>6

(* The beginning of an access.                                             *)
LEMMA StartsKeepTypes ==
    ASSUME TypeOK, rsp_read_mem \/ rsp_write_mem
    PROVE  TypeOK' /\ access' \in AccessType /\ pc' = "access"
<1>1. pc' = "access" /\ UNCHANGED <<receiver, reply, wires, client, history, memory, regs, jtag_ok>>
  BY DEF rsp_read_mem, rsp_write_mem
<1>2. PacketsTypeOK'
  BY <1>1 DEF TypeOK, PacketsTypeOK, receiver, wires, client, history
<1>3. access' \in AccessType
  <2>1. HasFields(2)
    BY DEF rsp_read_mem, rsp_write_mem, ReadMemIsLegal, WriteMemIsLegal
  <2> DEFINE w == StartAddress \div 4
             p == StartAddress % 4
             D == Seq(Byte)
  <2>2. w \in Word /\ p \in 0 .. 3 /\ StartAddress - p = 4 * w
    BY <2>1, RequestFields, WordOfAddress
  <2>3. StartAddress - p \in Aligned
    BY <2>2 DEF Aligned
  <2>4. <<>> \in D /\ BytesIn(WriteDigits) \in D
    BY RequestFields, BytesAreBytes
  <2>5. \A g \in {0, ByteBase - 1} : [k \in 1 .. 4 |-> g] \in Quad
    BY Bases DEF Quad, Byte
  <2>6. AccessType = [at : {"none", "read", "load", "address", "data", "done", "failed"},
                      addr : Aligned, byte_pos : 0 .. 3, left : Nat, data : D, bytes : Quad]
    BY DEF AccessType
  <2>7. CASE rsp_read_mem
    <3> DEFINE n == Length
               a == StartAddress - p
    <3>1. n \in Nat
      BY <2>1, RequestFields
    <3>2. access' = [NoAccess EXCEPT !.at = "read", !.addr = a, !.byte_pos = p, !.left = n]
      BY <2>7 DEF rsp_read_mem, StartReadMem
    <3>3. a \in Aligned
      BY <2>3
    <3> HIDE DEF n, a, p, w, D
    <3> QED BY <2>2, <2>6, <3>1, <3>2, <3>3, NoAccessIsAccess
  <2>8. CASE rsp_write_mem
    <3> DEFINE d == BytesIn(WriteDigits)
               a == StartAddress - p
               at == IF LoadsFirst(p, Len(d)) THEN "load" ELSE "address"
    <3>1. PICK g \in {0, ByteBase - 1} :
              access' = [at |-> at, addr |-> a, byte_pos |-> p, left |-> 0, data |-> d,
                         bytes |-> [k \in 1 .. 4 |-> g]]
      BY <2>8 DEF rsp_write_mem, StartWriteMem
    <3> DEFINE b == [k \in 1 .. 4 |-> g]
    <3>2. a \in Aligned /\ d \in D /\ b \in Quad /\ at \in {"load", "address"}
      BY <2>3, <2>4, <2>5
    <3>3. access' = [at |-> at, addr |-> a, byte_pos |-> p, left |-> 0, data |-> d, bytes |-> b]
      BY <3>1
    <3> HIDE DEF a, p, w, D, d, at, b
    <3> QED BY <2>2, <2>6, <3>2, <3>3
  <2> QED BY <2>7, <2>8
<1>4. MemoryTypeOK'
  BY <1>1, <1>3 DEF TypeOK, MemoryTypeOK, memory, AccessType, Aligned
<1> QED BY <1>1, <1>2, <1>3, <1>4 DEF TypeOK

(* The Special Purpose Registers the handlers name.                        *)
LEMMA SprTypes ==
    /\ SPR_NPC \in Spr /\ SPR_SR \in Spr /\ EPCR \in Spr /\ PICMR \in Spr /\ TTMR \in Spr
    /\ \A i \in 1 .. MAX_GPRS : i - 1 \in Spr
BY RspAccessAssumption DEF SPR_NPC, SPR_SR, EPCR, PICMR, TTMR, Spr

(* The value of a register is one digit.                                   *)
LEMMA RegisterDigit ==
    ASSUME TypeOK, NEW spr \in Spr
    PROVE  regs[spr] \in 0 .. 15 /\ get_hex_char(regs[spr]) \in 0 .. 255
<1>1. regs[spr] \in 0 .. DigitBase - 1
  BY DEF TypeOK
<1>2. regs[spr] \in 0 .. 15
  BY <1>1, Bases
<1> QED BY <1>2, HexDigits

(* The fixed replies are made of characters.                               *)
LEMMA ShortReplies ==
    /\ OK \in Chars /\ ErrorCode \in Chars /\ Stopped \in Chars /\ Text \in Chars
    /\ ErrorText \in Chars /\ <<>> \in Chars
BY DEF OK, ErrorCode, Stopped, Text, ErrorText, Chars

(* rsp_read_all_regs keeps the types.                                      *)
LEMMA ReadAllRegsKeepsTypes ==
    ASSUME TypeOK, rsp_read_all_regs
    PROVE  TypeOK'
<1> DEFINE gprs == [i \in 1 .. MAX_GPRS |-> get_hex_char(regs[i - 1])]
           rest == <<get_hex_char(0), get_hex_char(regs[SPR_NPC]), get_hex_char(regs[SPR_SR])>>
<1>0. MAX_GPRS \in Nat /\ \A i \in 1 .. MAX_GPRS : get_hex_char(regs[i - 1]) \in 0 .. 255
  BY SprTypes, RegisterDigit, RspAccessAssumption
<1>1. gprs \in [1 .. MAX_GPRS -> 0 .. 255] /\ MAX_GPRS \in Nat
  BY <1>0
<1>2. gprs \in Seq(0 .. 255)
  BY <1>1
<1>3. get_hex_char(0) \in 0 .. 255 /\ get_hex_char(regs[SPR_NPC]) \in 0 .. 255
      /\ get_hex_char(regs[SPR_SR]) \in 0 .. 255
  <2>1. 0 \in 0 .. 15
    OBVIOUS
  <2>2. get_hex_char(0) \in 0 .. 255
    BY <2>1, HexDigits
  <2>3. SPR_NPC \in Spr /\ SPR_SR \in Spr
    BY SprTypes
  <2> QED BY <2>2, <2>3, RegisterDigit
<1>4. rest \in Seq(0 .. 255)
  BY <1>3
<1>5. Reply(gprs \o rest) /\ UNCHANGED target /\ pc # "access"
  BY DEF rsp_read_all_regs, Handles
<1> HIDE DEF gprs, rest
<1>6. gprs \o rest \in Chars
  BY <1>2, <1>4 DEF Chars
<1> QED BY <1>5, <1>6, HandlersReplyWell DEF Reply, target, TypeOK, PacketsTypeOK

(* rsp_write_reg keeps the types.                                          *)
LEMMA WriteRegKeepsTypes ==
    ASSUME TypeOK, rsp_write_reg
    PROVE  TypeOK'
<1>1. pc # "access" /\ UNCHANGED <<memory, access, jtag_ok>> /\ Reply(OK)
  BY DEF rsp_write_reg, Handles
<1>2. regs' \in [Spr -> 0 .. DigitBase - 1]
  <2>1. CASE UNCHANGED regs
    BY <2>1 DEF TypeOK
  <2>2. ASSUME Field(1) # PPC_REGNUM, NEW v \in parse_reg_from_hex(Field(2)),
               regs' = [regs EXCEPT ![SprOf(Field(1))] = v]
        PROVE  regs' \in [Spr -> 0 .. DigitBase - 1]
    <3>1. v \in 0 .. DigitBase - 1
      BY <2>2 DEF parse_reg_from_hex
    <3> QED BY <2>2, <3>1 DEF TypeOK
  <2> QED BY <2>1, <2>2 DEF rsp_write_reg
<1> QED BY <1>1, <1>2, ShortReplies, HandlersReplyWell DEF Reply, TypeOK, PacketsTypeOK

(* So do the monitor commands,                                             *)
LEMMA MonitorsKeepTypes ==
    ASSUME TypeOK, MonitorHelp \/ MonitorReadSpr \/ MonitorWriteSpr \/ MonitorReset
    PROVE  TypeOK'
<1> USE DEF TypeOK, PacketsTypeOK
<1>1. pc # "access"
  BY DEF MonitorHelp, MonitorReadSpr, MonitorWriteSpr, MonitorReset, Monitors
<1>2. CASE MonitorHelp
  BY <1>1, <1>2, ShortReplies, HandlersReplyWell DEF MonitorHelp, MonitorReply, target
<1>3. CASE MonitorReadSpr
  <2>1. SprNumber \in Spr
    BY <1>3 DEF MonitorReadSpr, SprIsThere
  <2>2. <<get_hex_char(regs[SprNumber])>> \in Chars
    <3>1. get_hex_char(regs[SprNumber]) \in 0 .. 255
      BY <2>1, RegisterDigit
    <3> QED BY <3>1 DEF Chars
  <2> QED BY <1>1, <1>3, <2>2, HandlersReplyWell DEF MonitorReadSpr, MonitorReply, target
<1>4. CASE MonitorWriteSpr
  <2>1. Len(buf) >= 5 /\ buf[5] \in 0 .. 255
    BY <1>4, ElementOfSeq DEF MonitorWriteSpr, SprArgument
  <2>2. regs' \in [Spr -> 0 .. DigitBase - 1]
    BY <1>4, <2>1, HexDigits DEF MonitorWriteSpr
  <2> QED BY <1>1, <1>4, <2>2, ShortReplies, HandlersReplyWell DEF MonitorWriteSpr, MonitorReply
<1>5. CASE MonitorReset
  <2>1. ASSUME NEW n PROVE AfterWrites(n) \in [Spr -> 0 .. DigitBase - 1]
    <3>1. \A spr \in Spr : ResetValue(spr) \in 0 .. DigitBase - 1
      BY Bases DEF ResetValue
    <3> QED BY <3>1 DEF AfterWrites
  <2>2. regs' \in [Spr -> 0 .. DigitBase - 1] /\ jtag_ok' \in BOOLEAN
    BY <1>5, <2>1, ZenonT(60) DEF MonitorReset
  <2>3. \/ PutPacket(Text, "acking_monitor") /\ toBridge' = toBridge
        \/ PutPacket(ErrorText, "acking") /\ toBridge' = toBridge
    BY <1>5 DEF MonitorReset, MonitorReply, Reply
  <2> QED BY <1>1, <1>5, <2>2, <2>3, ShortReplies, HandlersReplyWell, SMTT(30) DEF MonitorReset
<1> QED BY <1>2, <1>3, <1>4, <1>5

(* their errors,                                                           *)
LEMMA MonitorErrorsKeepTypes ==
    ASSUME TypeOK, MonitorError \/ MonitorRefused
    PROVE  TypeOK'
<1> USE DEF TypeOK, PacketsTypeOK
<1>1. CASE MonitorError
  BY <1>1, ShortReplies, HandlersReplyWell DEF MonitorError, Handles, Reply, target
<1>2. CASE MonitorRefused
  <2>1. toBridge \in Seq(0 .. 256) /\ toBridge # <<>>
    BY <1>2 DEF MonitorRefused, BadAcknowledgement
  <2>2. Tail(toBridge) \in Seq(0 .. 256)
    BY <2>1
  <2>3. toBridge' \in Seq(0 .. 256)
    BY <1>2, <2>1, <2>2 DEF MonitorRefused
  <2>4. pc # "access"
    BY <1>2 DEF MonitorRefused, BadAcknowledgement
  <2> QED BY <1>2, <2>3, <2>4, ShortReplies, HandlersReplyWell DEF MonitorRefused, target
<1> QED BY <1>1, <1>2

(* the requests with a fixed answer and the ends of the program,           *)
LEMMA FixedKeepTypes ==
    ASSUME TypeOK, AnswerFixed \/ kill_request \/ AssertionFails \/ ReplyOverflows \/ PollFails
    PROVE  TypeOK'
<1>1. CASE AnswerFixed
  <2>1. IsFixed /\ Reply(FixedReply) /\ UNCHANGED target /\ pc # "access"
    BY <1>1 DEF AnswerFixed
  <2>2. FixedReply \in Chars
    BY <2>1, ShortReplies DEF IsFixed, FixedReply, GDB_RSP_BREAK_CMD, Query
  <2> QED BY <2>1, <2>2, HandlersReplyWell DEF Reply, target, TypeOK, PacketsTypeOK
<1>2. CASE kill_request
  <2>1. pc # "access" /\ pc' = "idle" /\ UNCHANGED target
        /\ UNCHANGED <<receiver, reply, wires, client, history>>
    BY <1>2 DEF kill_request, Handles
  <2>2. PacketsTypeOK'
    BY <2>1 DEF TypeOK, PacketsTypeOK, receiver, wires, client, history
  <2>3. access.at = "none"
    BY <2>1 DEF TypeOK
  <2> QED BY <2>1, <2>2, <2>3, TargetKeepsTypes
<1>3. CASE AssertionFails
  BY <1>3, ClosingKeepsTypes DEF AssertionFails, Handles, target
<1>4. CASE PollFails
  BY <1>4, ClosingKeepsTypes DEF PollFails, target
<1>5. CASE ReplyOverflows
  BY <1>5, ClosingKeepsTypes DEF ReplyOverflows
<1> QED BY <1>1, <1>2, <1>3, <1>4, <1>5

(* and with them all handlers.                                             *)
LEMMA HandlingKeepsTypes ==
    ASSUME TypeOK, Handle
    PROVE  TypeOK'
<1>1. CASE AccessMemory
  <2>1. MemoryTypeOK' /\ pc' = "access"
    BY <1>1, AccessStepKeepsTypes DEF AccessMemory, TypeOK
  <2>2. PacketsTypeOK'
    BY <1>1 DEF AccessMemory, TypeOK, PacketsTypeOK, receiver, wires, client, history
  <2> QED BY <1>1, <2>1, <2>2 DEF AccessMemory, TypeOK
<1>2. CASE FinishAccess
  <2>1. access.data \in Seq(Byte)
    BY AccessFields DEF TypeOK
  <2>2. MemoryReply \in Chars
    BY <2>1, DigitsAreDigits, ShortReplies DEF MemoryReply
  <2> QED BY <1>2, <2>2, HandlersReplyWell DEF FinishAccess, Reply, TypeOK, PacketsTypeOK
<1>3. CASE Caught
  <2>1. ClientClose /\ pc' \in {"listening", "crashed"} /\ access' = NoAccess
        /\ UNCHANGED <<memory, regs, jtag_ok>>
    BY <1>3 DEF Caught, Throw
  <2> QED BY <2>1, ClosingKeepsTypes
<1> QED BY <1>1, <1>2, <1>3, StartsKeepTypes, ReadAllRegsKeepsTypes, WriteRegKeepsTypes,
           MonitorsKeepTypes, MonitorErrorsKeepTypes, FixedKeepTypes DEF Handle

(* The loss of JTAG, a new client and a new start keep the types.          *)
LEMMA ConnectionsKeepTypes ==
    ASSUME TypeOK, JtagIsLost \/ Connect \/ Restart
    PROVE  TypeOK'
<1>1. CASE JtagIsLost
  <2>1. PacketsTypeOK'
    BY <1>1 DEF JtagIsLost, TypeOK, PacketsTypeOK, receiver, wires, client, history
  <2>2. MemoryTypeOK'
    BY <1>1 DEF JtagIsLost, TypeOK, MemoryTypeOK, memory
  <2>3. regs' \in [Spr -> 0 .. DigitBase - 1] /\ jtag_ok' \in BOOLEAN
    BY <1>1 DEF JtagIsLost, TypeOK
  <2>4. access'.at # "none" => pc' = "access"
    BY <1>1 DEF JtagIsLost, TypeOK
  <2> QED BY <2>1, <2>2, <2>3, <2>4 DEF TypeOK
<1>2. CASE Connect
  <2>1. toBridge' \in Seq(0 .. 256)
    <3>1. <<>> \in Seq(0 .. 256) /\ <<Minus, Plus>> \in Seq(0 .. 256)
      BY DEF Minus, Plus
    <3> QED BY <1>2, <3>1 DEF Connect, Accept
  <2>2. pc # "access" /\ pc' = "idle" /\ UNCHANGED target
    BY <1>2 DEF Connect, Accept
  <2>3. PacketsTypeOK'
    BY <1>2, <2>1 DEF Connect, Accept, TypeOK, PacketsTypeOK
  <2>4. access.at = "none"
    BY <2>2 DEF TypeOK
  <2> QED BY <2>2, <2>3, <2>4, TargetKeepsTypes
<1>3. CASE Restart
  <2>1. pc # "access" /\ pc' = "listening" /\ jtag_ok' = TRUE
        /\ UNCHANGED <<receiver, reply, wires, client, history, memory, access, regs>>
    BY <1>3 DEF Restart
  <2>2. PacketsTypeOK'
    BY <2>1 DEF TypeOK, PacketsTypeOK, receiver, wires, client, history
  <2> QED BY <2>1, <2>2 DEF TypeOK, MemoryTypeOK, memory
<1> QED BY <1>1, <1>2, <1>3

(* The types hold at the beginning,                                        *)
LEMMA InitTypes == Init => TypeOK
<1> SUFFICES ASSUME Init PROVE TypeOK
  OBVIOUS
<1>1. PacketsTypeOK
  <2>1. <<>> \in Seq(0 .. 255) /\ <<>> \in Seq(0 .. 256) /\ <<>> \in Seq(Seq(0 .. 255))
        /\ Len(<<>>) = 0
    OBVIOUS
  <2>2. buf = <<>> /\ Len(buf) < BufMax /\ 0 \in 0 .. MaxRequests /\ 0 \in 0 .. MaxTimeouts
    BY <2>1, RspPacketsAssumption DEF Init, PacketsInit
  <2>3. /\ pc = "listening" /\ is_first_packet = TRUE /\ damaged = FALSE
        /\ checksum = 0 /\ digit = 0 /\ reply = <<>> /\ toBridge = <<>> /\ toGdb = <<>>
        /\ gdb = "absent" /\ request = <<>> /\ asked = 0 /\ timeouts = 0
        /\ started = 0 /\ answered = 0
    BY DEF Init, PacketsInit
  <2>4. reply \in Seq(0 .. 255) /\ toBridge \in Seq(0 .. 256) /\ toGdb \in Seq(Seq(0 .. 255))
        /\ buf \in Seq(0 .. 255) /\ Len(buf) < BufMax
    BY <2>1, <2>2, <2>3
  <2>5. checksum \in 0 .. 255 /\ digit \in 0 .. 256 /\ started \in Nat /\ answered \in Nat
        /\ asked \in 0 .. MaxRequests /\ timeouts \in 0 .. MaxTimeouts
    BY <2>2, <2>3
  <2> QED BY <2>3, <2>4, <2>5 DEF PacketsTypeOK
<1>2. access \in AccessType /\ access.at = "none"
  BY NoAccessIsAccess DEF Init, NoAccess
<1> QED BY <1>1, <1>2 DEF Init, TypeOK, MemoryTypeOK, AccessType, Aligned

(* and every step keeps them.                                              *)
LEMMA NextKeepsTypes == TypeOK /\ [Next]_vars => TypeOK'
<1> SUFFICES ASSUME TypeOK, [Next]_vars PROVE TypeOK'
  OBVIOUS
<1>1. CASE UNCHANGED vars
  <2>1. PacketsTypeOK'
    BY <1>1 DEF vars, TypeOK, PacketsTypeOK, receiver, wires, client, history
  <2>2. MemoryTypeOK'
    BY <1>1 DEF vars, TypeOK, MemoryTypeOK, memory
  <2> QED BY <1>1, <2>1, <2>2 DEF vars, TypeOK
<1> QED BY <1>1, GdbKeepsTypes, ReceivingKeepsTypes, HandlingKeepsTypes, FixedKeepTypes,
           ConnectionsKeepTypes DEF Next, Bridge

(* The variables of RspAccess keep their types: the buffer of get_packet_2 *)
(* never overflows, and an access is always to a word of the memory.       *)
THEOREM AccessTypeCorrect == Spec => []TypeOK
<1> QED BY InitTypes, NextKeepsTypes, PTL DEF Spec

-----------------------------------------------------------------------------
(* The memory GDB is promised.                                             *)

(* The byte at address a.                                                  *)
ByteAt(m, a) == break_up_into_bytes(m[a \div 4])[(a % 4) + 1]
(* The address of the i-th byte of a range that begins at s.               *)
PlaceOf(s, i) == (s + i - 1) % (4 * WordCount)
(* The address of the i-th byte of the access in progress.                 *)
Place(i) == PlaceOf(StartAddress, i)
(* The address the routine has reached.                                    *)
Position == access.addr + access.byte_pos
(* Bytes read, or not written yet.                                         *)
Got == Len(access.data)
(* Bytes written.                                                          *)
Stored == Length - Got

(* What the handlers have checked before they start an access.             *)
JobIsLegal ==
    pc = "access" =>
        /\ HasFields(2) /\ Length > 0 /\ Length < 4 * WordCount
        /\ Head(buf) \in {ReadMem, WriteMem}
        /\ Head(buf) = WriteMem => Len(BytesIn(WriteDigits)) = Length

(* An access that reads is in progress.                                    *)
Reading == pc = "access" /\ Head(buf) = ReadMem
(* An access that writes is in progress.                                   *)
Writing == pc = "access" /\ Head(buf) = WriteMem

(* The bytes read so far are those of the first places, and reading ends   *)
(* at the last of them or at a word that cannot be accessed.               *)
ReadIsExact ==
    Reading =>
        /\ access.at \in {"read", "done"} /\ Got + access.left = Length
        /\ \A i \in 1 .. Got : access.data[i] = ByteAt(mem, Place(i))
        /\ access.at = "read" => Position = Place(Got + 1)
        /\ access.at = "done" => access.left = 0 \/ Place(Got + 1) \div 4 \in bad

(* The bytes not yet written are the last ones of the request, and the     *)
(* first ones are in their places.                                         *)
WriteIsExact ==
    Writing =>
        /\ access.at \in {"load", "address", "data", "done", "failed"}
        /\ Got <= Length /\ (access.at = "done" <=> Got = 0)
        /\ \A i \in 1 .. Got : access.data[i] = BytesIn(WriteDigits)[Stored + i]
        /\ \A i \in 1 .. Stored : ByteAt(mem, Place(i)) = BytesIn(WriteDigits)[i]
        /\ access.at # "done" => Position = Place(Stored + 1)
        /\ access.at = "failed" => CurrentWord \in bad

(* The bytes of the word to be stored that the request does not cover are  *)
(* those the word had.                                                     *)
OldBytesAreKept ==
    /\ Writing /\ access.at \in {"address", "data"} =>
          \A k \in 1 .. 4 : k - access.byte_pos \notin 1 .. Overwritten =>
              access.bytes[k] = break_up_into_bytes(mem[CurrentWord])[k]
    /\ Writing /\ access.at = "data" => write_mem_addr = CurrentWord

(* What every step keeps.                                                  *)
MemoryInv == JobIsLegal /\ ReadIsExact /\ WriteIsExact /\ OldBytesAreKept

(* An address goes around the end of the address space at most once.       *)
LEMMA OneTurn ==
    ASSUME NEW N \in Nat \ {0}, NEW s \in 0 .. N - 1, NEW i \in 1 .. N
    PROVE  /\ (s + i - 1) % N = IF s + i <= N THEN s + i - 1 ELSE s + i - 1 - N
           /\ (s + i - 1) % N \in 0 .. N - 1
<1>1. CASE s + i <= N
  <2>1. s + i - 1 \in 0 .. N - 1
    BY <1>1
  <2>2. (s + i - 1) % N = s + i - 1
    BY <2>1
  <2> QED BY <1>1, <2>1, <2>2
<1>2. CASE ~(s + i <= N)
  <2> DEFINE r == s + i - 1 - N
  <2>1. r \in 0 .. N - 1 /\ s + i - 1 = 1 * N + r
    BY <1>2
  <2> HIDE DEF r
  <2>2. (1 * N + r) % N = r
    BY <2>1, Quotient
  <2>3. (s + i - 1) % N = r
    BY <2>1, <2>2
  <2> QED BY <1>2, <2>1, <2>3 DEF r
<1> QED BY <1>1, <1>2

(* The i-th address from s in an address space of N.                       *)
Turned(N, s, i) == IF s + i <= N THEN s + i - 1 ELSE s + i - 1 - N

(* Places are such addresses.                                              *)
LEMMA PlaceIs ==
    ASSUME StartAddress \in Address, NEW i \in 1 .. 4 * WordCount
    PROVE  Place(i) = Turned(4 * WordCount, StartAddress, i) /\ Place(i) \in Address
<1> DEFINE N == 4 * WordCount
           s == StartAddress
<1>1. N \in Nat \ {0} /\ s \in 0 .. N - 1 /\ i \in 1 .. N
  BY Bases DEF Address
<1>2. Place(i) = (s + i - 1) % N /\ Address = 0 .. N - 1
  BY DEF Place, PlaceOf, Address
<1> HIDE DEF N, s
<1>3. Place(i) = Turned(N, s, i) /\ Place(i) \in 0 .. N - 1
  BY <1>1, <1>2, OneTurn DEF Turned
<1> QED BY <1>2, <1>3 DEF N, s

(* A range shorter than the address space has no place twice.              *)
LEMMA PlacesDiffer ==
    ASSUME StartAddress \in Address, NEW i \in 1 .. 4 * WordCount, NEW j \in 1 .. 4 * WordCount,
           i # j
    PROVE  Place(i) # Place(j)
<1> DEFINE N == 4 * WordCount
           s == StartAddress
<1>1. N \in Nat \ {0} /\ s \in 0 .. N - 1 /\ i \in 1 .. N /\ j \in 1 .. N
  BY Bases DEF Address
<1>2. Place(i) = Turned(N, s, i) /\ Place(j) = Turned(N, s, j)
  BY PlaceIs
<1> HIDE DEF N, s
<1> QED BY <1>1, <1>2 DEF Turned

(* A position within a word.                                               *)
LEMMA InWord ==
    ASSUME NEW w \in Nat, NEW r \in 0 .. 3
    PROVE  (4 * w + r) \div 4 = w /\ (4 * w + r) % 4 = r
OBVIOUS

(* Where the bytes of the current word are.                                *)
LEMMA PlacesInWord ==
    ASSUME MemoryTypeOK, StartAddress \in Address, NEW k \in Nat, NEW n \in Nat,
           access.byte_pos + n <= 4, k + n <= 4 * WordCount, k < 4 * WordCount,
           Position = Place(k + 1)
    PROVE  /\ Place(k + 1) \div 4 = CurrentWord
           /\ \A i \in 1 .. n : /\ Place(k + i) \in Address
                                /\ Place(k + i) \div 4 = CurrentWord
                                /\ (Place(k + i) % 4) + 1 = access.byte_pos + i
           /\ access.byte_pos + n = 4 /\ k + n < 4 * WordCount =>
                  Place(k + n + 1) = AddTo(access.addr, 4)
<1> DEFINE N == 4 * WordCount
           s == StartAddress
           p == access.byte_pos
           w == CurrentWord
<1>1. /\ N \in Nat \ {0} /\ s \in 0 .. N - 1 /\ p \in 0 .. 3 /\ w \in Nat
      /\ 4 * w + 4 <= N /\ Position = 4 * w + p
  <2>1. w \in Word /\ access.addr = 4 * w /\ p \in 0 .. 3
    BY AccessFields
  <2>2. w \in Nat /\ w + 1 <= WordCount /\ WordCount \in Nat \ {0}
    BY <2>1, Bases DEF Word
  <2>3. 4 * w + 4 <= N
    BY <2>2
  <2> QED BY <2>1, <2>2, <2>3 DEF Position, Address
<1>2. \A i \in 1 .. N : Place(i) = Turned(N, s, i) /\ Place(i) \in Address
  BY PlaceIs
<1>3. AddTo(access.addr, 4) = IF 4 * w + 4 = N THEN 0 ELSE 4 * w + 4
  <2>1. w + 1 <= WordCount /\ WordCount \in Nat /\ w \in Nat
    BY <1>1, Bases
  <2>2. AddTo(access.addr, 4) = 4 * (IF w + 1 = WordCount THEN 0 ELSE w + 1)
    <3>1. w \in Word /\ access.addr = 4 * w
      BY AccessFields
    <3> HIDE DEF w
    <3> QED BY <3>1, AddressOfWord
  <2>3. CASE w + 1 = WordCount
    BY <2>1, <2>2, <2>3
  <2>4. CASE w + 1 # WordCount
    BY <2>1, <2>2, <2>4
  <2> QED BY <2>3, <2>4
<1>4. p + n <= 4 /\ k + n <= N /\ k < N /\ Position = Place(k + 1)
  OBVIOUS
<1> HIDE DEF N, s, p, w
<1>5. 4 * w + p = Turned(N, s, k + 1)
  <2>1. k + 1 \in 1 .. N
    BY <1>1, <1>4
  <2> QED BY <1>1, <1>2, <1>4, <2>1
<1>6. /\ \A i \in 1 .. n : Turned(N, s, k + i) = 4 * w + (p + i - 1)
      /\ p + n = 4 /\ k + n < N =>
            Turned(N, s, k + n + 1) = IF 4 * w + 4 = N THEN 0 ELSE 4 * w + 4
  <2>1. N \in Nat \ {0} /\ s \in 0 .. N - 1 /\ p \in 0 .. 3 /\ w \in Nat /\ 4 * w + 4 <= N
    BY <1>1
  <2>2. p + n <= 4 /\ k + n <= N /\ k < N /\ k \in Nat /\ n \in Nat
    BY <1>4
  <2>3. \A i \in 1 .. n : Turned(N, s, k + i) = 4 * w + (p + i - 1)
    BY ONLY <2>1, <2>2, <1>5 DEF Turned
  <2>4. p + n = 4 /\ k + n < N =>
            Turned(N, s, k + n + 1) = IF 4 * w + 4 = N THEN 0 ELSE 4 * w + 4
    BY ONLY <2>1, <2>2, <1>5 DEF Turned
  <2> QED BY <2>3, <2>4
<1>7. ASSUME NEW i \in 1 .. n
      PROVE  /\ Place(k + i) \in Address /\ Place(k + i) \div 4 = w
             /\ (Place(k + i) % 4) + 1 = p + i
  <2>1. k + i \in 1 .. N /\ p + i - 1 \in 0 .. 3
    BY <1>1, <1>4
  <2>2. Place(k + i) = 4 * w + (p + i - 1) /\ Place(k + i) \in Address
    BY <1>2, <1>6, <2>1
  <2> DEFINE r == p + i - 1
  <2>3. r + 1 = p + i
    BY <1>1, <2>1
  <2>4. r \in 0 .. 3 /\ Place(k + i) = 4 * w + r
    BY <2>1, <2>2
  <2> HIDE DEF r
  <2>5. Place(k + i) \div 4 = w /\ Place(k + i) % 4 = r
    BY <1>1, <2>4, InWord
  <2> QED BY <2>2, <2>3, <2>5
<1>8. Place(k + 1) \div 4 = w
  BY <1>1, <1>4, InWord
<1>9. ASSUME p + n = 4, k + n < N PROVE Place(k + n + 1) = AddTo(access.addr, 4)
  <2>1. k + n + 1 \in 1 .. N
    BY <1>1, <1>4, <1>9
  <2> QED BY <1>2, <1>3, <1>6, <1>9, <2>1
<1> QED BY <1>7, <1>8, <1>9 DEF N, s, p, w

(* The bytes at the next places are those of the current word.             *)
LEMMA BytesInWord ==
    ASSUME MemoryTypeOK, StartAddress \in Address, NEW k \in Nat, NEW n \in Nat, NEW m,
           access.byte_pos + n <= 4, k + n <= 4 * WordCount, k < 4 * WordCount,
           Position = Place(k + 1), NEW i \in 1 .. n
    PROVE  ByteAt(m, Place(k + i)) = break_up_into_bytes(m[CurrentWord])[access.byte_pos + i]
BY PlacesInWord DEF ByteAt

(* The numbers of the access in progress.                                  *)
LEMMA LegalJob ==
    ASSUME TypeOK, JobIsLegal, pc = "access"
    PROVE  /\ StartAddress \in Address /\ Field(1) \in 0 .. 15
           /\ Length \in Nat \ {0} /\ Length < 4 * WordCount
           /\ 4 * WordCount \in Nat \ {0}
BY RequestFields, Bases DEF JobIsLegal

-----------------------------------------------------------------------------
(* Reading.                                                                *)

(* While the access goes on its request stays the same.                    *)
LEMMA TheJobStays ==
    ASSUME TypeOK, JobIsLegal, UNCHANGED <<pc, buf>>
    PROVE  /\ JobIsLegal' /\ (Reading' <=> Reading) /\ (Writing' <=> Writing)
           /\ Length' = Length /\ BytesIn(WriteDigits)' = BytesIn(WriteDigits)
           /\ StartAddress' = StartAddress
<1>1. /\ Length' = Length /\ WriteDigits' = WriteDigits
      /\ BytesIn(WriteDigits)' = BytesIn(WriteDigits)
      /\ HasFields(2)' = HasFields(2) /\ StartAddress' = StartAddress
  BY DEF Field, Length, WriteDigits, HasFields, StartAddress, BytesIn, DataDigit
<1> QED BY <1>1 DEF JobIsLegal, Reading, Writing

(* An access reads or writes, not both.                                    *)
LEMMA OpsDiffer == ReadMem # WriteMem
BY DEF ReadMem, WriteMem

(* The local variables after a word was read.                              *)
LEMMA ReadWordFields ==
    ASSUME MemoryTypeOK, ReadWord
    PROVE  /\ CurrentWord \in bad => access' = [access EXCEPT !.at = "done"]
           /\ CurrentWord \notin bad =>
                 /\ access'.at = IF access.byte_pos + ReadNow = 4 THEN "read" ELSE "done"
                 /\ access'.addr = AddTo(access.addr, 4) /\ access'.byte_pos = 0
                 /\ access'.left = access.left - ReadNow
                 /\ access'.data = access.data \o BytesRead
<1>1. access \in AccessType
  BY AccessFields
<1>2. access' = IF CurrentWord \in bad THEN [access EXCEPT !.at = "done"]
                ELSE [access EXCEPT
                         !.at = IF access.byte_pos + ReadNow = 4 THEN "read" ELSE "done",
                         !.addr = AddTo(access.addr, 4), !.byte_pos = 0,
                         !.left = access.left - ReadNow,
                         !.data = access.data \o BytesRead]
  BY DEF ReadWord, ReadNow, BytesRead
<1> DEFINE next == IF access.byte_pos + ReadNow = 4 THEN "read" ELSE "done"
           addr2 == AddTo(access.addr, 4)
           left2 == access.left - ReadNow
           data2 == access.data \o BytesRead
<1>3. CurrentWord \notin bad =>
        access' = [access EXCEPT !.at = next, !.addr = addr2, !.byte_pos = 0,
                                 !.left = left2, !.data = data2]
  BY <1>2
<1> HIDE DEF next, addr2, left2, data2
<1>4. CurrentWord \notin bad =>
          access'.at = next /\ access'.addr = addr2 /\ access'.byte_pos = 0
          /\ access'.left = left2 /\ access'.data = data2
  BY <1>1, <1>3 DEF AccessType
<1> QED BY <1>2, <1>4 DEF next, addr2, left2, data2

(* A range of a sequence that grows.                                       *)
LEMMA Joined ==
    ASSUME NEW a \in Seq(Byte), NEW b \in Seq(Byte)
    PROVE  /\ Len(a \o b) = Len(a) + Len(b)
           /\ \A i \in 1 .. Len(a) : (a \o b)[i] = a[i]
           /\ \A i \in 1 .. Len(b) : (a \o b)[Len(a) + i] = b[i]
<1>1. Len(a) \in Nat /\ Len(b) \in Nat /\ Len(a \o b) = Len(a) + Len(b)
      /\ \A i \in 1 .. Len(a) + Len(b) :
            (a \o b)[i] = IF i <= Len(a) THEN a[i] ELSE b[i - Len(a)]
  BY ConcatProperties, LenProperties
<1>2. ASSUME NEW i \in 1 .. Len(b) PROVE (a \o b)[Len(a) + i] = b[i]
  <2> DEFINE j == Len(a) + i
  <2>1. j \in 1 .. Len(a) + Len(b) /\ ~(j <= Len(a)) /\ j - Len(a) = i
    BY <1>1
  <2> QED BY <1>1, <2>1
<1> QED BY <1>1, <1>2

(* Reading a word keeps ReadIsExact.                                       *)
LEMMA ReadWordIsExact ==
    ASSUME TypeOK, JobIsLegal, ReadIsExact, Reading, ReadWord, UNCHANGED <<pc, buf>>
    PROVE  ReadIsExact'
<1> DEFINE k == Got
           n == ReadNow
           p == access.byte_pos
<1>1. /\ StartAddress \in Address /\ Length \in Nat \ {0} /\ Length < 4 * WordCount
      /\ 4 * WordCount \in Nat \ {0}
  BY LegalJob DEF Reading
<1>2. /\ access.at = "read" /\ k + access.left = Length /\ Position = Place(k + 1)
      /\ \A i \in 1 .. k : access.data[i] = ByteAt(mem, Place(i))
  BY DEF ReadIsExact, ReadWord
<1>3. k \in Nat /\ p \in 0 .. 3 /\ access.left \in Nat /\ MemoryTypeOK
      /\ access.data \in Seq(Byte)
  BY AccessFields, LenProperties DEF TypeOK, Got
<1>4. n \in 0 .. access.left /\ n \in 0 .. 4 - p /\ BytesRead \in Seq(Byte) /\ Len(BytesRead) = n
      /\ (n = 4 - p \/ n = access.left)
      /\ \A i \in 1 .. n : BytesRead[i] = break_up_into_bytes(mem[CurrentWord])[p + i]
  <2>1. 4 - p \in Nat
    BY <1>3
  <2> QED BY <1>3, <2>1, BytesReadAreBytes, SmallerOfTwo DEF ReadNow
<1>5. UNCHANGED <<mem, bad>>
  BY DEF ReadWord, memory
<1>6. CASE CurrentWord \in bad
  <2>1. access' = [access EXCEPT !.at = "done"] /\ access \in AccessType
    BY <1>3, <1>6, ReadWordFields, AccessFields
  <2>2. access'.at = "done" /\ access'.left = access.left /\ access'.data = access.data
    BY <2>1 DEF AccessType
  <2>3. Got' = k
    BY <2>2 DEF Got
  <2>4. Place(k + 1) \div 4 = CurrentWord
    <3>1. p + 0 <= 4 /\ k + 0 <= 4 * WordCount /\ k < 4 * WordCount /\ 0 \in Nat
      BY <1>1, <1>2, <1>3
    <3> HIDE DEF k, p
    <3>2. access.byte_pos + 0 <= 4
      BY <3>1 DEF p
    <3> QED BY <1>1, <1>2, <1>3, <3>1, <3>2, PlacesInWord
  <2>5. Place(Got + 1)' \div 4 \in bad'
    BY <1>5, <1>6, <2>3, <2>4, TheJobStays DEF Place
  <2>6. \A i \in 1 .. Got' : access'.data[i] = ByteAt(mem', Place(i)')
    BY <1>2, <1>5, <2>2, <2>3, TheJobStays DEF Place
  <2>7. Got' + access'.left = Length'
    BY <1>2, <2>2, <2>3, TheJobStays
  <2> QED BY <2>2, <2>5, <2>6, <2>7 DEF ReadIsExact
<1>7. CASE CurrentWord \notin bad
  <2>1. /\ access'.at = IF p + n = 4 THEN "read" ELSE "done"
        /\ access'.addr = AddTo(access.addr, 4) /\ access'.byte_pos = 0
        /\ access'.left = access.left - n /\ access'.data = access.data \o BytesRead
    BY <1>3, <1>7, ReadWordFields
  <2>2. Got' = k + n
    BY <1>3, <1>4, <2>1, Joined, ZenonT(60) DEF Got
  <2>3. /\ \A i \in 1 .. k : access'.data[i] = access.data[i]
        /\ \A i \in 1 .. n : access'.data[k + i] = BytesRead[i]
    BY <1>3, <1>4, <2>1, Joined DEF Got
  <2>4. p + n <= 4 /\ k + n <= Length /\ k + n < 4 * WordCount /\ k < 4 * WordCount
        /\ k + n \in Nat /\ n \in Nat
    <3>1. PICK a, q, c : a = access.left /\ q = Length /\ c = 4 * WordCount
      OBVIOUS
    <3>2. k \in Nat /\ p \in 0 .. 3 /\ a \in Nat /\ n \in 0 .. a /\ n \in 0 .. 4 - p
      BY <3>1, <1>3, <1>4
    <3>3. k + a = q /\ q \in Nat /\ c \in Nat /\ q < c
      BY <3>1, <1>1, <1>2
    <3> HIDE DEF k, n, p
    <3>4. p + n <= 4 /\ k + n <= q /\ k + n < c /\ k < c /\ k + n \in Nat /\ n \in Nat
      BY ONLY <3>2, <3>3
    <3> QED BY ONLY <3>1, <3>4
  <2>5. /\ \A i \in 1 .. n :
              ByteAt(mem, Place(k + i)) = break_up_into_bytes(mem[CurrentWord])[p + i]
        /\ p + n = 4 => Place(k + n + 1) = AddTo(access.addr, 4)
    <3>1. k + n <= 4 * WordCount
      BY <1>1, <2>4
    <3> QED BY <1>1, <1>2, <1>3, <2>4, <3>1, PlacesInWord, BytesInWord
  <2>6. ASSUME NEW i \in 1 .. k + n PROVE access'.data[i] = ByteAt(mem, Place(i))
    <3>1. CASE i <= k
      <4>1. i \in 1 .. k
        BY <1>3, <2>4, <3>1
      <4> QED BY <1>2, <2>3, <4>1
    <3>2. CASE ~(i <= k)
      <4> DEFINE j == i - k
      <4>1. j \in 1 .. n /\ i = k + j
        BY <1>3, <2>4, <3>2
      <4> HIDE DEF j, k
      <4> QED BY <1>4, <2>3, <2>5, <4>1
    <3> QED BY <3>1, <3>2
  <2>7. Got' + access'.left = Length'
    BY <1>1, <1>2, <1>3, <1>4, <2>1, <2>2, TheJobStays DEF Reading
  <2>8. \A i \in 1 .. Got' : access'.data[i] = ByteAt(mem', Place(i)')
    BY <1>5, <2>2, <2>6, TheJobStays DEF Place
  <2>9. access'.at = "read" => Position' = Place(Got + 1)'
    <3>1. access'.at = "read" => p + n = 4
      BY <2>1
    <3>2. p + n = 4 => PlaceOf(StartAddress, k + n + 1) = AddTo(access.addr, 4)
      BY <2>5 DEF Place
    <3>3. AddTo(access.addr, 4) + 0 = AddTo(access.addr, 4)
      BY <1>3, AccessFields, Bases DEF Aligned, Word
    <3>4. Position' = AddTo(access.addr, 4)
      BY <2>1, <3>3 DEF Position
    <3> QED BY <2>2, <3>1, <3>2, <3>4, TheJobStays DEF Place
  <2>10. access'.at = "done" => access'.left = 0
    BY <1>3, <1>4, <2>1
  <2>11. access'.at \in {"read", "done"}
    BY <2>1
  <2> QED BY <2>7, <2>8, <2>9, <2>10, <2>11 DEF ReadIsExact
<1> QED BY <1>6, <1>7

-----------------------------------------------------------------------------
(* Writing.                                                                *)

(* Loading a word before it is written keeps the invariant of writing,     *)
LEMMA LoadWordIsExact ==
    ASSUME TypeOK, JobIsLegal, WriteIsExact, Writing, LoadWord, UNCHANGED <<pc, buf>>
    PROVE  WriteIsExact' /\ OldBytesAreKept'
<1>1. access \in AccessType
  BY AccessFields DEF TypeOK
<1>2. UNCHANGED <<mem, bad>> /\ access.at = "load"
      /\ access' = IF CurrentWord \in bad THEN [access EXCEPT !.at = "failed"]
                   ELSE [access EXCEPT !.at = "address",
                                       !.bytes = break_up_into_bytes(mem[CurrentWord])]
  BY DEF LoadWord, memory
<1>3. /\ access'.at = IF CurrentWord \in bad THEN "failed" ELSE "address"
      /\ access'.data = access.data /\ access'.addr = access.addr
      /\ access'.byte_pos = access.byte_pos
      /\ CurrentWord \notin bad => access'.bytes = break_up_into_bytes(mem[CurrentWord])
  BY <1>1, <1>2 DEF AccessType
<1>4. Got' = Got /\ Stored' = Stored /\ CurrentWord' = CurrentWord /\ Position' = Position
  BY <1>3, TheJobStays DEF Got, Stored, CurrentWord, Position
<1>5. WriteIsExact'
  <2>1. /\ Got <= Length /\ Got # 0 /\ Position = PlaceOf(StartAddress, Stored + 1)
        /\ \A i \in 1 .. Got : access.data[i] = BytesIn(WriteDigits)[Stored + i]
        /\ \A i \in 1 .. Stored : ByteAt(mem, PlaceOf(StartAddress, i)) = BytesIn(WriteDigits)[i]
    BY <1>2 DEF WriteIsExact, Place
  <2>2. Writing' /\ Length' = Length /\ StartAddress' = StartAddress
        /\ BytesIn(WriteDigits)' = BytesIn(WriteDigits)
    BY TheJobStays
  <2>3. access'.at \in {"address", "failed"} /\ (access'.at = "failed" => CurrentWord' \in bad')
    BY <1>2, <1>3, <1>4
  <2> QED BY <1>2, <1>3, <1>4, <2>1, <2>2, <2>3 DEF WriteIsExact, Place
<1>6. OldBytesAreKept'
  BY <1>2, <1>3, <1>4 DEF OldBytesAreKept
<1> QED BY <1>5, <1>6

(* as does setting the address,                                            *)
LEMMA SetWriteAddressIsExact ==
    ASSUME TypeOK, JobIsLegal, WriteIsExact, OldBytesAreKept, Writing, SetWriteAddress,
           UNCHANGED <<pc, buf>>
    PROVE  WriteIsExact' /\ OldBytesAreKept'
<1>1. access \in AccessType
  BY AccessFields DEF TypeOK
<1>2. UNCHANGED <<mem, bad>> /\ access.at = "address" /\ write_mem_addr' = CurrentWord
      /\ access' = [access EXCEPT !.at = "data"]
  BY DEF SetWriteAddress
<1>3. /\ access'.at = "data" /\ access'.data = access.data /\ access'.addr = access.addr
      /\ access'.byte_pos = access.byte_pos /\ access'.bytes = access.bytes
  BY <1>1, <1>2 DEF AccessType
<1>4. Got' = Got /\ Stored' = Stored /\ CurrentWord' = CurrentWord /\ Position' = Position
      /\ Overwritten' = Overwritten
  BY <1>3, TheJobStays DEF Got, Stored, CurrentWord, Position, Overwritten
<1>5. WriteIsExact'
  <2>1. /\ Got <= Length /\ Got # 0 /\ Position = PlaceOf(StartAddress, Stored + 1)
        /\ \A i \in 1 .. Got : access.data[i] = BytesIn(WriteDigits)[Stored + i]
        /\ \A i \in 1 .. Stored : ByteAt(mem, PlaceOf(StartAddress, i)) = BytesIn(WriteDigits)[i]
    BY <1>2 DEF WriteIsExact, Place
  <2>2. Writing' /\ Length' = Length /\ StartAddress' = StartAddress
        /\ BytesIn(WriteDigits)' = BytesIn(WriteDigits)
    BY TheJobStays
  <2> QED BY <1>2, <1>3, <1>4, <2>1, <2>2 DEF WriteIsExact, Place
<1>6. OldBytesAreKept'
  <2>1. \A k \in 1 .. 4 : k - access.byte_pos \notin 1 .. Overwritten =>
            access.bytes[k] = break_up_into_bytes(mem[CurrentWord])[k]
    BY <1>2 DEF OldBytesAreKept
  <2> QED BY <1>2, <1>3, <1>4, <2>1 DEF OldBytesAreKept
<1> QED BY <1>5, <1>6

(* What a word holds after it was stored.                                  *)
LEMMA StoreWordFields ==
    ASSUME MemoryTypeOK, StoreWord, write_mem_addr = CurrentWord
    PROVE  /\ CurrentWord \in bad => access' = [access EXCEPT !.at = "failed"] /\ mem' = mem
           /\ CurrentWord \notin bad =>
                 /\ access'.at = AfterStore /\ access'.addr = AddTo(access.addr, 4)
                 /\ access'.byte_pos = 0
                 /\ access'.data = SubSeq(access.data, Overwritten + 1, Len(access.data))
                 /\ access'.bytes = MergedBytes
                 /\ \A k \in 1 .. 4 :
                       break_up_into_bytes(mem'[CurrentWord])[k] = MergedBytes[k]
                 /\ \A w \in Word \ {CurrentWord} : mem'[w] = mem[w]
<1>1. access \in AccessType /\ CurrentWord \in Word /\ mem \in [Word -> WordValue]
  BY AccessFields DEF MemoryTypeOK
<1>2. CASE CurrentWord \in bad
  BY <1>2 DEF StoreWord
<1>3. CASE CurrentWord \notin bad
  <2> DEFINE addr2 == AddTo(access.addr, 4)
             data2 == SubSeq(access.data, Overwritten + 1, Len(access.data))
             bytes2 == MergedBytes
             at2 == AfterStore
  <2>1. access' = [access EXCEPT !.at = at2, !.addr = addr2, !.byte_pos = 0,
                                 !.data = data2, !.bytes = bytes2]
    BY <1>3 DEF StoreWord
  <2>2. mem' = [mem EXCEPT ![CurrentWord] = assemble_bytes(MergedBytes)]
    BY <1>3 DEF StoreWord
  <2>3. mem'[CurrentWord] = assemble_bytes(MergedBytes)
        /\ \A w \in Word \ {CurrentWord} : mem'[w] = mem[w]
    BY <1>1, <2>2
  <2>4. \A k \in 1 .. 4 : break_up_into_bytes(mem'[CurrentWord])[k] = MergedBytes[k]
    BY <2>3, OverwrittenBytes, AssembledBytes
  <2> HIDE DEF addr2, data2, bytes2, at2
  <2>5. access'.at = at2 /\ access'.addr = addr2 /\ access'.byte_pos = 0
        /\ access'.data = data2 /\ access'.bytes = bytes2
    BY <1>1, <2>1 DEF AccessType
  <2> QED BY <1>3, <2>3, <2>4, <2>5 DEF addr2, data2, bytes2, at2
<1> QED BY <1>2, <1>3

(* The bytes that were stored before are not among those of this store.    *)
LEMMA EarlierBytesStay ==
    ASSUME TypeOK, JobIsLegal, WriteIsExact, OldBytesAreKept, Writing, StoreWord,
           CurrentWord \notin bad, NEW i \in 1 .. Stored
    PROVE  ByteAt(mem', Place(i)) = ByteAt(mem, Place(i))
<1> DEFINE k == Stored
           n == Overwritten
           p == access.byte_pos
           a == Place(i)
           q == (a % 4) + 1
<1>1. /\ StartAddress \in Address /\ Length \in Nat \ {0} /\ Length < 4 * WordCount
      /\ 4 * WordCount \in Nat \ {0} /\ MemoryTypeOK
  BY LegalJob DEF Writing, TypeOK
<1>2. /\ access.at = "data" /\ write_mem_addr = CurrentWord /\ Got <= Length
      /\ Position = Place(k + 1) /\ k = Length - Got
  BY DEF StoreWord, OldBytesAreKept, WriteIsExact, Stored
<1>3. /\ Got \in Nat /\ n \in 0 .. Got /\ n \in 0 .. 4 - p /\ p \in 0 .. 3
  BY <1>1, AccessFields, OverwrittenBytes, LenProperties DEF Got
<1>4. k \in Nat /\ k + n <= Length /\ k < 4 * WordCount /\ k + n <= 4 * WordCount
      /\ p + n <= 4 /\ n \in Nat /\ i \in 1 .. 4 * WordCount /\ i <= k
  <2> HIDE DEF n, p
  <2>1. k \in Nat /\ i \in 1 .. k
    BY <1>1, <1>2, <1>3
  <2> HIDE DEF k
  <2> QED BY <1>1, <1>2, <1>3, <2>1
<1>5. a \in Address
  BY <1>1, <1>4, PlaceIs
<1>6. a \div 4 \in Word /\ q \in 1 .. 4 /\ a = 4 * (a \div 4) + (a % 4) /\ a % 4 \in 0 .. 3
  BY <1>5, WordOfAddress
<1>7. CASE a \div 4 # CurrentWord
  BY <1>1, <1>2, <1>6, <1>7, StoreWordFields DEF ByteAt
<1>8. CASE a \div 4 = CurrentWord
  <2>1. q - p \notin 1 .. n
    <3> SUFFICES ASSUME q - p \in 1 .. n PROVE FALSE
      OBVIOUS
    <3> DEFINE j == q - p
    <3>1. j \in 1 .. n /\ p + j = q
      BY <1>3, <1>6
    <3>2. /\ Place(k + j) \in Address /\ Place(k + j) \div 4 = CurrentWord
          /\ (Place(k + j) % 4) + 1 = p + j
      <4> HIDE DEF j
      <4> QED BY <1>1, <1>2, <1>4, <3>1, PlacesInWord
    <3> DEFINE b == Place(k + j)
    <3>3. b = 4 * (b \div 4) + (b % 4) /\ b % 4 \in 0 .. 3
      BY <3>2, WordOfAddress
    <3>4. b = a
      <4>1. b % 4 = a % 4 /\ b \div 4 = a \div 4
        <5>1. (b % 4) + 1 = (a % 4) + 1 /\ b \div 4 = CurrentWord
          BY <3>1, <3>2
        <5> HIDE DEF b, a
        <5> QED BY <1>6, <1>8, <3>3, <5>1
      <4> HIDE DEF a, b
      <4> QED BY <1>6, <3>3, <4>1
    <3>5. k + j \in 1 .. 4 * WordCount /\ k + j # i
      <4> HIDE DEF j, k, n, p
      <4> QED BY <1>1, <1>4, <3>1
    <3> HIDE DEF j, k
    <3> QED BY <1>1, <1>4, <3>4, <3>5, PlacesDiffer
  <2>2. access.bytes[q] = break_up_into_bytes(mem[CurrentWord])[q]
    BY <1>2, <1>6, <2>1 DEF OldBytesAreKept
  <2>3. MergedBytes[q] = access.bytes[q]
    <3> HIDE DEF q, n, p
    <3>1. q \in 1 .. 4 /\ q - access.byte_pos \notin 1 .. Overwritten
      BY <1>6, <2>1 DEF n, p
    <3> QED BY <3>1 DEF MergedBytes
  <2>4. break_up_into_bytes(mem'[CurrentWord])[q] = MergedBytes[q]
    BY <1>1, <1>2, <1>6, StoreWordFields
  <2> QED BY <1>8, <2>2, <2>3, <2>4 DEF ByteAt
<1> QED BY <1>7, <1>8

(* and storing the word.                                                   *)
LEMMA StoreWordIsExact ==
    ASSUME TypeOK, JobIsLegal, WriteIsExact, OldBytesAreKept, Writing, StoreWord,
           UNCHANGED <<pc, buf>>
    PROVE  WriteIsExact' /\ OldBytesAreKept'
<1> DEFINE k == Stored
           n == Overwritten
           p == access.byte_pos
           W == BytesIn(WriteDigits)
<1>1. /\ StartAddress \in Address /\ Length \in Nat \ {0} /\ Length < 4 * WordCount
      /\ 4 * WordCount \in Nat \ {0} /\ MemoryTypeOK
  BY LegalJob DEF Writing, TypeOK
<1>2. /\ access.at = "data" /\ write_mem_addr = CurrentWord /\ Got <= Length
      /\ Position = Place(k + 1) /\ k = Length - Got /\ Got # 0 /\ UNCHANGED bad
      /\ \A i \in 1 .. Got : access.data[i] = W[k + i]
      /\ \A i \in 1 .. k : ByteAt(mem, Place(i)) = W[i]
  BY DEF StoreWord, OldBytesAreKept, WriteIsExact, Stored
<1>3. /\ Got \in Nat /\ n \in 0 .. Got /\ n \in 0 .. 4 - p /\ p \in 0 .. 3
      /\ (n = 4 - p \/ n = Got) /\ Got = Len(access.data)
      /\ \A i \in 1 .. n : MergedBytes[p + i] = access.data[i]
  BY <1>1, AccessFields, OverwrittenBytes, LenProperties DEF Got
<1>4. k \in Nat /\ k + n <= Length /\ k < 4 * WordCount /\ k + n <= 4 * WordCount
      /\ p + n <= 4 /\ n \in Nat
  <2> HIDE DEF n, p
  <2>1. k \in Nat
    BY <1>1, <1>2, <1>3
  <2> DEFINE L == Length
             G == Got
             N == 4 * WordCount
  <2>2. /\ L \in Nat /\ N \in Nat /\ L < N /\ G \in Nat /\ G <= L /\ G # 0 /\ k = L - G
        /\ n \in 0 .. G /\ n \in 0 .. 4 - p /\ p \in 0 .. 3
    BY <1>1, <1>2, <1>3
  <2> HIDE DEF k, L, G, N
  <2>3. k + n <= L /\ k < N /\ k + n <= N /\ p + n <= 4 /\ n \in Nat
    BY ONLY <2>2
  <2> QED BY <2>1, <2>3 DEF L, N
<1>5. /\ Writing' /\ Length' = Length /\ StartAddress' = StartAddress
      /\ BytesIn(WriteDigits)' = W
  BY TheJobStays
<1>6. CASE CurrentWord \in bad
  <2>1. access' = [access EXCEPT !.at = "failed"] /\ mem' = mem /\ access \in AccessType
    BY <1>1, <1>2, <1>6, StoreWordFields, AccessFields
  <2>2. access'.at = "failed" /\ access'.data = access.data /\ access'.addr = access.addr
        /\ access'.byte_pos = access.byte_pos
    BY <2>1 DEF AccessType
  <2>3. Got' = Got /\ Stored' = Stored /\ CurrentWord' = CurrentWord /\ Position' = Position
    BY <1>5, <2>2 DEF Got, Stored, CurrentWord, Position
  <2>4. /\ Position = PlaceOf(StartAddress, Stored + 1)
        /\ \A i \in 1 .. Got : access.data[i] = BytesIn(WriteDigits)[Stored + i]
        /\ \A i \in 1 .. Stored : ByteAt(mem, PlaceOf(StartAddress, i)) = BytesIn(WriteDigits)[i]
    BY <1>2 DEF Place
  <2>5. WriteIsExact'
    BY <1>2, <1>5, <1>6, <2>1, <2>2, <2>3, <2>4 DEF WriteIsExact, Place
  <2> QED BY <2>2, <2>5 DEF OldBytesAreKept
<1>7. CASE CurrentWord \notin bad
  <2>1. /\ access'.at = AfterStore /\ access'.addr = AddTo(access.addr, 4)
        /\ access'.byte_pos = 0
        /\ access'.data = SubSeq(access.data, n + 1, Len(access.data))
        /\ \A i \in 1 .. 4 : break_up_into_bytes(mem'[CurrentWord])[i] = MergedBytes[i]
    BY <1>1, <1>2, <1>7, StoreWordFields
  <2>2. Got' = Got - n /\ \A i \in 1 .. Got - n : access'.data[i] = access.data[n + i]
    BY <1>1, <1>3, <2>1, DataLeft DEF Got
  <2>3. Stored' = k + n
    <3>1. Stored' = Length - (Got - n)
      BY <1>5, <2>2 DEF Stored
    <3> HIDE DEF k, n
    <3> QED BY <1>1, <1>2, <1>3, <3>1
  <2>4. /\ AfterStore = IF Got = n THEN "done" ELSE IF Got - n < 4 THEN "load" ELSE "address"
    BY <1>3 DEF AfterStore, Got
  <2>5. \A i \in 1 .. n : /\ Place(k + i) \div 4 = CurrentWord
                          /\ (Place(k + i) % 4) + 1 = p + i
    BY <1>1, <1>2, <1>4, PlacesInWord
  <2>6. ASSUME NEW i \in 1 .. k + n PROVE ByteAt(mem', Place(i)) = W[i]
    <3>1. CASE i <= k
      <4>1. i \in 1 .. k
        <5> HIDE DEF k, n
        <5> QED BY <1>4, <3>1
      <4> QED BY <1>2, <1>7, <4>1, EarlierBytesStay
    <3>2. CASE ~(i <= k)
      <4> DEFINE j == i - k
      <4>1. j \in 1 .. n /\ i = k + j /\ j \in 1 .. Got /\ p + j \in 1 .. 4
        <5> HIDE DEF k, n, p
        <5> QED BY <1>3, <1>4, <3>2
      <4> HIDE DEF j, k, n, p, W
      <4>2. ByteAt(mem', Place(k + j)) = break_up_into_bytes(mem'[CurrentWord])[p + j]
        BY <2>5, <4>1 DEF ByteAt
      <4> QED BY <1>2, <1>3, <2>1, <4>1, <4>2, ZenonT(60)
    <3> QED BY <3>1, <3>2
  <2>7. ASSUME NEW i \in 1 .. Got' PROVE access'.data[i] = W[Stored' + i]
    <3>1. i \in 1 .. Got - n /\ n + i \in 1 .. Got /\ k + n + i = k + (n + i)
      <4> HIDE DEF k, n
      <4> QED BY <1>3, <1>4, <2>2
    <3> HIDE DEF k, n, W
    <3> QED BY <1>2, <2>2, <2>3, <3>1
  <2>8. access'.at # "done" => Position' = Place(Stored + n + 1)
    <3> SUFFICES ASSUME access'.at # "done" PROVE Position' = Place(k + n + 1)
      OBVIOUS
    <3>1. p + n = 4 /\ k + n < 4 * WordCount
      <4>1. Got # n
        BY <2>1, <2>4
      <4> HIDE DEF k, n, p
      <4> QED BY <1>1, <1>3, <1>4, <4>1
    <3>2. AddTo(access.addr, 4) + 0 = AddTo(access.addr, 4)
      BY <1>1, AccessFields, Bases DEF Aligned, Word
    <3>3. Position' = AddTo(access.addr, 4)
      BY <2>1, <3>2 DEF Position
    <3> QED BY <1>1, <1>2, <1>4, <3>1, <3>3, PlacesInWord
  <2>9. /\ Got' <= Length' /\ (access'.at = "done" <=> Got' = 0)
        /\ access'.at \in {"load", "address", "done"}
    <3> HIDE DEF n
    <3> QED BY <1>1, <1>2, <1>3, <1>5, <2>1, <2>2, <2>4
  <2>10. WriteIsExact'
    <3>1. \A i \in 1 .. Stored' : ByteAt(mem', PlaceOf(StartAddress, i)) = W[i]
      BY <2>3, <2>6 DEF Place
    <3>2. access'.at # "done" => Position' = PlaceOf(StartAddress, Stored' + 1)
      BY <2>3, <2>8 DEF Place
    <3> HIDE DEF W
    <3> QED BY <1>5, <2>7, <2>9, <3>1, <3>2 DEF WriteIsExact, Place, W
  <2>11. OldBytesAreKept'
    <3>1. access'.at = "address" => Overwritten' = 4
      <4> HIDE DEF n
      <4>1. access'.at = "address" => ~(Got' < 4) /\ Got' \in Nat
        BY <1>3, <2>1, <2>2, <2>4
      <4>2. Overwritten' = Smaller(4 - access'.byte_pos, Got')
        BY DEF Overwritten, Got
      <4>3. Overwritten' = Smaller(4, Got')
        BY <2>1, <4>2
      <4> QED BY <4>1, <4>3 DEF Smaller
    <3>2. access'.at # "data"
      BY <2>9
    <3>3. \A i \in 1 .. 4 : i - 0 \in 1 .. 4
      OBVIOUS
    <3> QED BY <2>1, <3>1, <3>2, <3>3 DEF OldBytesAreKept
  <2> QED BY <2>10, <2>11
<1> QED BY <1>6, <1>7

(* Every access keeps to the job.                                          *)
LEMMA AccessesAreExact ==
    ASSUME TypeOK, MemoryInv, AccessMemory
    PROVE  MemoryInv'
<1>1. /\ pc = "access" /\ UNCHANGED <<pc, buf>> /\ JobIsLegal /\ JobIsLegal'
      /\ (Reading' <=> Reading) /\ (Writing' <=> Writing)
  BY TheJobStays DEF AccessMemory, receiver, MemoryInv
<1>2. CASE Reading
  <2>1. ReadIsExact /\ ~Writing
    BY <1>2, OpsDiffer DEF MemoryInv, Reading, Writing
  <2>2. ReadWord
    BY <1>2, <2>1 DEF ReadIsExact, AccessMemory, AccessStep, LoadWord, SetWriteAddress, StoreWord
  <2> QED BY <1>1, <1>2, <2>1, <2>2, ReadWordIsExact DEF MemoryInv, WriteIsExact, OldBytesAreKept
<1>3. CASE Writing
  <2>1. WriteIsExact /\ OldBytesAreKept /\ ~Reading
    BY <1>3, OpsDiffer DEF MemoryInv, Reading, Writing
  <2>2. LoadWord \/ SetWriteAddress \/ StoreWord
    BY <1>3, <2>1 DEF WriteIsExact, AccessMemory, AccessStep, ReadWord
  <2> QED BY <1>1, <1>3, <2>1, <2>2, LoadWordIsExact, SetWriteAddressIsExact, StoreWordIsExact
          DEF MemoryInv, ReadIsExact
<1> QED BY <1>1, <1>2, <1>3 DEF JobIsLegal, Reading, Writing

-----------------------------------------------------------------------------
(* How an access starts, and what has nothing to do with it.               *)

(* The first place is the start address.                                   *)
LEMMA StartingPlace ==
    ASSUME StartAddress \in Address
    PROVE  Place(1) = StartAddress
           /\ (StartAddress - (StartAddress % 4)) + (StartAddress % 4) = StartAddress
<1>1. StartAddress \in Nat /\ StartAddress + 1 <= 4 * WordCount /\ 1 \in 1 .. 4 * WordCount
  BY Bases DEF Address
<1>2. Place(1) = StartAddress + 1 - 1
  BY <1>1, PlaceIs DEF Turned
<1> DEFINE s == StartAddress
<1>3. s + 1 - 1 = s /\ (s - (s % 4)) + (s % 4) = s
  BY <1>1
<1> QED BY <1>2, <1>3

(* rsp_read_mem establishes the invariant.                                 *)
LEMMA ReadStartsExact ==
    ASSUME TypeOK, rsp_read_mem
    PROVE  MemoryInv'
<1>1. /\ pc' = "access" /\ UNCHANGED buf /\ HasFields(2) /\ Length > 0 /\ Head(buf) = ReadMem
  BY DEF rsp_read_mem, ReadMemIsLegal, Handles, receiver
<1>2. Length \in Nat /\ StartAddress \in Address /\ Length < 4 * WordCount
  BY <1>1, RequestFields
<1>3. /\ Length' = Length /\ StartAddress' = StartAddress /\ HasFields(2)' = HasFields(2)
      /\ Head(buf)' = Head(buf)
  BY <1>1 DEF Field, Length, HasFields, StartAddress
<1>4. /\ access'.at = "read" /\ access'.addr = StartAddress - (StartAddress % 4)
      /\ access'.byte_pos = StartAddress % 4 /\ access'.left = Length /\ access'.data = <<>>
  <2> DEFINE addr2 == StartAddress - (StartAddress % 4)
             pos2 == StartAddress % 4
             left2 == Length
  <2>1. access' = [NoAccess EXCEPT !.at = "read", !.addr = addr2, !.byte_pos = pos2,
                                   !.left = left2]
    BY DEF rsp_read_mem, StartReadMem
  <2> HIDE DEF addr2, pos2, left2
  <2>2. access'.at = "read" /\ access'.addr = addr2 /\ access'.byte_pos = pos2
        /\ access'.left = left2 /\ access'.data = <<>>
    BY <2>1 DEF NoAccess
  <2> QED BY <2>2 DEF addr2, pos2, left2
<1>5. Got' = 0
  BY <1>4 DEF Got
<1>6. JobIsLegal'
  BY <1>1, <1>2, <1>3, OpsDiffer DEF JobIsLegal
<1>7. Reading' /\ ~Writing'
  BY <1>1, <1>3, OpsDiffer DEF Reading, Writing
<1>8. Position' = PlaceOf(StartAddress', 0 + 1)
  BY <1>2, <1>3, <1>4, StartingPlace DEF Position, Place
<1>9. ReadIsExact'
  <2>1. Got' + access'.left = Length'
    BY <1>2, <1>3, <1>4, <1>5
  <2> QED BY <1>4, <1>5, <1>8, <2>1 DEF ReadIsExact, Place
<1> QED BY <1>6, <1>7, <1>9 DEF MemoryInv, WriteIsExact, OldBytesAreKept

(* So does rsp_write_mem.                                                  *)
LEMMA WriteStartsExact ==
    ASSUME TypeOK, rsp_write_mem
    PROVE  MemoryInv'
<1> DEFINE W == BytesIn(WriteDigits)
<1>1. /\ pc' = "access" /\ UNCHANGED buf /\ HasFields(2) /\ Length > 0 /\ Length < 2 * WordCount
      /\ TwiceLength = Len(WriteDigits) /\ Head(buf) = WriteMem
  <2>1. HasFields(2) /\ Length \in Nat /\ WordCount \in Nat
    BY RequestFields, Bases DEF rsp_write_mem, WriteMemIsLegal
  <2>2. Length < 2 * WordCount
    BY <2>1 DEF rsp_write_mem, NegativeLength
  <2> QED BY <2>2 DEF rsp_write_mem, WriteMemIsLegal, Handles, receiver
<1>2. /\ Length \in Nat /\ StartAddress \in Address /\ Length < 4 * WordCount
      /\ W \in Seq(Byte) /\ Len(W) = Length
  <2>1. /\ Length \in Nat /\ StartAddress \in Address /\ Length < 4 * WordCount
        /\ W \in Seq(Byte) /\ Len(W) = Len(WriteDigits) \div 2
    BY <1>1, RequestFields, BytesAreBytes
  <2>2. TwiceLength = 2 * Length
    <3> DEFINE n == Length
               m == 4 * WordCount
    <3>1. 2 * n \in 0 .. m - 1 /\ m \in Nat \ {0}
      BY <1>1, <2>1, Bases
    <3>2. TwiceLength = (2 * n) % m
      BY DEF TwiceLength
    <3> HIDE DEF m, n
    <3>3. (2 * n) % m = 2 * n
      BY <3>1
    <3> QED BY <3>2, <3>3 DEF n
  <2>3. (2 * Length) \div 2 = Length
    BY <2>1
  <2> QED BY <1>1, <2>1, <2>2, <2>3
<1>3. /\ Length' = Length /\ StartAddress' = StartAddress /\ HasFields(2)' = HasFields(2)
      /\ Head(buf)' = Head(buf) /\ BytesIn(WriteDigits)' = W /\ WriteDigits' = WriteDigits
  BY <1>1 DEF Field, Length, HasFields, StartAddress, WriteDigits, BytesIn, DataDigit
<1> DEFINE at2 == IF LoadsFirst(StartAddress % 4, Len(W)) THEN "load" ELSE "address"
<1>4. /\ access'.at = at2 /\ access'.addr = StartAddress - (StartAddress % 4)
      /\ access'.byte_pos = StartAddress % 4 /\ access'.data = W
  BY DEF rsp_write_mem, StartWriteMem
<1>5. Got' = Length /\ Stored' = 0
  <2>1. Got' = Length
    BY <1>2, <1>4 DEF Got
  <2> QED BY <1>2, <1>3, <2>1 DEF Stored
<1>6. JobIsLegal'
  BY <1>1, <1>2, <1>3 DEF JobIsLegal
<1>7. ~Reading' /\ Writing'
  BY <1>1, <1>3, OpsDiffer DEF Reading, Writing
<1>8. Position' = PlaceOf(StartAddress', 0 + 1)
  BY <1>2, <1>3, <1>4, StartingPlace DEF Position, Place
<1>9. WriteIsExact'
  <2>1. Length # 0 /\ \A i \in 1 .. Got' : 0 + i = i
    BY <1>1, <1>2, <1>5
  <2>2. access'.at \in {"load", "address"}
    BY <1>4
  <2>3. \A i \in 1 .. Got' : access'.data[i] = W[Stored' + i]
    <3> HIDE DEF W
    <3> QED BY <1>4, <1>5, <2>1
  <2>4. Got' <= Length' /\ Got' # 0
    BY <1>1, <1>2, <1>3, <1>5
  <2> HIDE DEF W
  <2> QED BY <1>3, <1>5, <1>8, <2>2, <2>3, <2>4 DEF WriteIsExact, Place
<1>10. OldBytesAreKept'
  <2>1. access'.at = "address" => Overwritten' = 4 /\ access'.byte_pos = 0
    <3> SUFFICES ASSUME access'.at = "address" PROVE Overwritten' = 4 /\ access'.byte_pos = 0
      OBVIOUS
    <3>1. ~LoadsFirst(StartAddress % 4, Len(W))
      BY <1>4
    <3>2. StartAddress % 4 = 0 /\ ~(Len(W) < 4)
      BY <3>1 DEF LoadsFirst
    <3>3. Overwritten' = Smaller(4 - (StartAddress % 4), Len(W))
      BY <1>4 DEF Overwritten
    <3> DEFINE l == Len(W)
    <3>4. l \in Nat /\ ~(l < 4)
      BY <1>2, <3>2
    <3> HIDE DEF l
    <3>5. Smaller(4 - 0, l) = 4
      BY <3>4 DEF Smaller
    <3> QED BY <1>4, <3>2, <3>3, <3>5 DEF l
  <2>2. \A i \in 1 .. 4 : i - 0 \in 1 .. 4
    OBVIOUS
  <2>3. access'.at # "data"
    BY <1>4
  <2> QED BY <2>1, <2>2, <2>3 DEF OldBytesAreKept
<1> QED BY <1>6, <1>7, <1>9, <1>10 DEF MemoryInv, ReadIsExact

(* Steps that leave an access as it is.                                    *)
Waits == UNCHANGED <<pc, buf, memory, access, reply>>
(* Steps after which there is no access.                                   *)
Leaves == pc' # "access" /\ UNCHANGED memory

(* All steps but the handlers for memory do nothing or end the access.     *)
LEMMA OtherSteps ==
    ASSUME TypeOK, [Next]_vars
    PROVE  \/ rsp_read_mem \/ rsp_write_mem \/ AccessMemory \/ FinishAccess
           \/ Waits
           \/ pc # "access" /\ Leaves
           \/ pc = "access" /\ Leaves /\ UNCHANGED reply
<1>1. CASE UNCHANGED vars
  BY <1>1 DEF vars, receiver, Waits
<1>2. CASE GdbStep
  BY <1>2 DEF GdbStep, Gdb, target, receiver, Waits, GdbSends, GdbSendsDamaged, Asks, GdbGetsAck,
              GdbGetsReply, GdbTimesOut, GdbLeaves
<1>3. CASE Receive
  BY <1>3 DEF Receive, target, Leaves, GetPacket, Acknowledged, BeginPacket, SkipCharacter,
              StartOfPacket, BreakCommand, BodyCharacter, EndOfBody, FirstDigit, EndOfPacket,
              Received
<1>4. CASE Handle
  <2>1. CASE rsp_read_all_regs \/ rsp_write_reg
    BY <2>1 DEF rsp_read_all_regs, rsp_write_reg, Handles, Reply, PutPacket, target, Leaves
  <2>2. CASE MonitorHelp \/ MonitorReadSpr \/ MonitorWriteSpr \/ MonitorReset
    BY <2>2 DEF MonitorHelp, MonitorReadSpr, MonitorWriteSpr, MonitorReset, Monitors, MonitorReply,
                Reply, PutPacket, target, Leaves
  <2>3. CASE MonitorError \/ MonitorRefused
    BY <2>3 DEF MonitorError, MonitorRefused, Handles, BadAcknowledgement, Reply, PutPacket,
                target, Leaves
  <2>4. CASE AnswerFixed \/ kill_request \/ AssertionFails
    BY <2>4 DEF AnswerFixed, kill_request, AssertionFails, Handles, Reply, PutPacket, target, Leaves
  <2>5. CASE Caught
    BY <2>5 DEF Caught, Throw, ClientClose, Leaves
  <2>6. CASE ReplyOverflows
    BY <2>6 DEF ReplyOverflows, ClientClose, Leaves
  <2> QED BY <1>4, <2>1, <2>2, <2>3, <2>4, <2>5, <2>6 DEF Handle
<1>5. CASE PollFails
  BY <1>5 DEF PollFails, target, Leaves
<1>6. CASE JtagIsLost
  BY <1>6 DEF JtagIsLost, receiver, memory, Waits
<1>7. CASE Connect \/ Restart
  BY <1>7 DEF Connect, Accept, Restart, target, Leaves
<1> QED BY <1>1, <1>2, <1>3, <1>4, <1>5, <1>6, <1>7 DEF Next, Bridge

(* The invariant is inductive.                                             *)
LEMMA MemoryInvInductive ==
    /\ Init => MemoryInv
    /\ TypeOK /\ MemoryInv /\ [Next]_vars => MemoryInv'
<1> USE DEF MemoryInv, JobIsLegal, ReadIsExact, WriteIsExact, OldBytesAreKept, Reading, Writing
<1>1. Init => MemoryInv
  BY DEF Init, PacketsInit
<1>2. ASSUME pc' # "access" PROVE MemoryInv'
  BY <1>2
<1>3. ASSUME TypeOK, MemoryInv, Waits PROVE MemoryInv'
  <2>1. /\ UNCHANGED <<pc, buf, mem, bad, write_mem_addr, access>> /\ JobIsLegal'
        /\ Length' = Length /\ BytesIn(WriteDigits)' = BytesIn(WriteDigits)
        /\ StartAddress' = StartAddress
    BY <1>3, TheJobStays DEF Waits, memory
  <2>2. /\ Got' = Got /\ Stored' = Stored /\ Position' = Position
        /\ CurrentWord' = CurrentWord /\ Overwritten' = Overwritten
    BY <2>1 DEF Got, Stored, Position, CurrentWord, Overwritten
  <2>3. ReadIsExact'
    BY <1>3, <2>1, <2>2 DEF ByteAt, Place, PlaceOf
  <2>4. WriteIsExact'
    BY <1>3, <2>1, <2>2 DEF ByteAt, Place, PlaceOf
  <2>5. OldBytesAreKept'
    BY <1>3, <2>1, <2>2
  <2> HIDE DEF JobIsLegal, ReadIsExact, WriteIsExact, OldBytesAreKept
  <2> QED BY <2>1, <2>3, <2>4, <2>5
<1>4. FinishAccess => pc' # "access"
  BY DEF FinishAccess, Reply, PutPacket
<1> QED BY <1>1, <1>2, <1>3, <1>4, OtherSteps, ReadStartsExact, WriteStartsExact,
           AccessesAreExact DEF Leaves

-----------------------------------------------------------------------------
(* The memory as GDB is promised it.                                       *)

(* The memory, byte for byte.                                              *)
MemoryBytes == [a \in Address |-> ByteAt(mem, a)]
(* The addresses that cannot be accessed.                                  *)
BrokenPlaces == {a \in Address : a \div 4 \in bad}
(* The access the request asks for.                                        *)
TheJob == [op |-> IF Head(buf) = ReadMem THEN "read" ELSE "write",
           start |-> StartAddress, count |-> Length, data |-> BytesIn(WriteDigits)]
(* The access being served, as RemoteMemory is told it.                    *)
Job == IF pc # "access" THEN NoJob ELSE TheJob
(* The bytes it has stored, as RemoteMemory is told them.                  *)
Progress == IF pc = "access" /\ Head(buf) = WriteMem THEN Length - Len(access.data) ELSE 0

(* The bytes of a write that go into the word it has come to.              *)
Share ==
    LET room == 4 - (PlaceOf(Job.start, Progress + 1) % 4)
        left == Job.count - Progress
    IN  IF room < left THEN room ELSE left

(* RemoteMemory on mapped values: what makes a step a Begin,               *)
LEMMA PromiseBegin ==
    ASSUME Job = NoJob, Job' # NoJob, Job'.op \in {"read", "write"}, Job'.start \in Address,
           Job'.count > 0, UNCHANGED <<MemoryBytes, BrokenPlaces, Progress, DecodedReply>>
    PROVE  Remote!Begin
BY DEF Remote!Begin, Remote!Address, MemoryBytes, BrokenPlaces, Job, TheJob, Progress, Address,
       ByteAt

(* a Store,                                                                *)
LEMMA PromiseStore ==
    ASSUME Job # NoJob, Job.op = "write", Progress < Job.count,
           PlaceOf(Job.start, Progress + 1) \notin BrokenPlaces, Progress' = Progress + Share,
           \A i \in Progress + 1 .. Progress' : MemoryBytes'[PlaceOf(Job.start, i)] = Job.data[i],
           \A a \in Address :
              \/ MemoryBytes'[a] = MemoryBytes[a]
              \/ \E i \in Progress + 1 .. Progress' : PlaceOf(Job.start, i) = a,
           UNCHANGED <<BrokenPlaces, Job, DecodedReply>>
    PROVE  Remote!Store
BY DEF Remote!Store, Remote!Address, Remote!At, Remote!NextByte, Remote!InItsWord, PlaceOf, Share,
       MemoryBytes, BrokenPlaces, Job, TheJob, Progress, Address, ByteAt

(* an Answer,                                                              *)
LEMMA PromiseAnswer ==
    ASSUME Job # NoJob, Job' = NoJob, Progress' = 0, UNCHANGED <<MemoryBytes, BrokenPlaces>>,
           Job.op = "write" =>
              \/ /\ DecodedReply'.kind = "ok" /\ Progress = Job.count
                 /\ \A i \in 1 .. Job.count : MemoryBytes[PlaceOf(Job.start, i)] = Job.data[i]
              \/ /\ DecodedReply'.kind = "error" /\ Progress < Job.count
                 /\ PlaceOf(Job.start, Progress + 1) \in BrokenPlaces,
           Job.op # "write" =>
              /\ DecodedReply'.kind = "data" /\ Len(DecodedReply'.data) <= Job.count
              /\ \A i \in 1 .. Len(DecodedReply'.data) :
                    DecodedReply'.data[i] = MemoryBytes[PlaceOf(Job.start, i)]
              /\ Len(DecodedReply'.data) < Job.count =>
                    PlaceOf(Job.start, Len(DecodedReply'.data) + 1) \in BrokenPlaces
    PROVE  Remote!Answer
BY DEF Remote!Answer, Remote!WriteAnswer, Remote!ReadAnswer, Remote!At, Remote!NextByte, PlaceOf,
       MemoryBytes, BrokenPlaces, Job, TheJob, Progress, Address, ByteAt

(* an Abandon,                                                             *)
LEMMA PromiseAbandon ==
    ASSUME Job # NoJob, Job' = NoJob, Progress' = 0,
           UNCHANGED <<MemoryBytes, BrokenPlaces, DecodedReply>>
    PROVE  Remote!Abandon
BY DEF Remote!Abandon, MemoryBytes, BrokenPlaces, Job, TheJob, Progress, ByteAt

(* an Elsewhere,                                                           *)
LEMMA PromiseElsewhere ==
    ASSUME Job = NoJob, UNCHANGED <<MemoryBytes, BrokenPlaces, Job, Progress>>
    PROVE  Remote!Elsewhere
BY DEF Remote!Elsewhere, MemoryBytes, BrokenPlaces, Job, TheJob, Progress, ByteAt

(* or nothing at all.                                                      *)
LEMMA PromiseKept ==
    ASSUME UNCHANGED <<MemoryBytes, BrokenPlaces, Job, Progress, DecodedReply>>
    PROVE  UNCHANGED Remote!vars
BY DEF Remote!vars, MemoryBytes, BrokenPlaces, Job, TheJob, Progress, ByteAt

(* A write has stored what it no longer has to write; others store nothing. *)
LEMMA ProgressIs ==
    /\ pc # "access" => Progress = 0
    /\ pc' # "access" => Progress' = 0
    /\ Writing => Progress = Stored
    /\ Writing' => Progress' = Stored'
    /\ Reading => Progress = 0
    /\ Reading' => Progress' = 0
BY OpsDiffer DEF Progress, Writing, Reading, Stored, Got

(* A legal request asks for an access.                                     *)
LEMMA RequestsAreJobs ==
    ASSUME TypeOK, HasFields(2), Head(buf) \in {ReadMem, WriteMem}
    PROVE  /\ TheJob # NoJob /\ TheJob.op \in {"read", "write"}
           /\ TheJob.start = StartAddress /\ TheJob.count = Length
           /\ TheJob.data = BytesIn(WriteDigits)
           /\ TheJob.op = "write" <=> Head(buf) = WriteMem
<1>2. /\ StartAddress \in Address /\ Length \in Nat /\ BytesIn(WriteDigits) \in Seq(Byte)
  BY RequestFields, BytesAreBytes
<1> DEFINE op == IF Head(buf) = ReadMem THEN "read" ELSE "write"
           s == StartAddress
           n == Length
           W == BytesIn(WriteDigits)
           D == Seq(Byte)
<1>3. op \in {"read", "write"} /\ s \in Address /\ n \in Nat /\ W \in D
  BY <1>2
<1>4. TheJob = [op |-> op, start |-> s, count |-> n, data |-> W]
  BY DEF TheJob
<1>5. op = "write" <=> Head(buf) = WriteMem
  BY OpsDiffer
<1>6. NoJob \notin [op : {"read", "write"}, start : Address, count : Nat, data : D]
  BY RspAccessAssumption
<1> HIDE DEF op, s, n, W, D
<1>7. TheJob \in [op : {"read", "write"}, start : Address, count : Nat, data : D]
  BY <1>3, <1>4
<1>8. TheJob.op = op /\ TheJob.start = s /\ TheJob.count = n /\ TheJob.data = W
  BY <1>4
<1> QED BY <1>3, <1>5, <1>6, <1>7, <1>8 DEF s, n, W

(* An access in progress is not no access.                                 *)
LEMMA JobIsJob ==
    ASSUME TypeOK, JobIsLegal, pc = "access"
    PROVE  /\ Job # NoJob /\ Job = TheJob /\ TheJob.op \in {"read", "write"}
           /\ TheJob.start = StartAddress /\ TheJob.count = Length
           /\ TheJob.data = BytesIn(WriteDigits)
           /\ TheJob.op = "write" <=> Writing
BY RequestsAreJobs DEF JobIsLegal, Job, Writing

(* The job depends on the request only,                                    *)
LEMMA SameJob ==
    ASSUME UNCHANGED buf
    PROVE  TheJob' = TheJob /\ (UNCHANGED pc => Job' = Job)
BY DEF Job, TheJob, StartAddress, Field, Length, BytesIn, DataDigit, WriteDigits

(* and the bytes on the memory.                                            *)
LEMMA SameMemory ==
    ASSUME UNCHANGED <<mem, bad>>
    PROVE  MemoryBytes' = MemoryBytes /\ BrokenPlaces' = BrokenPlaces
BY DEF MemoryBytes, BrokenPlaces, ByteAt

-----------------------------------------------------------------------------
(* The steps, as GDB is promised them.                                     *)

(* No status is mistaken for data: "OK" has no digits, and an error an odd *)
(* number of characters.                                                   *)
LEMMA NoHexInOk == OK[1] \notin HexDigit /\ Len(OK) = 2 /\ Len(ErrorCode) = 3 /\ OK # ErrorCode
<1>1. 79 \notin HexDigit
  BY DEF HexDigit, get_hex_char
<1> QED BY <1>1 DEF OK, ErrorCode

(* The digits of a reply say the bytes they were made of.                  *)
LEMMA DigitsSayTheBytes ==
    ASSUME NEW data \in Seq(Byte)
    PROVE  BytesIn(Digits(data)) = data
<1> DEFINE n == Len(data)
           d == Digits(data)
<1>1. n \in Nat /\ d \in Chars /\ Len(d) = 2 * n /\ \A i \in 1 .. n : data[i] \in Byte
  BY DigitsAreDigits, LenProperties, ElementOfSeq
<1>2. BytesIn(d) \in Seq(Byte) /\ Len(BytesIn(d)) = n
  <2>1. (2 * n) \div 2 = n
    BY <1>1
  <2> QED BY <1>1, <2>1, BytesAreBytes
<1>3. ASSUME NEW i \in 1 .. n PROVE BytesIn(d)[i] = data[i]
  <2> DEFINE x == data[i] \div DigitBase
             y == data[i] % DigitBase
  <2>1. /\ d[2 * i - 1] = get_hex_char(x) /\ d[2 * i] = get_hex_char(y)
        /\ x \in 0 .. DigitBase - 1 /\ y \in 0 .. DigitBase - 1
    BY DigitsAreDigits
  <2>2. DigitBase * x + y = data[i]
    <3>1. data[i] \in Nat /\ DigitBase \in {4, 8, 16}
      BY <1>1, Bases DEF Byte
    <3> QED BY <3>1
  <2>3. ASSUME NEW v \in 0 .. DigitBase - 1 PROVE DataDigit(get_hex_char(v)) = v
    <3>1. v \in 0 .. 15 /\ v % DigitBase = v
      BY Bases
    <3> QED BY <3>1, HexDigits DEF DataDigit
  <2>4. BytesIn(d) = [j \in 1 .. Len(d) \div 2 |->
                        DigitBase * DataDigit(d[2 * j - 1]) + DataDigit(d[2 * j])]
    BY DEF BytesIn
  <2>5. i \in 1 .. Len(d) \div 2
    BY <1>1
  <2>6. DataDigit(d[2 * i - 1]) = x /\ DataDigit(d[2 * i]) = y
    BY <2>1, <2>3
  <2> HIDE DEF x, y, d
  <2> QED BY <2>2, <2>4, <2>5, <2>6
<1> HIDE DEF d
<1> QED BY <1>1, <1>2, <1>3, SeqEqual DEF d

(* GDB gets the data a read replies with,                                  *)
LEMMA DataIsDecoded ==
    ASSUME NEW data \in Seq(Byte), reply' = Digits(data)
    PROVE  DecodedReply' = [kind |-> "data", data |-> data]
<1> DEFINE d == Digits(data)
           n == Len(data)
<1>1. n \in Nat /\ d \in Seq(0 .. 255) /\ Len(d) = 2 * n /\ \A i \in 1 .. 2 * n : d[i] \in HexDigit
  BY DigitsAreDigits, LenProperties DEF Chars
<1> HIDE DEF d, n
<1>2. d # OK
  <2> SUFFICES ASSUME d = OK PROVE FALSE
    OBVIOUS
  <2>1. Len(d) = 2 /\ d[1] = OK[1]
    BY NoHexInOk
  <2>2. 1 \in 1 .. 2 * n
    <3>1. 2 * n = 2
      BY ONLY <1>1, <2>1
    <3> QED BY ONLY <3>1
  <2> QED BY <1>1, <2>1, <2>2, NoHexInOk
<1>3. d # ErrorCode
  <2> SUFFICES ASSUME d = ErrorCode PROVE FALSE
    OBVIOUS
  <2>1. Len(d) = 3
    BY NoHexInOk
  <2>2. 2 * n # 3
    BY <1>1
  <2> QED BY <1>1, <2>1, <2>2
<1>4. \A k \in DOMAIN d : d[k] \in HexDigit
  <2>1. DOMAIN d = 1 .. 2 * n
    BY <1>1
  <2> QED BY <1>1, <2>1
<1>5. reply' = d /\ BytesIn(d) = data
  BY DigitsSayTheBytes DEF d
<1>6. BytesIn(reply)' = BytesIn(reply')
  BY DEF BytesIn, DataDigit
<1> QED BY <1>2, <1>3, <1>4, <1>5, <1>6 DEF DecodedReply

(* and the status of a write.                                              *)
LEMMA StatusIsDecoded ==
    /\ reply' = OK => DecodedReply'.kind = "ok"
    /\ reply' = ErrorCode => DecodedReply'.kind = "error"
BY NoHexInOk DEF DecodedReply

(* Storing a word changes no bytes but those of the range in it.           *)
LEMMA StoredBytes ==
    ASSUME TypeOK, MemoryInv, Writing, StoreWord, NEW a \in Address
    PROVE  \/ ByteAt(mem', a) = ByteAt(mem, a)
           \/ \E i \in Stored + 1 .. Stored + Overwritten : Place(i) = a
<1> DEFINE k == Stored
           n == Overwritten
           p == access.byte_pos
           q == (a % 4) + 1
           W == BytesIn(WriteDigits)
<1>0. JobIsLegal /\ WriteIsExact /\ OldBytesAreKept
  BY DEF MemoryInv
<1>1. /\ StartAddress \in Address /\ Length \in Nat \ {0} /\ Length < 4 * WordCount
      /\ 4 * WordCount \in Nat \ {0} /\ MemoryTypeOK
  BY <1>0, LegalJob DEF Writing, TypeOK
<1>2. /\ access.at = "data" /\ write_mem_addr = CurrentWord /\ Got <= Length
      /\ Position = Place(k + 1) /\ k = Length - Got
      /\ \A i \in 1 .. Got : access.data[i] = W[k + i]
  BY <1>0 DEF StoreWord, OldBytesAreKept, WriteIsExact, Stored
<1>3. /\ Got \in Nat /\ n \in 0 .. Got /\ n \in 0 .. 4 - p /\ p \in 0 .. 3
      /\ \A i \in 1 .. n : MergedBytes[p + i] = access.data[i]
  BY <1>1, AccessFields, OverwrittenBytes, LenProperties DEF Got
<1>4. k \in Nat /\ k + n <= Length /\ k < 4 * WordCount /\ k + n <= 4 * WordCount
      /\ p + n <= 4 /\ n \in Nat
  <2> HIDE DEF n, p
  <2>1. k \in Nat
    BY <1>1, <1>2, <1>3
  <2> HIDE DEF k
  <2> QED BY <1>1, <1>2, <1>3, <2>1
<1>5. a \div 4 \in Word /\ q \in 1 .. 4 /\ a = 4 * (a \div 4) + (a % 4) /\ a % 4 \in 0 .. 3
  BY WordOfAddress
<1>6. CASE CurrentWord \in bad
  BY <1>1, <1>2, <1>6, StoreWordFields
<1>7. CASE CurrentWord \notin bad /\ a \div 4 # CurrentWord
  BY <1>1, <1>2, <1>5, <1>7, StoreWordFields DEF ByteAt
<1>8. CASE CurrentWord \notin bad /\ a \div 4 = CurrentWord
  <2>1. ByteAt(mem', a) = MergedBytes[q]
    BY <1>1, <1>2, <1>5, <1>8, StoreWordFields DEF ByteAt
  <2>2. CASE q - p \notin 1 .. n
    <3>1. access.bytes[q] = break_up_into_bytes(mem[CurrentWord])[q]
      BY <1>0, <1>2, <1>5, <2>2 DEF OldBytesAreKept
    <3>2. MergedBytes[q] = access.bytes[q]
      <4> HIDE DEF q, n, p
      <4>1. q \in 1 .. 4 /\ q - access.byte_pos \notin 1 .. Overwritten
        BY <1>5, <2>2 DEF n, p
      <4> QED BY <4>1 DEF MergedBytes
    <3> QED BY <1>8, <2>1, <3>1, <3>2 DEF ByteAt
  <2>3. CASE q - p \in 1 .. n
    <3> DEFINE j == q - p
    <3>1. j \in 1 .. n /\ p + j = q /\ k + j \in k + 1 .. k + n
      <4> HIDE DEF k, n, p, q
      <4> QED BY <1>1, <1>3, <1>4, <1>5, <2>3
    <3>2. /\ Place(k + j) \in Address /\ Place(k + j) \div 4 = CurrentWord
          /\ (Place(k + j) % 4) + 1 = p + j
      <4> HIDE DEF j
      <4> QED BY <1>1, <1>2, <1>4, <3>1, PlacesInWord
    <3> DEFINE b == Place(k + j)
    <3>3. b = 4 * (b \div 4) + (b % 4) /\ b % 4 \in 0 .. 3
      BY <3>2, WordOfAddress
    <3>4. b = a
      <4>1. (b % 4) + 1 = (a % 4) + 1 /\ b \div 4 = CurrentWord
        BY <3>1, <3>2
      <4> HIDE DEF b
      <4>2. b % 4 = a % 4 /\ b \div 4 = a \div 4
        BY <1>5, <1>8, <3>3, <4>1
      <4> QED BY <1>5, <3>3, <4>2
    <3> HIDE DEF j, k, n
    <3> QED BY <3>1, <3>4 DEF k, n
  <2> QED BY <2>2, <2>3
<1> QED BY <1>6, <1>7, <1>8

(* A store goes on to the next word, with all the bytes of this one.       *)
LEMMA StoreMovesOn ==
    ASSUME TypeOK, MemoryInv, MemoryInv', Writing, Writing', StoreWord, CurrentWord \notin bad,
           UNCHANGED <<pc, buf>>
    PROVE  /\ Stored < Length /\ Stored + 1 \in 1 .. 4 * WordCount
           /\ Stored + Overwritten <= 4 * WordCount /\ Stored \in Nat /\ Overwritten \in Nat
           /\ Place(Stored + 1) \div 4 \notin bad /\ Stored' = Stored + Overwritten
           /\ Overwritten = LET room == 4 - (Place(Stored + 1) % 4)
                                left == Length - Stored
                            IN  IF room < left THEN room ELSE left
           /\ \A i \in Stored + 1 .. Stored + Overwritten :
                  ByteAt(mem', Place(i)) = BytesIn(WriteDigits)[i]
<1> DEFINE k == Stored
           n == Overwritten
           p == access.byte_pos
           L == Length
<1>0. JobIsLegal /\ WriteIsExact /\ OldBytesAreKept /\ WriteIsExact'
  BY DEF MemoryInv
<1>1. /\ StartAddress \in Address /\ Length \in Nat \ {0} /\ Length < 4 * WordCount
      /\ 4 * WordCount \in Nat \ {0} /\ MemoryTypeOK
  BY <1>0, LegalJob DEF Writing, TypeOK
<1>2. /\ access.at = "data" /\ write_mem_addr = CurrentWord /\ Got <= Length /\ Got # 0
      /\ Position = Place(k + 1) /\ k = Length - Got
  BY <1>0 DEF StoreWord, OldBytesAreKept, WriteIsExact, Stored
<1>3. /\ Got \in Nat /\ n \in 0 .. Got /\ n \in 0 .. 4 - p /\ p \in 0 .. 3
      /\ n = Smaller(4 - p, Got)
  BY <1>1, AccessFields, OverwrittenBytes, LenProperties DEF Got, Overwritten
<1>4. /\ k \in Nat /\ k + n <= 4 * WordCount /\ k < 4 * WordCount /\ k < L
      /\ k + 1 \in 1 .. 4 * WordCount /\ n \in Nat /\ k + 1 <= 4 * WordCount /\ p + 1 <= 4
      /\ L - k = Got
  <2> HIDE DEF n, p
  <2>1. k \in Nat
    BY <1>1, <1>2, <1>3
  <2> HIDE DEF k
  <2> QED BY <1>1, <1>2, <1>3, <2>1
<1>5. Place(k + 1) \div 4 = CurrentWord /\ (Place(k + 1) % 4) + 1 = p + 1
      /\ Place(k + 1) \in Address
  <2>1. 1 \in 1 .. 1 /\ 1 \in Nat
    OBVIOUS
  <2> HIDE DEF k
  <2> QED BY <1>1, <1>2, <1>4, <2>1, PlacesInWord
<1>6. n = IF 4 - (Place(k + 1) % 4) < L - k THEN 4 - (Place(k + 1) % 4) ELSE L - k
  <2> DEFINE r == Place(k + 1) % 4
             a == Place(k + 1)
  <2>1. r = p
    <3>1. a \in Nat
      BY <1>5 DEF Address
    <3>2. r \in Nat /\ r + 1 = p + 1
      <4> HIDE DEF a
      <4> QED BY <1>5, <3>1 DEF a
    <3> HIDE DEF r, p
    <3> QED BY <1>3, <3>2
  <2> HIDE DEF r, k, n, L
  <2> QED BY <1>3, <1>4, <2>1 DEF Smaller, r
<1>7. k' = k + n
  <2>1. access'.data = SubSeq(access.data, n + 1, Len(access.data))
    BY <1>1, <1>2, StoreWordFields
  <2>2. Got' = Got - n
    BY <1>1, <1>3, <2>1, DataLeft DEF Got
  <2>3. k' = Length - (Got - n)
    BY <1>0, <2>2, TheJobStays DEF Stored
  <2> HIDE DEF k, n
  <2> QED BY <1>1, <1>2, <1>3, <2>3 DEF k
<1>8. ASSUME NEW i \in k + 1 .. k + n PROVE ByteAt(mem', Place(i)) = BytesIn(WriteDigits)[i]
  <2>1. i \in 1 .. k'
    <3> HIDE DEF k, n
    <3> QED BY <1>4, <1>7
  <2>2. ByteAt(mem, Place(i))' = BytesIn(WriteDigits)[i]
    BY <1>0, <2>1, TheJobStays DEF WriteIsExact
  <2>3. StartAddress' = StartAddress
    BY <1>0, TheJobStays
  <2> HIDE DEF k, n
  <2> QED BY <2>2, <2>3 DEF ByteAt, Place, PlaceOf
<1> HIDE DEF k, n, p, L
<1> QED BY <1>1, <1>4, <1>5, <1>6, <1>7, <1>8 DEF k, n, L

(* The other accesses over JTAG store nothing.                             *)
LEMMA OthersStoreNothing ==
    ASSUME TypeOK, MemoryInv, AccessMemory, ~(Writing /\ StoreWord /\ CurrentWord \notin bad)
    PROVE  mem' = mem /\ Progress' = Progress
<1>1. /\ pc = "access" /\ UNCHANGED <<pc, buf>> /\ JobIsLegal /\ JobIsLegal'
      /\ (Reading' <=> Reading) /\ (Writing' <=> Writing) /\ Length' = Length
  BY TheJobStays DEF AccessMemory, receiver, MemoryInv
<1>2. CASE Reading
  <2>1. ReadWord
    BY <1>2 DEF MemoryInv, ReadIsExact, AccessMemory, AccessStep, LoadWord, SetWriteAddress,
       StoreWord
  <2>2. mem' = mem
    BY <2>1 DEF ReadWord, memory
  <2> QED BY <1>1, <1>2, <2>2, ProgressIs
<1>3. CASE Writing
  <2>1. access \in AccessType
    BY AccessFields DEF TypeOK
  <2>2. mem' = mem /\ access'.data = access.data
    <3>1. CASE LoadWord
      <4>1. /\ mem' = mem
            /\ access' = IF CurrentWord \in bad THEN [access EXCEPT !.at = "failed"]
                         ELSE [access EXCEPT !.at = "address",
                                             !.bytes = break_up_into_bytes(mem[CurrentWord])]
        BY <3>1 DEF LoadWord, memory
      <4> QED BY <2>1, <4>1 DEF AccessType
    <3>2. CASE SetWriteAddress
      <4>1. mem' = mem /\ access' = [access EXCEPT !.at = "data"]
        BY <3>2 DEF SetWriteAddress
      <4> QED BY <2>1, <4>1 DEF AccessType
    <3>3. CASE StoreWord /\ CurrentWord \in bad
      <4>1. write_mem_addr = CurrentWord
        BY <1>3, <3>3 DEF StoreWord, MemoryInv, OldBytesAreKept
      <4>2. access' = [access EXCEPT !.at = "failed"] /\ mem' = mem
        BY <3>3, <4>1, StoreWordFields DEF TypeOK
      <4> QED BY <2>1, <4>2 DEF AccessType
    <3>4. LoadWord \/ SetWriteAddress \/ StoreWord
      BY <1>3 DEF MemoryInv, WriteIsExact, AccessMemory, AccessStep, ReadWord
    <3> QED BY <1>3, <3>1, <3>2, <3>3, <3>4
  <2> QED BY <1>1, <1>3, <2>2, ProgressIs DEF Stored, Got
<1> QED BY <1>1, <1>2, <1>3 DEF JobIsLegal, Reading, Writing

(* Every access over JTAG is a Store, or changes nothing GDB can see.      *)
LEMMA AccessKeepsThePromise ==
    ASSUME TypeOK, MemoryInv, AccessMemory
    PROVE  [Remote!Next]_(Remote!vars)
<1>1. /\ pc = "access" /\ UNCHANGED <<pc, buf, reply, bad>> /\ JobIsLegal
  BY DEF AccessMemory, AccessStep, ReadWord, LoadWord, SetWriteAddress, StoreWord, memory,
         receiver, MemoryInv
<1>2. Job' = Job /\ DecodedReply' = DecodedReply /\ BrokenPlaces' = BrokenPlaces
  <2>1. DecodedReply' = DecodedReply
    BY <1>1 DEF DecodedReply, BytesIn, DataDigit
  <2>2. BrokenPlaces' = BrokenPlaces
    BY <1>1 DEF BrokenPlaces
  <2> QED BY <1>1, <2>1, <2>2, SameJob
<1> DEFINE Stores == Writing /\ StoreWord /\ CurrentWord \notin bad
<1>3. CASE ~Stores
  BY <1>1, <1>2, <1>3, OthersStoreNothing, SameMemory, PromiseKept
<1>4. CASE Stores
  <2> DEFINE k == Stored
             n == Overwritten
  <2>1. MemoryInv' /\ (Writing' <=> Writing)
    BY <1>1, AccessesAreExact, TheJobStays
  <2>2. /\ Job # NoJob /\ Job.op = "write" /\ Job.start = StartAddress /\ Job.count = Length
        /\ Job.data = BytesIn(WriteDigits)
    BY <1>1, <1>4, JobIsJob
  <2>3. Progress = k /\ Progress' = k' /\ StartAddress \in Address
    BY <1>1, <1>4, <2>1, ProgressIs, LegalJob
  <2>4. /\ k < Length /\ k + 1 \in 1 .. 4 * WordCount /\ k + n <= 4 * WordCount
        /\ k \in Nat /\ n \in Nat
        /\ Place(k + 1) \div 4 \notin bad /\ k' = k + n
        /\ n = LET room == 4 - (Place(k + 1) % 4)
                   left == Length - k
               IN  IF room < left THEN room ELSE left
        /\ \A i \in k + 1 .. k + n : ByteAt(mem', Place(i)) = BytesIn(WriteDigits)[i]
    BY <1>1, <1>4, <2>1, StoreMovesOn
  <2>5. ASSUME NEW a \in Address
        PROVE  \/ MemoryBytes'[a] = MemoryBytes[a]
               \/ \E i \in k + 1 .. k + n : Place(i) = a
    <3>1. MemoryBytes'[a] = ByteAt(mem', a) /\ MemoryBytes[a] = ByteAt(mem, a)
      BY DEF MemoryBytes
    <3> QED BY <1>4, <3>1, StoredBytes
  <2> HIDE DEF k, n
  <2>6. PlaceOf(Job.start, Progress + 1) \notin BrokenPlaces
    BY <2>2, <2>3, <2>4 DEF BrokenPlaces, Place
  <2>7. Progress' = Progress + Share
    BY <2>2, <2>3, <2>4 DEF Share, Place
  <2>8. ASSUME NEW i \in k + 1 .. k + n
        PROVE  MemoryBytes'[PlaceOf(Job.start, i)] = Job.data[i]
    <3>1. i \in 1 .. 4 * WordCount
      <4>1. k \in Nat /\ n \in Nat /\ k + n <= 4 * WordCount /\ WordCount \in Nat
        BY <2>4, Bases
      <4> QED BY <4>1
    <3>2. Place(i) \in Address
      BY <2>3, <3>1, PlaceIs
    <3>3. MemoryBytes'[Place(i)] = ByteAt(mem', Place(i))
      BY <3>2 DEF MemoryBytes
    <3> QED BY <2>2, <2>4, <3>3 DEF Place
  <2>9. Remote!Store
    BY <1>2, <2>2, <2>3, <2>4, <2>5, <2>6, <2>7, <2>8, PromiseStore DEF Place
  <2> QED BY <2>9 DEF Remote!Next
<1> QED BY <1>3, <1>4

(* The reply is one RemoteMemory allows.                                   *)
LEMMA AnswerKeepsThePromise ==
    ASSUME TypeOK, MemoryInv, FinishAccess
    PROVE  Remote!Answer
<1>1. /\ pc = "access" /\ access.at \in {"done", "failed"} /\ reply' = MemoryReply /\ pc' = "acking"
      /\ UNCHANGED <<mem, bad>> /\ JobIsLegal
  BY DEF FinishAccess, Reply, PutPacket, memory, MemoryInv
<1>2. /\ Job # NoJob /\ Job' = NoJob /\ Job.start = StartAddress /\ Job.count = Length
      /\ Job.data = BytesIn(WriteDigits) /\ (Job.op = "write" <=> Writing) /\ Progress' = 0
      /\ (Writing => Progress = Stored)
  BY <1>1, JobIsJob, ProgressIs DEF Job
<1>3. /\ StartAddress \in Address /\ Length \in Nat \ {0} /\ Length < 4 * WordCount
      /\ 4 * WordCount \in Nat \ {0} /\ MemoryTypeOK
  BY <1>1, LegalJob DEF TypeOK
<1>4. access.data \in Seq(Byte) /\ Got \in Nat /\ access.left \in Nat /\ access.byte_pos \in 0 .. 3
  BY <1>3, AccessFields, LenProperties DEF Got
<1>5. \A i \in 1 .. 4 * WordCount :
          /\ Place(i) \in Address /\ MemoryBytes[PlaceOf(StartAddress, i)] = ByteAt(mem, Place(i))
          /\ PlaceOf(StartAddress, i) \in BrokenPlaces <=> Place(i) \div 4 \in bad
  <2>1. \A i \in 1 .. 4 * WordCount : Place(i) \in Address
    BY <1>3, PlaceIs
  <2> QED BY <2>1 DEF MemoryBytes, BrokenPlaces, Place
<1>6. CASE Writing
  <2>1. WriteIsExact
    BY DEF MemoryInv
  <2>2. CASE access.at = "failed"
    <3>1. DecodedReply'.kind = "error"
      BY <1>1, <1>6, <2>2, StatusIsDecoded, OpsDiffer DEF MemoryReply, Writing
    <3>2. /\ Got # 0 /\ Got <= Length /\ Position = Place(Stored + 1) /\ CurrentWord \in bad
          /\ Stored = Length - Got
      BY <1>6, <2>1, <2>2 DEF WriteIsExact, Stored
    <3> DEFINE k == Stored
    <3>3. k \in Nat /\ k + 1 \in 1 .. Length /\ k < 4 * WordCount /\ k + 0 <= 4 * WordCount
          /\ k + 1 \in 1 .. 4 * WordCount /\ k < Length
      BY <1>3, <1>4, <3>2
    <3>4. Place(k + 1) \div 4 = CurrentWord
      <4>1. access.byte_pos + 0 <= 4 /\ 0 \in Nat /\ Position = Place(k + 1)
        BY <1>4, <3>2
      <4> HIDE DEF k
      <4> QED BY <1>3, <3>3, <4>1, PlacesInWord
    <3>6. Progress = k
      BY <1>2, <1>6
    <3> HIDE DEF k
    <3>5. PlaceOf(StartAddress, k + 1) \in BrokenPlaces
      BY <1>5, <3>2, <3>3, <3>4
    <3> QED BY <1>1, <1>2, <1>6, <3>1, <3>3, <3>5, <3>6, SameMemory, PromiseAnswer
  <2>3. CASE access.at = "done"
    <3>1. DecodedReply'.kind = "ok"
      BY <1>1, <1>6, <2>3, StatusIsDecoded, OpsDiffer DEF MemoryReply, Writing
    <3>2. \A i \in 1 .. Length : ByteAt(mem, Place(i)) = BytesIn(WriteDigits)[i]
      <4>1. Got = 0 /\ \A i \in 1 .. Stored : ByteAt(mem, Place(i)) = BytesIn(WriteDigits)[i]
        BY <1>6, <2>1, <2>3 DEF WriteIsExact
      <4>2. Stored = Length
        BY <1>3, <4>1 DEF Stored
      <4> QED BY <4>1, <4>2
    <3>5. Progress = Length
      BY <1>2, <1>3, <1>6, <2>1, <2>3 DEF WriteIsExact, Stored
    <3>3. \A i \in 1 .. Length : i \in 1 .. 4 * WordCount
      BY <1>3
    <3>4. \A i \in 1 .. Length :
             MemoryBytes[PlaceOf(StartAddress, i)] = BytesIn(WriteDigits)[i]
      BY <1>5, <3>2, <3>3
    <3> QED BY <1>1, <1>2, <1>6, <3>1, <3>4, <3>5, SameMemory, PromiseAnswer
  <2> QED BY <1>1, <2>2, <2>3
<1>7. CASE Reading
  <2>1. /\ access.at = "done" /\ Got + access.left = Length
        /\ \A i \in 1 .. Got : access.data[i] = ByteAt(mem, Place(i))
        /\ access.left = 0 \/ Place(Got + 1) \div 4 \in bad
    BY <1>1, <1>7 DEF MemoryInv, ReadIsExact
  <2>2. DecodedReply' = [kind |-> "data", data |-> access.data]
    BY <1>1, <1>4, <1>7, DataIsDecoded DEF MemoryReply, Reading
  <2>3. DecodedReply'.kind = "data" /\ DecodedReply'.data = access.data
        /\ Len(access.data) = Got
    BY <2>2 DEF Got
  <2>4. Got <= Length /\ (Got < Length => access.left # 0) /\ Got + 1 \in 1 .. 4 * WordCount
        /\ \A i \in 1 .. Got : i \in 1 .. 4 * WordCount
    BY <1>3, <1>4, <2>1
  <2>5. /\ \A i \in 1 .. Got : access.data[i] = MemoryBytes[PlaceOf(StartAddress, i)]
        /\ Got < Length => PlaceOf(StartAddress, Got + 1) \in BrokenPlaces
    BY <1>5, <2>1, <2>4
  <2>6. Job.op # "write"
    BY <1>2, <1>7, OpsDiffer DEF Reading, Writing
  <2> QED BY <1>1, <1>2, <2>3, <2>4, <2>5, <2>6, SameMemory, PromiseAnswer
<1> QED BY <1>1, <1>6, <1>7 DEF JobIsLegal, Reading, Writing

(* Every step is one of RemoteMemory.                                      *)
LEMMA StepsKeepThePromise ==
    ASSUME TypeOK, MemoryInv, [Next]_vars
    PROVE  [Remote!Next]_(Remote!vars)
<1>0. JobIsLegal
  BY DEF MemoryInv
<1>1. ASSUME rsp_read_mem \/ rsp_write_mem PROVE Remote!Begin
  <2>1. /\ pc = "handling" /\ pc' = "access" /\ UNCHANGED <<buf, reply, mem, bad>>
    BY <1>1 DEF rsp_read_mem, rsp_write_mem, Handles, receiver, memory
  <2>2. /\ HasFields(2) /\ Head(buf) \in {ReadMem, WriteMem} /\ Length > 0
    BY <1>1 DEF rsp_read_mem, rsp_write_mem, Handles, ReadMemIsLegal, WriteMemIsLegal
  <2>3. /\ Job' # NoJob /\ Job'.op \in {"read", "write"} /\ Job'.start \in Address
        /\ Job'.count > 0
    <3>1. Job' = TheJob
      BY <2>1, SameJob DEF Job
    <3> QED BY <2>2, <3>1, RequestsAreJobs, RequestFields
  <2>4. DecodedReply' = DecodedReply
    BY <2>1 DEF DecodedReply, BytesIn, DataDigit
  <2>5. Job = NoJob /\ Progress = 0
    BY <2>1, ProgressIs DEF Job
  <2>6. Progress' = 0
    <3>1. CASE rsp_read_mem
      <4>1. Head(buf) # WriteMem
        BY <3>1, OpsDiffer DEF rsp_read_mem, Handles
      <4> QED BY <2>1, <4>1 DEF Progress
    <3>2. CASE rsp_write_mem
      <4>1. Writing' /\ Length' = Length
        BY <2>1, <3>2 DEF rsp_write_mem, Handles, Writing, Length, Field
      <4>2. access'.data = BytesIn(WriteDigits) /\ MemoryInv'
        BY <3>2, WriteStartsExact DEF rsp_write_mem, StartWriteMem
      <4>3. Len(BytesIn(WriteDigits)) = Length /\ Length \in Nat
        <5>1. Len(BytesIn(WriteDigits))' = Length' /\ BytesIn(WriteDigits)' = BytesIn(WriteDigits)
          BY <2>1, <4>1, <4>2 DEF MemoryInv, JobIsLegal, Writing, BytesIn, DataDigit, WriteDigits
        <5> QED BY <2>2, <4>1, <5>1, RequestFields
      <4> QED BY <4>1, <4>2, <4>3 DEF Progress, Writing
    <3> QED BY <1>1, <3>1, <3>2
  <2> QED BY <2>1, <2>3, <2>4, <2>5, <2>6, SameMemory, PromiseBegin
<1>2. ASSUME Waits PROVE UNCHANGED Remote!vars
  <2>1. DecodedReply' = DecodedReply
    BY <1>2 DEF Waits, DecodedReply, BytesIn, DataDigit
  <2>2. Progress' = Progress
    BY <1>2 DEF Waits, Progress, Length, Field
  <2> QED BY <1>2, <2>1, <2>2, SameJob, SameMemory, PromiseKept DEF Waits, memory
<1>3. ASSUME pc # "access", Leaves PROVE Remote!Elsewhere
  <2>1. Job = NoJob /\ Job' = NoJob /\ Progress = 0 /\ Progress' = 0
    BY <1>3, ProgressIs DEF Job, Leaves
  <2> QED BY <1>3, <2>1, SameMemory, PromiseElsewhere DEF Leaves, memory
<1>4. ASSUME pc = "access", Leaves, UNCHANGED reply PROVE Remote!Abandon
  <2>1. Job # NoJob /\ Job' = NoJob /\ Progress' = 0
    BY <1>0, <1>4, JobIsJob, ProgressIs DEF Job, Leaves
  <2>2. DecodedReply' = DecodedReply
    BY <1>4 DEF DecodedReply, BytesIn, DataDigit
  <2> QED BY <1>4, <2>1, <2>2, SameMemory, PromiseAbandon DEF Leaves, memory
<1> QED BY <1>1, <1>2, <1>3, <1>4, OtherSteps, AccessKeepsThePromise, AnswerKeepsThePromise
        DEF Remote!Next

(* The memory begins as it may.                                            *)
LEMMA InitKeepsThePromise == Init => Remote!Init
<1> SUFFICES ASSUME Init PROVE Remote!Init
  OBVIOUS
<1>1. mem \in [Word -> WordValue] /\ pc = "listening"
  BY DEF Init, PacketsInit
<1>3. Progress = 0
  BY <1>1, ProgressIs
<1>2. ASSUME NEW a \in Address PROVE break_up_into_bytes(mem[a \div 4])[(a % 4) + 1] \in Byte
  <2>1. a \div 4 \in Word /\ a % 4 \in 0 .. 3
    BY WordOfAddress
  <2>2. (a % 4) + 1 \in 1 .. 4 /\ mem[a \div 4] \in WordValue
    BY <1>1, <2>1
  <2> QED BY <2>2, BreakUpIsQuad DEF Quad
<1> QED BY <1>1, <1>2, <1>3 DEF Remote!Init, Remote!Address, Address, Progress

(* The memory under every sequence of requests, errors, losses of JTAG and *)
(* disconnections is the one GDB is promised: a write stores its bytes and *)
(* nothing else, a read returns the bytes that are there, and no error     *)
(* goes unnoticed.                                                         *)
THEOREM ImplementsPromisedMemory == Spec => ImplementsRemoteMemory
<1> DEFINE Inv == TypeOK /\ MemoryInv
<1>1. Init => Inv /\ Remote!Init
  BY InitTypes, MemoryInvInductive, InitKeepsThePromise
<1>2. Inv /\ [Next]_vars => Inv'
  BY NextKeepsTypes, MemoryInvInductive
<1>3. Inv /\ [Next]_vars => [Remote!Next]_(Remote!vars)
  BY StepsKeepThePromise
<1> HIDE DEF Inv
<1> QED BY <1>1, <1>2, <1>3, PTL DEF Spec, ImplementsRemoteMemory, Remote!Spec
-----------------------------------------------------------------------------
(* Checksums and frames.                                                   *)

(* What one more character makes of a checksum.                            *)
Added(sum, c) == (sum + c) % 256

(* f sums the first characters of a sequence.                              *)
IsSumOf(chars, f) ==
    /\ f \in [0 .. Len(chars) -> 0 .. 255] /\ f[0] = 0
    /\ \A n \in 1 .. Len(chars) : f[n] = Added(f[n - 1], chars[n])
    /\ Sum(chars) = f[Len(chars)]

(* Such a function is behind every checksum.                               *)
LEMMA SumSteps ==
    ASSUME NEW chars \in Chars
    PROVE  \E f : IsSumOf(chars, f)
<1> DEFINE L == Len(chars)
           IsSum(f) == f = [n \in 0 .. L |-> IF n = 0 THEN 0 ELSE (f[n - 1] + chars[n]) % 256]
<1>1. L \in Nat /\ \A n \in 1 .. L : chars[n] \in 0 .. 255
  BY ElementOfSeq, LenProperties DEF Chars
<1>2. \E f : IsSum(f)
  <2> DEFINE G == [p \in (1 .. L) \X (0 .. 255) |-> (p[2] + chars[p[1]]) % 256]
  <2>1. G \in [(1 .. L) \X (0 .. 255) -> 0 .. 255]
    <3>1. ASSUME NEW p \in (1 .. L) \X (0 .. 255) PROVE (p[2] + chars[p[1]]) % 256 \in 0 .. 255
      <4>1. p[1] \in 1 .. L /\ p[2] \in 0 .. 255
        BY ONLY p \in (1 .. L) \X (0 .. 255)
      <4>2. chars[p[1]] \in 0 .. 255
        BY ONLY <1>1, <4>1
      <4> QED BY ONLY <4>1, <4>2, SumOfBytes
    <3> QED BY ONLY <3>1, SMTT(30)
  <2>9. 0 \in 0 .. 255
    OBVIOUS
  <2>0. \A n \in 1 .. L : \A x \in 0 .. 255 : G[<<n, x>>] = (x + chars[n]) % 256
    OBVIOUS
  <2> HIDE DEF L, G
  <2>8. PICK f : Iterates(f, L, 0 .. 255, 0, G)
    BY ONLY <1>1, <2>1, <2>9, IterationExists, Zenon
  <2>2. /\ f \in [0 .. L -> 0 .. 255] /\ f[0] = 0
        /\ \A n \in 1 .. L : f[n] = G[<<n, f[n - 1]>>]
    BY <2>8 DEF Iterates
  <2>3. ASSUME NEW n \in 1 .. L PROVE f[n] = (f[n - 1] + chars[n]) % 256
    <3>1. f[n - 1] \in 0 .. 255
      BY <1>1, <2>2
    <3> QED BY <3>1, <2>2, <2>0, ZenonT(60)
  <2>4. IsSum(f)
    BY <2>2, <2>3, <1>1
  <2> QED BY <2>4
<1> DEFINE sum == CHOOSE f : IsSum(f)
<1>3. IsSum(sum)
  BY <1>2
<1>4. Sum(chars) = sum[L]
  BY DEF Sum
<1> HIDE DEF sum
<1>5. sum[0] = 0 /\ \A n \in 1 .. L : sum[n] = (sum[n - 1] + chars[n]) % 256
  BY <1>3, <1>1
<1>6. sum[0] \in 0 .. 255 /\ \A n \in 1 .. L : sum[n - 1] \in 0 .. 255 => sum[n] \in 0 .. 255
  <2>1. ASSUME NEW n \in 1 .. L, sum[n - 1] \in 0 .. 255 PROVE sum[n] \in 0 .. 255
    <3>1. sum[n] = (sum[n - 1] + chars[n]) % 256 /\ chars[n] \in 0 .. 255
      BY <1>5, <1>1
    <3> HIDE DEF L, IsSum
    <3> QED BY ONLY <3>1, <2>1, SumOfBytes, ZenonT(60)
  <2> QED BY <2>1, <1>5
<1>9. DOMAIN sum = 0 .. L /\ sum = [n \in 0 .. L |-> sum[n]]
  BY <1>3
<1> HIDE DEF IsSum, L
<1>7. \A n \in 0 .. L : sum[n] \in 0 .. 255
  BY <1>6, <1>1, IterationStays
<1>8. sum \in [0 .. L -> 0 .. 255]
  BY <1>7, <1>9
<1> QED BY <1>4, <1>5, <1>8 DEF IsSumOf, L, Added

(* Sums of two and of three bytes.                                         *)
LEMMA SumOfTwoBytes ==
    ASSUME NEW n \in 0 .. 510
    PROVE  n % 256 = IF n < 256 THEN n ELSE n - 256
OBVIOUS

(* They may be taken in either order.                                      *)
LEMMA SumOfThreeBytes ==
    ASSUME NEW x \in 0 .. 255, NEW y \in 0 .. 255, NEW c \in 0 .. 255
    PROVE  Added(Added(x, y), c) = Added(x, Added(y, c))
<1>1. (x + y) % 256 = (IF x + y < 256 THEN x + y ELSE x + y - 256)
      /\ (y + c) % 256 = (IF y + c < 256 THEN y + c ELSE y + c - 256)
  BY SumOfTwoBytes
<1>2. ((x + y) % 256) + c \in 0 .. 510 /\ x + ((y + c) % 256) \in 0 .. 510
  BY <1>1
<1> DEFINE a == ((x + y) % 256) + c
           b == x + ((y + c) % 256)
<1>3. a % 256 = (IF a < 256 THEN a ELSE a - 256) /\ b % 256 = IF b < 256 THEN b ELSE b - 256
  BY SumOfTwoBytes, <1>2, ZenonT(60)
<1>4. a = b \/ a = b + 256 \/ b = a + 256
  BY <1>1
<1> HIDE DEF a, b
<1>5. a \in 0 .. 510 /\ b \in 0 .. 510
  BY <1>2 DEF a, b
<1>6. a % 256 = b % 256
  BY ONLY <1>3, <1>4, <1>5
<1> QED BY <1>6 DEF a, b, Added

(* One byte less makes another sum.                                        *)
LEMMA SumWithoutOneByte ==
    ASSUME NEW x \in 0 .. 255, NEW y \in 0 .. 255, NEW c \in 1 .. 255
    PROVE  Added(x, y) # Added(Added(x, c), y)
<1> DEFINE a == x + y
           u == x + c
           b == (u % 256) + y
<1>1. a \in 0 .. 510 /\ u \in 0 .. 510
  OBVIOUS
<1>2. u % 256 = (IF u < 256 THEN u ELSE u - 256) /\ a % 256 = IF a < 256 THEN a ELSE a - 256
  BY SumOfTwoBytes, <1>1
<1>3. b \in 0 .. 510
  BY <1>1, <1>2
<1>4. b % 256 = IF b < 256 THEN b ELSE b - 256
  BY SumOfTwoBytes, <1>3
<1>5. (b = a + c \/ b = a + c - 256)
  BY <1>2
<1> HIDE DEF a, b, u
<1>6. a % 256 # b % 256
  BY ONLY <1>1, <1>2, <1>3, <1>4, <1>5
<1> QED BY <1>6 DEF a, b, u, Added

(* The checksum of one text after another.                                 *)
LEMMA SumOfTwo ==
    ASSUME NEW s \in Chars, NEW t \in Chars
    PROVE  s \o t \in Chars /\ Sum(s \o t) = Added(Sum(s), Sum(t))
<1>1. PICK f : IsSumOf(s, f)
  BY SumSteps
<1>2. PICK g : IsSumOf(t, g)
  BY SumSteps
<1>3. s \o t \in Chars
  BY DEF Chars
<1>4. PICK h : IsSumOf(s \o t, h)
  BY <1>3, SumSteps
<1> DEFINE K == Len(s)
           L == Len(t)
<1>5. /\ K \in Nat /\ L \in Nat /\ Len(s \o t) = K + L
      /\ \A i \in 1 .. K : (s \o t)[i] = s[i]
      /\ \A i \in 1 .. L : (s \o t)[K + i] = t[i] /\ t[i] \in 0 .. 255
  <2>1. K \in Nat /\ L \in Nat /\ \A i \in 1 .. L : t[i] \in 0 .. 255
    BY LenProperties, ElementOfSeq DEF Chars
  <2>2. Len(s \o t) = K + L /\ \A i \in 1 .. K + L :
            (s \o t)[i] = IF i <= K THEN s[i] ELSE t[i - K]
    BY ConcatProperties DEF Chars
  <2> HIDE DEF K, L
  <2>3. ASSUME NEW i \in 1 .. L PROVE (s \o t)[K + i] = t[i]
    <3>1. K + i \in 1 .. K + L /\ ~(K + i <= K) /\ (K + i) - K = i
      BY <2>1
    <3> QED BY <2>2, <3>1
  <2> QED BY <2>1, <2>2, <2>3
<1>6. f[0] = 0 /\ \A n \in 1 .. K : f[n] = Added(f[n - 1], s[n])
  BY <1>1 DEF IsSumOf
<1>7. g[0] = 0 /\ (\A n \in 1 .. L : g[n] = Added(g[n - 1], t[n]))
      /\ \A n \in 0 .. L : g[n] \in 0 .. 255
  BY <1>2 DEF IsSumOf
<1>8. h[0] = 0 /\ (\A n \in 1 .. K + L : h[n] = Added(h[n - 1], (s \o t)[n]))
      /\ \A n \in 0 .. K + L : h[n] \in 0 .. 255
  BY <1>4, <1>5 DEF IsSumOf
<1>9. Sum(s) = f[K] /\ Sum(t) = g[L] /\ Sum(s \o t) = h[K + L]
  BY <1>1, <1>2, <1>4, <1>5 DEF IsSumOf
<1> DEFINE p == s \o t
<1> HIDE DEF K, L, p
<1> DEFINE T == {n \in Nat : n <= K => h[n] = f[n]}
<1>10. 0 \in T
  BY <1>6, <1>8
<1>11. ASSUME NEW n \in Nat, n \in T PROVE n + 1 \in T
  <2> SUFFICES ASSUME n + 1 <= K PROVE h[n + 1] = f[n + 1]
    OBVIOUS
  <2>1. n + 1 \in 1 .. K /\ n + 1 \in 1 .. K + L /\ (n + 1) - 1 = n /\ h[n] = f[n]
    BY <1>5, <1>11
  <2>2. h[n + 1] = Added(h[n], p[n + 1]) /\ f[n + 1] = Added(f[n], s[n + 1])
        /\ p[n + 1] = s[n + 1]
    BY <2>1, <1>5, <1>6, <1>8 DEF p
  <2> QED BY ONLY <2>1, <2>2
<1> HIDE DEF T
<1>12. K \in T
  BY <1>10, <1>11, <1>5, SetInduction
<1>13. h[K] = f[K] /\ h[K] \in 0 .. 255
  BY <1>12, <1>5, <1>8 DEF T
<1> DEFINE U == {n \in Nat : n <= L => h[K + n] = Added(h[K], g[n])}
<1>14. 0 \in U
  <2>1. \A x \in 0 .. 255 : x = Added(x, 0)
    BY DEF Added
  <2>2. K + 0 = K
    BY <1>5
  <2> QED BY <2>1, <2>2, <1>7, <1>13
<1>15. ASSUME NEW n \in Nat, n \in U PROVE n + 1 \in U
  <2> SUFFICES ASSUME n + 1 <= L PROVE h[K + (n + 1)] = Added(h[K], g[n + 1])
    OBVIOUS
  <2>1. n + 1 \in 1 .. L /\ K + (n + 1) \in 1 .. K + L /\ (n + 1) - 1 = n
        /\ (K + (n + 1)) - 1 = K + n /\ h[K + n] = Added(h[K], g[n]) /\ n \in 0 .. L
    BY <1>5, <1>15
  <2>2. h[K + (n + 1)] = Added(h[K + n], p[K + (n + 1)])
    <3>1. h[K + (n + 1)] = Added(h[(K + (n + 1)) - 1], p[K + (n + 1)])
      BY <2>1, <1>8 DEF p
    <3> QED BY <2>1, <3>1
  <2>3. p[K + (n + 1)] = t[n + 1] /\ t[n + 1] \in 0 .. 255
    BY <2>1, <1>5 DEF p
  <2>4. g[n + 1] = Added(g[n], t[n + 1]) /\ g[n] \in 0 .. 255
    BY <2>1, <1>7
  <2>5. Added(Added(h[K], g[n]), t[n + 1]) = Added(h[K], Added(g[n], t[n + 1]))
    BY ONLY <2>3, <2>4, <1>13, SumOfThreeBytes
  <2> QED BY ONLY <2>1, <2>2, <2>3, <2>4, <2>5, Zenon
<1> HIDE DEF U
<1>16. L \in U
  BY <1>14, <1>15, <1>5, SetInduction
<1>17. h[K + L] = Added(h[K], g[L])
  BY <1>16, <1>5 DEF U
<1> QED BY <1>3, <1>9, <1>13, <1>17

(* The checksum of a single character.                                     *)
LEMMA SumOfOne ==
    ASSUME NEW c \in 0 .. 255
    PROVE  <<c>> \in Chars /\ Sum(<<c>>) = c
<1>1. <<c>> \in Chars /\ Len(<<c>>) = 1 /\ <<c>>[1] = c
  BY DEF Chars
<1>2. PICK f : IsSumOf(<<c>>, f)
  BY <1>1, SumSteps
<1>3. f[0] = 0 /\ f[1] = Added(f[1 - 1], c) /\ Sum(<<c>>) = f[1]
  BY <1>1, <1>2 DEF IsSumOf
<1> QED BY <1>1, <1>3 DEF Added

(* get_packet_2 sums up as it reads.                                       *)
LEMMA SumOfNext ==
    ASSUME NEW s \in Chars, NEW c \in 0 .. 255
    PROVE  Append(s, c) \in Chars /\ Sum(Append(s, c)) = Added(Sum(s), c)
<1>1. Append(s, c) = s \o <<c>>
  BY AppendIsConcat DEF Chars
<1>2. <<c>> \in Chars /\ Sum(<<c>>) = c
  BY SumOfOne
<1>3. s \o <<c>> \in Chars /\ Sum(s \o <<c>>) = Added(Sum(s), Sum(<<c>>))
  BY <1>2, SumOfTwo
<1> QED BY <1>1, <1>2, <1>3

(* A lost character shows in the checksum, unless it is zero.              *)
LEMMA SumMissesOne ==
    ASSUME NEW s \in Chars, NEW k \in 1 .. Len(s), s[k] # 0
    PROVE  RemoveAt(s, k) \in Chars /\ Sum(RemoveAt(s, k)) # Sum(s)
<1> DEFINE x == SubSeq(s, 1, k - 1)
           y == SubSeq(s, k + 1, Len(s))
           c == s[k]
<1>1. Len(s) \in Nat /\ \A i \in 1 .. Len(s) : s[i] \in 0 .. 255
  BY ElementOfSeq, LenProperties DEF Chars
<1>2. x \in Chars /\ y \in Chars /\ c \in 0 .. 255
  BY <1>1, SubSeqProperties DEF Chars
<1>3. s = (x \o <<c>>) \o y
  <2>1. x \o <<c>> = SubSeq(s, 1, k)
    BY <1>1, SubSeqRecursiveSecond DEF Chars
  <2>2. SubSeq(s, 1, k) \o y = SubSeq(s, 1, Len(s))
    BY <1>1, ConcatAdjacentSubSeq DEF Chars
  <2> QED BY <2>1, <2>2, SubSeqFull DEF Chars
<1> HIDE DEF x, y, c
<1>4. Sum(x) \in 0 .. 255 /\ Sum(y) \in 0 .. 255
  BY <1>2, SumIsByte
<1>5. Sum(s) = Added(Added(Sum(x), c), Sum(y))
  <2>1. <<c>> \in Chars /\ Sum(<<c>>) = c
    BY <1>2, SumOfOne
  <2>2. x \o <<c>> \in Chars /\ Sum(x \o <<c>>) = Added(Sum(x), Sum(<<c>>))
    BY <1>2, <2>1, SumOfTwo
  <2>3. Sum((x \o <<c>>) \o y) = Added(Sum(x \o <<c>>), Sum(y))
    BY <1>2, <2>2, SumOfTwo
  <2> QED BY <1>3, <2>1, <2>2, <2>3
<1>6. x \o y \in Chars /\ Sum(x \o y) = Added(Sum(x), Sum(y))
  BY <1>2, SumOfTwo
<1>7. RemoveAt(s, k) = x \o y
  BY DEF RemoveAt, x, y
<1>8. c \in 1 .. 255
  <2>1. c # 0
    BY DEF c
  <2> QED BY ONLY <2>1, <1>2
<1>9. Added(Sum(x), Sum(y)) # Added(Added(Sum(x), c), Sum(y))
  BY ONLY <1>4, <1>8, SumWithoutOneByte
<1> QED BY <1>5, <1>6, <1>7, <1>9

(* What GDB sends but a break: text without the characters that put_packet *)
(* escapes.                                                                *)
IsText(r) ==
    /\ r \in Chars /\ r # <<>>
    /\ \A k \in 1 .. Len(r) :
          r[k] \notin {0, GDB_RSP_BREAK_CMD, Dollar, Hash, Star, Brace}

(* Nothing in it is escaped.                                               *)
LEMMA BodyOfText ==
    ASSUME NEW r, IsText(r)
    PROVE  Body(r) = r
<1> DEFINE L == Len(r)
           IsBody(f) == f = [n \in 0 .. L |->
                               IF n = 0 THEN <<>> ELSE f[n - 1] \o Escape(r[n])]
           f0 == [n \in 0 .. L |-> SubSeq(r, 1, n)]
<1>1. r \in Chars /\ L \in Nat /\ \A n \in 1 .. L : Escape(r[n]) = <<r[n]>>
  BY LenProperties DEF IsText, Escape, Chars
<1>2. \A n \in 1 .. L : SubSeq(r, 1, n) = SubSeq(r, 1, n - 1) \o <<r[n]>>
  BY <1>1, SubSeqRecursiveSecond DEF Chars
<1>3. SubSeq(r, 1, 0) = <<>> /\ SubSeq(r, 1, L) = r
  BY <1>1, SubSeqEmpty, SubSeqFull DEF Chars
<1>4. IsBody(f0)
  <2>1. ASSUME NEW n \in 0 .. L, n # 0
        PROVE  SubSeq(r, 1, n) = f0[n - 1] \o Escape(r[n])
    <3>1. n \in 1 .. L /\ n - 1 \in 0 .. L
      BY <2>1, <1>1
    <3>2. f0[n - 1] = SubSeq(r, 1, n - 1)
      BY <3>1
    <3> QED BY <3>1, <3>2, <1>1, <1>2
  <2>2. \A n \in 0 .. L : SubSeq(r, 1, n) = IF n = 0 THEN <<>> ELSE f0[n - 1] \o Escape(r[n])
    BY <2>1, <1>3
  <2> HIDE DEF L
  <2> QED BY <2>2
<1> DEFINE body == CHOOSE f : IsBody(f)
<1>5. IsBody(body)
  <2> HIDE DEF IsBody, f0
  <2> QED BY <1>4
<1>6. Body(r) = body[L]
  BY DEF Body
<1> HIDE DEF body, f0
<1>7. body[0] = <<>> /\ \A n \in 1 .. L : body[n] = body[n - 1] \o Escape(r[n])
  <2>1. ASSUME NEW n \in 0 .. L
        PROVE  body[n] = IF n = 0 THEN <<>> ELSE body[n - 1] \o Escape(r[n])
    <3> HIDE DEF L
    <3> QED BY <1>5, <2>1, Zenon
  <2>2. 0 \in 0 .. L /\ \A n \in 1 .. L : n \in 0 .. L /\ n # 0
    BY <1>1
  <2> HIDE DEF L
  <2> QED BY <2>1, <2>2, Zenon
<1> HIDE DEF IsBody, L
<1> DEFINE T == {n \in Nat : n <= L => body[n] = SubSeq(r, 1, n)}
<1>8. 0 \in T
  BY <1>3, <1>7
<1>9. ASSUME NEW n \in Nat, n \in T PROVE n + 1 \in T
  <2> SUFFICES ASSUME n + 1 <= L PROVE body[n + 1] = SubSeq(r, 1, n + 1)
    OBVIOUS
  <2>1. n + 1 \in 1 .. L /\ (n + 1) - 1 = n /\ body[n] = SubSeq(r, 1, n)
    BY <1>1, <1>9
  <2>2. body[n + 1] = body[n] \o Escape(r[n + 1])
    BY <2>1, <1>7
  <2>3. SubSeq(r, 1, n + 1) = SubSeq(r, 1, n) \o <<r[n + 1]>> /\ Escape(r[n + 1]) = <<r[n + 1]>>
    BY <2>1, <1>1, <1>2
  <2> QED BY ONLY <2>1, <2>2, <2>3, Zenon
<1> HIDE DEF T
<1>10. L \in T
  BY <1>8, <1>9, <1>1, SetInduction
<1>11. body[L] = SubSeq(r, 1, L)
  BY <1>10, <1>1 DEF T
<1> QED BY <1>3, <1>6, <1>11

(* The digits of a checksum, and what get_packet_2 compares them with.     *)
HighDigit(t) == get_hex_char(Sum(t) \div 16)
LowDigit(t) == get_hex_char(Sum(t) % 16)
Agree(sum, d, c) ==
    {d, c} \subseteq HexDigit /\ sum = 16 * parse_hex_digit(d) + parse_hex_digit(c)

(* The two digits of a byte.                                               *)
LEMMA Nibbles ==
    ASSUME NEW s \in 0 .. 255
    PROVE  s \div 16 \in 0 .. 15 /\ s % 16 \in 0 .. 15 /\ s = 16 * (s \div 16) + (s % 16)
OBVIOUS

(* A packet, character by character.                                       *)
LEMMA FrameOfText ==
    ASSUME NEW r, IsText(r)
    PROVE  /\ Frame(r) \in Chars /\ Len(r) \in Nat \ {0} /\ Len(Frame(r)) = Len(r) + 4
           /\ Frame(r)[1] = Dollar /\ Frame(r)[Len(r) + 2] = Hash
           /\ \A i \in 1 .. Len(r) : Frame(r)[i + 1] = r[i]
           /\ Frame(r)[Len(r) + 3] = HighDigit(r) /\ Frame(r)[Len(r) + 4] = LowDigit(r)
<1> DEFINE x == <<Dollar>>
           y == <<Hash, HighDigit(r), LowDigit(r)>>
           L == Len(r)
           xr == x \o r
<1>1. r \in Chars /\ Sum(r) \in 0 .. 255 /\ L \in Nat \ {0}
  BY SumIsByte, LenProperties, EmptySeq DEF IsText, Chars
<1>2. HighDigit(r) \in 0 .. 255 /\ LowDigit(r) \in 0 .. 255
  <2>1. Sum(r) \div 16 \in 0 .. 15 /\ Sum(r) % 16 \in 0 .. 15
    BY <1>1, Nibbles
  <2>2. \A v \in 0 .. 15 : get_hex_char(v) \in 0 .. 255
    BY DEF get_hex_char
  <2> QED BY <2>1, <2>2 DEF HighDigit, LowDigit
<1>3. x \in Chars /\ Len(x) = 1 /\ x[1] = Dollar
  BY DEF Chars, Dollar
<1>4. y \in Chars /\ Len(y) = 3 /\ y[1] = Hash /\ y[2] = HighDigit(r) /\ y[3] = LowDigit(r)
  BY <1>2 DEF Chars, Hash
<1>5. Frame(r) = xr \o y
  BY BodyOfText DEF Frame, Wrapped, HighDigit, LowDigit
<1> HIDE DEF x, y, xr
<1>6. xr \in Chars /\ Len(xr) = L + 1
      /\ \A i \in 1 .. 1 + L : xr[i] = IF i <= 1 THEN x[i] ELSE r[i - 1]
  <2>1. xr \in Chars /\ Len(xr) = Len(x) + Len(r)
        /\ \A i \in 1 .. Len(x) + Len(r) : xr[i] = IF i <= Len(x) THEN x[i] ELSE r[i - Len(x)]
    <3>1. PICK S : S = 0 .. 255
      OBVIOUS
    <3>2. x \in Seq(S) /\ r \in Seq(S)
      BY <3>1, <1>1, <1>3 DEF Chars
    <3>3. /\ x \o r \in Seq(S) /\ Len(x \o r) = Len(x) + Len(r)
          /\ \A i \in 1 .. Len(x) + Len(r) :
                (x \o r)[i] = IF i <= Len(x) THEN x[i] ELSE r[i - Len(x)]
      BY ONLY <3>2, ConcatProperties
    <3> QED BY ONLY <3>1, <3>3 DEF xr, Chars
  <2>2. Len(xr) = 1 + L /\ \A i \in 1 .. 1 + L : xr[i] = IF i <= 1 THEN x[i] ELSE r[i - 1]
    BY <2>1, <1>3
  <2> HIDE DEF L
  <2> QED BY <2>1, <2>2, <1>1
<1>7. Frame(r) \in Chars /\ Len(Frame(r)) = L + 4
      /\ \A i \in 1 .. L + 4 : Frame(r)[i] = IF i <= L + 1 THEN xr[i] ELSE y[i - (L + 1)]
  <2> DEFINE F == Frame(r)
  <2>1. F \in Chars /\ Len(F) = Len(xr) + Len(y)
        /\ \A i \in 1 .. Len(xr) + Len(y) :
              F[i] = IF i <= Len(xr) THEN xr[i] ELSE y[i - Len(xr)]
    <3>1. F = xr \o y /\ xr \in Seq(0 .. 255) /\ y \in Seq(0 .. 255)
      BY <1>4, <1>5, <1>6 DEF Chars
    <3> HIDE DEF F, L
    <3> QED BY ONLY <3>1, ConcatProperties DEF Chars
  <2> HIDE DEF F, L
  <2>2. Len(xr) + Len(y) = L + 4
    BY <1>1, <1>4, <1>6
  <2>3. F \in Chars /\ Len(F) = L + 4
        /\ \A i \in 1 .. L + 4 : F[i] = IF i <= L + 1 THEN xr[i] ELSE y[i - (L + 1)]
    BY ONLY <2>1, <2>2, <1>6
  <2> QED BY <2>3 DEF F
<1>8. Frame(r)[1] = Dollar
  BY <1>1, <1>3, <1>6, <1>7
<1>9. ASSUME NEW i \in 1 .. L PROVE Frame(r)[i + 1] = r[i]
  <2>1. i + 1 \in 1 .. L + 4 /\ i + 1 <= L + 1 /\ i + 1 \in 1 .. 1 + L /\ ~(i + 1 <= 1)
        /\ (i + 1) - 1 = i
    BY <1>1
  <2> QED BY ONLY <2>1, <1>6, <1>7
<1>10. ASSUME NEW j \in 1 .. 3 PROVE Frame(r)[L + 1 + j] = y[j]
  <2>1. L + 1 + j \in 1 .. L + 4 /\ ~(L + 1 + j <= L + 1) /\ (L + 1 + j) - (L + 1) = j
    BY <1>1
  <2> QED BY <2>1, <1>7
<1>11. L + 1 + 1 = L + 2 /\ L + 1 + 2 = L + 3 /\ L + 1 + 3 = L + 4
  BY <1>1
<1>12. Frame(r)[L + 2] = Hash /\ Frame(r)[L + 3] = HighDigit(r) /\ Frame(r)[L + 4] = LowDigit(r)
  BY <1>4, <1>10, <1>11
<1> QED BY <1>1, <1>7, <1>8, <1>9, <1>12

(* The characters that are hexadecimal digits.                             *)
LEMMA HexDigitIs ==
    /\ HexDigit = (48 .. 57) \cup (65 .. 70) \cup (97 .. 102)
    /\ \A c \in HexDigit : c \in 0 .. 255
    /\ \A c \in {Dollar, Hash, Plus, Minus, GDB_RSP_BREAK_CMD, EndOfFile} : c \notin HexDigit
<1>1. \A v \in 0 .. 15 : get_hex_char(v) \in (48 .. 57) \cup (97 .. 102)
  BY DEF get_hex_char
<1>2. \A c \in 48 .. 57 : c - 48 \in 0 .. 15 /\ get_hex_char(c - 48) = c
  BY DEF get_hex_char
<1>3. \A c \in 97 .. 102 : c - 87 \in 0 .. 15 /\ get_hex_char(c - 87) = c
  BY DEF get_hex_char
<1>4. HexDigit = (48 .. 57) \cup (65 .. 70) \cup (97 .. 102)
  BY <1>1, <1>2, <1>3 DEF HexDigit
<1> QED BY <1>4 DEF Dollar, Hash, Plus, Minus, GDB_RSP_BREAK_CMD, EndOfFile

(* The digits of a checksum agree with no other.                           *)
LEMMA DigitsOfSum ==
    ASSUME NEW r \in Chars
    PROVE  /\ HighDigit(r) \in HexDigit /\ LowDigit(r) \in HexDigit
           /\ \A s : Agree(s, HighDigit(r), LowDigit(r)) => s = Sum(r)
<1> DEFINE s == Sum(r)
<1>1. s \in 0 .. 255
  BY SumIsByte
<1> HIDE DEF s
<1>2. s \div 16 \in 0 .. 15 /\ s % 16 \in 0 .. 15 /\ s = 16 * (s \div 16) + (s % 16)
  BY ONLY <1>1, Nibbles
<1>3. HighDigit(r) \in HexDigit /\ LowDigit(r) \in HexDigit
      /\ parse_hex_digit(HighDigit(r)) = s \div 16 /\ parse_hex_digit(LowDigit(r)) = s % 16
  BY <1>2, HexDigits DEF HighDigit, LowDigit, s
<1>4. ASSUME NEW z, Agree(z, HighDigit(r), LowDigit(r)) PROVE z = s
  <2>1. z = 16 * parse_hex_digit(HighDigit(r)) + parse_hex_digit(LowDigit(r))
    BY <1>4 DEF Agree
  <2>2. z = 16 * (s \div 16) + (s % 16)
    BY ONLY <2>1, <1>3
  <2> QED BY ONLY <2>2, <1>2
<1> QED BY <1>3, <1>4 DEF s

Kill == <<KillRequest>>
Break == <<GDB_RSP_BREAK_CMD>>
(* A kill request without its '#'.                                         *)
OpenKill == <<KillRequest, 54, 98>>

(* Kill requests and their checksums.                                      *)
LEMMA KillSums ==
    /\ IsText(Kill) /\ Sum(Kill) = 107 /\ HighDigit(Kill) = 54 /\ LowDigit(Kill) = 98
    /\ OpenKill \in Chars /\ Len(OpenKill) = 3
    /\ OpenKill[1] = KillRequest /\ OpenKill[2] = 54 /\ OpenKill[3] = 98
    /\ Sum(OpenKill) = 3
<1>1. Kill \in Chars /\ Len(Kill) = 1 /\ Kill[1] = 107 /\ Sum(Kill) = 107
  BY SumOfOne DEF Kill, KillRequest
<1>2. IsText(Kill)
  BY <1>1 DEF IsText, GDB_RSP_BREAK_CMD, Dollar, Hash, Star, Brace
<1>3. 107 \div 16 = 6 /\ 107 % 16 = 11 /\ 87 + 11 = 98 /\ 48 + 6 = 54
  OBVIOUS
<1>4. HighDigit(Kill) = 54 /\ LowDigit(Kill) = 98
  BY <1>1, <1>3 DEF HighDigit, LowDigit, get_hex_char
<1> DEFINE k6 == Append(Kill, 54)
<1>5. k6 \in Chars /\ Sum(k6) = Added(107, 54)
  BY <1>1, SumOfNext
<1>6. OpenKill = Append(k6, 98)
  BY DEF OpenKill, Kill
<1> HIDE DEF k6
<1>7. OpenKill \in Chars /\ Sum(OpenKill) = Added(Added(107, 54), 98)
  BY <1>5, <1>6, SumOfNext
<1>8. Added(107, 54) = 161 /\ Added(161, 98) = 3
  BY DEF Added
<1> QED BY <1>1, <1>2, <1>4, <1>7, <1>8 DEF OpenKill

(* A kill request that lost a digit is completed by no other character     *)
(* than the lost one.                                                      *)
LEMMA KillNeedsItsDigits ==
    /\ \A y : ~Agree(107, 98, y)
    /\ \A y : Agree(107, 54, y) => y \in {66, 98}
<1>1. \A y \in HexDigit : parse_hex_digit(y) \in 0 .. 15
  BY HexDigits
<1>2. parse_hex_digit(98) = 11 /\ parse_hex_digit(54) = 6
  BY DEF parse_hex_digit
<1>3. ASSUME NEW y, Agree(107, 98, y) PROVE FALSE
  BY <1>1, <1>2, <1>3 DEF Agree
<1>4. ASSUME NEW y, Agree(107, 54, y) PROVE y \in {66, 98}
  <2>1. y \in HexDigit /\ parse_hex_digit(y) = 11
    BY <1>1, <1>2, <1>4 DEF Agree
  <2> QED BY <2>1, HexDigitIs DEF parse_hex_digit
<1> QED BY <1>3, <1>4

(* With a kill request in front that lost its '#', no checksum is right.   *)
LEMMA OpenKillSpoilsSum ==
    ASSUME NEW r, IsText(r)
    PROVE  /\ OpenKill \o r \in Chars /\ Len(OpenKill \o r) = Len(r) + 3
           /\ \A i \in 1 .. 3 : (OpenKill \o r)[i] = OpenKill[i]
           /\ \A i \in 1 .. Len(r) : (OpenKill \o r)[i + 3] = r[i]
           /\ Sum(OpenKill \o r) # Sum(r)
<1>1. r \in Chars /\ Sum(r) \in 0 .. 255 /\ Len(r) \in Nat
  BY SumIsByte, LenProperties DEF IsText, Chars
<1>2. OpenKill \in Chars /\ Len(OpenKill) = 3 /\ Sum(OpenKill) = 3
  BY KillSums
<1>3. OpenKill \o r \in Chars /\ Sum(OpenKill \o r) = Added(3, Sum(r))
  BY <1>1, <1>2, SumOfTwo
<1>4. \A s \in 0 .. 255 : Added(3, s) # s
  BY DEF Added
<1> DEFINE L == Len(r)
<1>5. Len(OpenKill \o r) = 3 + L /\ \A i \in 1 .. 3 + L :
          (OpenKill \o r)[i] = IF i <= 3 THEN OpenKill[i] ELSE r[i - 3]
  <2>1. Len(OpenKill \o r) = Len(OpenKill) + Len(r)
        /\ \A i \in 1 .. Len(OpenKill) + Len(r) :
              (OpenKill \o r)[i] = IF i <= Len(OpenKill) THEN OpenKill[i] ELSE r[i - Len(OpenKill)]
    BY <1>1, <1>2, ConcatProperties, ZenonT(60) DEF Chars
  <2> QED BY <2>1, <1>2
<1>8. 3 + L = L + 3
  BY <1>1
<1>6. ASSUME NEW i \in 1 .. Len(r) PROVE (OpenKill \o r)[i + 3] = r[i]
  <2>1. i + 3 \in 1 .. 3 + Len(r) /\ ~(i + 3 <= 3) /\ (i + 3) - 3 = i
    BY <1>1
  <2> QED BY <2>1, <1>5
<1>7. \A i \in 1 .. 3 : (OpenKill \o r)[i] = OpenKill[i]
  BY <1>1, <1>5
<1>9. Sum(OpenKill \o r) # Sum(r)
  BY <1>1, <1>3, <1>4
<1> QED BY <1>3, <1>5, <1>6, <1>7, <1>8, <1>9

-----------------------------------------------------------------------------
(***************************************************************************)
(* What is on its way to the bridge, and how much of it has been read.     *)
(* First come characters that get_packet_2 skips, or the '+' it waits for, *)
(* and requests to kill the program, which GDB may repeat as it likes.     *)
(* Then comes nothing that matters (Calm), the packet of the last request  *)
(* (Coming), or something that no handler gets (Doomed); or the last       *)
(* request has been read (Serving).                                        *)
(***************************************************************************)
Open == pc \notin {"listening", "crashed"}
Acking == {"acking", "acking_monitor"}
Starting == {"idle", "start"}
Noise == {Plus, Minus}
IsMonitor(r) == IsPrefix(<<Query, Rcmd>>, r)
Request == UNION {GdbRequest[n] : n \in 1 .. MaxRequests}

\* The characters of the packets of kill requests, one after the other.
Follows(c, d) ==
    \/ c = Dollar /\ d = KillRequest
    \/ c = KillRequest /\ d = Hash
    \/ c = Hash /\ d = 54
    \/ c = 54 /\ d = 98
    \/ c = 98 /\ d = Dollar

\* b other characters and then kill requests, up to the position a.
Kills(w, b, a) ==
    /\ a \in 0 .. Len(w) /\ b \in 0 .. a
    /\ \A i \in 1 .. b : w[i] \in Noise
    /\ 0 < b /\ b < a => w[b + 1] = Dollar
    /\ \A i \in b + 1 .. a - 1 : Follows(w[i], w[i + 1])
    /\ b < a => w[a] = 98

\* A kill request begins or goes on with c.
AwaitsKill(c) ==
    \/ pc \in Starting /\ c = Dollar
    \/ pc = "handling" /\ buf = Kill /\ c = Dollar
    \/ pc = "body" /\ buf = <<>> /\ c = KillRequest
    \/ pc = "body" /\ buf = Kill /\ c = Hash
    \/ pc = "sum1" /\ buf = Kill /\ c = 54
    \/ pc = "sum2" /\ buf = Kill /\ digit = 54 /\ c = 98

Idling == pc \in Starting \/ (pc = "handling" /\ buf = Kill)

Ready(c, b, a) ==
    /\ b > 0 => \/ is_first_packet /\ pc \in Starting
                \/ b = 1 /\ pc \in Acking /\ c = Plus
    /\ b = 0 /\ a > 0 => AwaitsKill(c)
    /\ a = 0 => Idling

Lead(a) == \E b \in 0 .. a : Kills(toBridge, b, a) /\ Ready(toBridge[1], b, a)

\* '$' and the text t after the position a, of which a part has been read if
\* a is negative; and a packet without its last digit.
TextOn(w, a, t) ==
    /\ a + Len(t) + 1 <= Len(w)
    /\ a >= 0 => w[a + 1] = Dollar
    /\ \A i \in 1 .. Len(t) : a + 1 + i >= 1 => w[a + 1 + i] = t[i]

PacketOn(w, a, t, d) ==
    /\ TextOn(w, a, t) /\ a + Len(t) + 3 <= Len(w)
    /\ a + Len(t) + 2 >= 1 => w[a + Len(t) + 2] = Hash
    /\ a + Len(t) + 3 >= 1 => w[a + Len(t) + 3] = d

TextReached(a, t) ==
    \/ a >= 0 /\ Lead(a)
    \/ a < 0 /\ -a <= Len(t) + 1 /\ pc = "body" /\ buf = SubSeq(t, 1, -a - 1)

Reached(a, t, d) ==
    \/ TextReached(a, t)
    \/ a = -(Len(t) + 2) /\ pc = "sum1" /\ buf = t
    \/ a = -(Len(t) + 3) /\ pc = "sum2" /\ buf = t /\ digit = d

\* The position of the first character that is still to come does not
\* acknowledge anything, and is not another request behind a command.
After(w, n) ==
    n <= Len(w) => w[n] # Plus /\ (IsMonitor(request) => w[n] = EndOfFile)

Calm ==
    \E a \in 0 .. Len(toBridge) :
        /\ Lead(a)
        /\ \A i \in a + 1 .. Len(toBridge) : toBridge[i] \in {Minus, EndOfFile}
        /\ gdb = "idle" => a = Len(toBridge)
        /\ gdb = "ack" => a = Len(toBridge) /\ request = Kill
        /\ gdb = "reply" => request = Break

BreakComing(a) ==
    /\ request = Break /\ Lead(a) /\ a < Len(toBridge)
    /\ toBridge[a + 1] = GDB_RSP_BREAK_CMD /\ After(toBridge, a + 2)

PacketComing(a, t) ==
    /\ request = t /\ t # Break
    /\ Reached(a, t, HighDigit(t)) /\ PacketOn(toBridge, a, t, HighDigit(t))
    /\ a + Len(t) + 4 <= Len(toBridge) /\ toBridge[a + Len(t) + 4] = LowDigit(t)
    /\ After(toBridge, a + Len(t) + 5)

Coming ==
    /\ ~damaged /\ started = 0 /\ answered = 0
    /\ request # Kill /\ request # <<>> /\ gdb # "idle"
    /\ \E a \in Int : BreakComing(a) \/ PacketComing(a, request)

Serving ==
    /\ ~damaged /\ started = 1 /\ request # Kill /\ request # <<>> /\ gdb # "idle"
    /\ \/ /\ pc \in {"handling", "access"} /\ buf = request
          /\ gdb # "absent" => answered = 0
          /\ gdb = "ack" => toGdb # <<>>
       \/ pc = "acking" /\ (gdb # "absent" => answered = 1)
       \/ pc = "acking_monitor" /\ (gdb # "absent" => answered = 1) /\ IsMonitor(request)
    /\ After(toBridge, 1)

\* GDB may send another request, or may after an acknowledgement.
MayAsk == gdb = "idle" \/ (gdb = "ack" /\ request = Kill)

DoomedAcking == pc = "acking" /\ toBridge # <<>> /\ toBridge[1] # Plus

\* No packet begins like this.
DoomedStart(a) ==
    /\ Lead(a) /\ a < Len(toBridge)
    /\ toBridge[a + 1] \notin {Plus, Minus, Dollar, GDB_RSP_BREAK_CMD}

\* The checksum is wrong.
WrongPacket(a, t, d) ==
    /\ Reached(a, t, d) /\ PacketOn(toBridge, a, t, d)
    /\ IF a + Len(t) + 4 <= Len(toBridge)
       THEN ~Agree(Sum(t), d, toBridge[a + Len(t) + 4])
       ELSE MayAsk => t = Kill /\ d \in {54, 98}

\* The packet is not over when the next one begins.
Endless(a) ==
    /\ \/ a >= 0 /\ Lead(a) /\ a < Len(toBridge) /\ toBridge[a + 1] = Dollar
       \/ a = -1 /\ pc = "body"
    /\ \A i \in a + 2 .. Len(toBridge) :
          toBridge[i] = Hash => \E j \in a + 2 .. i - 1 : toBridge[j] = Dollar
    /\ MayAsk => \E j \in a + 2 .. Len(toBridge) : toBridge[j] = Dollar

OpenKillComing(a) ==
    TextReached(a, OpenKill) /\ TextOn(toBridge, a, OpenKill) /\ Len(toBridge) = a + 4

\* Nothing without a '#' in it.
Texts == {t \in Chars : \A i \in 1 .. Len(t) : t[i] # Hash}

Doomed ==
    \/ DoomedAcking
    \/ \E a \in Int : DoomedStart(a) \/ Endless(a) \/ OpenKillComing(a)
    \/ \E a \in Int : \E t \in Texts : \E d \in HexDigit : WrongPacket(a, t, d)

Whereabouts == Open => Calm \/ Coming \/ Serving \/ Doomed

\* Of the requests that GDB waits for an answer to.
Requesting ==
    /\ gdb \in {"ack", "reply"} => request # <<>>
    /\ gdb = "ack" => request # Break
    /\ gdb = "reply" => request # Kill

\* What GDB has not read of the replies.
Replies ==
    gdb # "absent" => \A j \in 1 .. Len(toGdb) : toGdb[j] # <<Plus>> =>
        /\ j = Len(toGdb) /\ Serving /\ pc \in Acking
        /\ gdb \in {"ack", "reply"} /\ (gdb = "ack" => j > 1)

\* GDB is there as long as the connection has no end.
Ends == gdb # "absent" => \A i \in 1 .. Len(toBridge) : toBridge[i] # EndOfFile
Closed == ~Open => gdb = "absent" /\ toBridge = <<>> /\ toGdb = <<>>
Checked == pc \in {"body", "sum1", "sum2"} => checksum = Sum(buf)

PacketsInv ==
    Requesting /\ Replies /\ Ends /\ Closed /\ Checked /\ OneReplyPerRequest /\ Whereabouts

-----------------------------------------------------------------------------
(* The wire when a character is read from it, and when more is sent.       *)
IsTail(v, w) ==
    /\ Len(w) \in Nat \ {0} /\ Len(v) = Len(w) - 1
    /\ \A i \in 1 .. Len(w) - 1 : v[i] = w[i + 1]
IsExtended(v, w) ==
    /\ Len(w) \in Nat /\ Len(v) \in Nat /\ Len(w) <= Len(v)
    /\ \A i \in 1 .. Len(w) : v[i] = w[i]

(* The rest of the wire.                                                   *)
LEMMA TailIsTail ==
    ASSUME NEW S, NEW w \in Seq(S), w # <<>>
    PROVE  IsTail(Tail(w), w) /\ Head(w) = w[1] /\ w[1] \in S
<1>1. Len(w) \in Nat \ {0}
  BY LenProperties, EmptySeq
<1>2. Head(w) = w[1] /\ w[1] \in S /\ Len(Tail(w)) = Len(w) - 1
      /\ \A i \in 1 .. Len(w) - 1 : Tail(w)[i] = w[i + 1]
  BY <1>1, HeadTailProperties, ElementOfSeq
<1> QED BY <1>1, <1>2 DEF IsTail

(* The wire and what is added to it.                                       *)
LEMMA ConcatExtends ==
    ASSUME NEW S, NEW w \in Seq(S), NEW y \in Seq(S)
    PROVE  /\ IsExtended(w \o y, w) /\ Len(w \o y) = Len(w) + Len(y)
           /\ Len(w) \in Nat /\ Len(y) \in Nat
           /\ \A i \in 1 .. Len(y) : (w \o y)[Len(w) + i] = y[i]
<1> DEFINE v == w \o y
           K == Len(w)
           L == Len(y)
<1>1. Len(v) = K + L /\ \A i \in 1 .. K + L : v[i] = IF i <= K THEN w[i] ELSE y[i - K]
  BY ConcatProperties
<1>2. K \in Nat /\ L \in Nat
  BY LenProperties
<1> HIDE DEF K, L, v
<1>3. ASSUME NEW i \in 1 .. L PROVE v[K + i] = y[i]
  <2>1. K + i \in 1 .. K + L /\ ~(K + i <= K) /\ (K + i) - K = i
    BY <1>2
  <2> QED BY <1>1, <2>1
<1>4. \A i \in 1 .. K : v[i] = w[i]
  BY <1>1, <1>2
<1>5. Len(v) \in Nat /\ K <= Len(v)
  BY <1>1, <1>2
<1> QED BY <1>1, <1>2, <1>3, <1>4, <1>5 DEF IsExtended, K, L, v

(* Kill requests move up when a character is read.                         *)
LEMMA KillsMoveUp ==
    ASSUME NEW v, NEW w, IsTail(v, w), NEW a, NEW b, a > 0, Kills(w, b, a)
    PROVE  Kills(v, IF b = 0 THEN 0 ELSE b - 1, a - 1)
<1> DEFINE K == Len(w)
           M == Len(v)
           e == IF b = 0 THEN 0 ELSE b - 1
<1>1. K \in Nat \ {0} /\ M = K - 1 /\ \A i \in 1 .. K - 1 : v[i] = w[i + 1]
  BY DEF IsTail
<1>2. /\ a \in 1 .. K /\ b \in 0 .. a /\ \A i \in 1 .. b : w[i] \in Noise
      /\ 0 < b /\ b < a => w[b + 1] = Dollar
      /\ \A i \in b + 1 .. a - 1 : Follows(w[i], w[i + 1])
      /\ b < a => w[a] = 98
  BY <1>1 DEF Kills
<1> HIDE DEF K, M
<1>3. a - 1 \in 0 .. M /\ e \in 0 .. a - 1
  BY <1>1, <1>2
<1>4. \A i \in 1 .. e : v[i] \in Noise
  <2>1. ASSUME NEW i \in 1 .. e PROVE v[i] \in Noise
    <3>1. i + 1 \in 1 .. b /\ i \in 1 .. K - 1
      BY <1>1, <1>2
    <3> QED BY <3>1, <1>1, <1>2
  <2> QED BY <2>1
<1>5. 0 < e /\ e < a - 1 => v[e + 1] = Dollar
  <2> SUFFICES ASSUME 0 < e, e < a - 1 PROVE v[e + 1] = Dollar
    OBVIOUS
  <2>1. e = b - 1 /\ 0 < b /\ b < a /\ e + 1 = b /\ b \in 1 .. K - 1
    BY <1>1, <1>2
  <2> QED BY <2>1, <1>1, <1>2
<1>6. \A i \in e + 1 .. (a - 1) - 1 : Follows(v[i], v[i + 1])
  <2>1. ASSUME NEW i \in e + 1 .. (a - 1) - 1 PROVE Follows(v[i], v[i + 1])
    <3>1. i + 1 \in b + 1 .. a - 1 /\ i \in 1 .. K - 1 /\ i + 1 \in 1 .. K - 1
      BY <1>1, <1>2
    <3>2. v[i] = w[i + 1] /\ v[i + 1] = w[(i + 1) + 1] /\ Follows(w[i + 1], w[(i + 1) + 1])
      BY ONLY <3>1, <1>1, <1>2
    <3> QED BY ONLY <3>2, Zenon
  <2> QED BY <2>1
<1>7. e < a - 1 => v[a - 1] = 98
  <2> SUFFICES ASSUME e < a - 1 PROVE v[a - 1] = 98
    OBVIOUS
  <2>1. b < a /\ a - 1 \in 1 .. K - 1 /\ (a - 1) + 1 = a
    BY <1>1, <1>2
  <2> QED BY <2>1, <1>1, <1>2
<1> HIDE DEF e
<1>8. Kills(v, e, a - 1)
  BY <1>3, <1>4, <1>5, <1>6, <1>7 DEF Kills, M
<1> QED BY <1>8 DEF e

(* They stay where they are when more is sent.                             *)
LEMMA KillsStay ==
    ASSUME NEW v, NEW w, IsExtended(v, w), NEW a, NEW b, Kills(w, b, a)
    PROVE  Kills(v, b, a) /\ (a > 0 => v[1] = w[1])
<1> DEFINE K == Len(w)
           M == Len(v)
<1>1. K \in Nat /\ M \in Nat /\ K <= M /\ \A i \in 1 .. K : v[i] = w[i]
  BY DEF IsExtended
<1>2. /\ a \in 0 .. K /\ b \in 0 .. a /\ \A i \in 1 .. b : w[i] \in Noise
      /\ 0 < b /\ b < a => w[b + 1] = Dollar
      /\ \A i \in b + 1 .. a - 1 : Follows(w[i], w[i + 1])
      /\ b < a => w[a] = 98
  BY <1>1 DEF Kills
<1> HIDE DEF K, M
<1>3. a \in 0 .. M /\ (a > 0 => 1 \in 1 .. K)
  BY <1>1, <1>2
<1>4. \A i \in 1 .. b : v[i] \in Noise
  <2>1. \A i \in 1 .. b : i \in 1 .. K
    BY <1>1, <1>2
  <2> QED BY <2>1, <1>1, <1>2
<1>5. 0 < b /\ b < a => v[b + 1] = Dollar
  <2>1. b < a => b + 1 \in 1 .. K
    BY <1>1, <1>2
  <2> QED BY <2>1, <1>1, <1>2
<1>6. \A i \in b + 1 .. a - 1 : Follows(v[i], v[i + 1])
  <2>1. ASSUME NEW i \in b + 1 .. a - 1 PROVE Follows(v[i], v[i + 1])
    <3>1. i \in 1 .. K /\ i + 1 \in 1 .. K
      BY <1>1, <1>2
    <3>2. v[i] = w[i] /\ v[i + 1] = w[i + 1] /\ Follows(w[i], w[i + 1])
      BY ONLY <3>1, <2>1, <1>1, <1>2
    <3> QED BY ONLY <3>2, Zenon
  <2> QED BY <2>1
<1>7. b < a => v[a] = 98
  <2>1. b < a => a \in 1 .. K
    BY <1>1, <1>2
  <2> QED BY <2>1, <1>1, <1>2
<1> QED BY <1>1, <1>2, <1>3, <1>4, <1>5, <1>6, <1>7 DEF Kills, M

(* One more kill request.                                                  *)
LEMMA KillsGrow ==
    ASSUME NEW v, NEW w, IsExtended(v, w), NEW b, Kills(w, b, Len(w)),
           Len(v) = Len(w) + 5, v[Len(w) + 1] = Dollar, v[Len(w) + 2] = KillRequest,
           v[Len(w) + 3] = Hash, v[Len(w) + 4] = 54, v[Len(w) + 5] = 98
    PROVE  Kills(v, b, Len(w) + 5)
<1> DEFINE K == Len(w)
<1>1. K \in Nat /\ \A i \in 1 .. K : v[i] = w[i]
  BY DEF IsExtended
<1>2. /\ b \in 0 .. K /\ \A i \in 1 .. b : w[i] \in Noise
      /\ 0 < b /\ b < K => w[b + 1] = Dollar
      /\ \A i \in b + 1 .. K - 1 : Follows(w[i], w[i + 1])
      /\ b < K => w[K] = 98
  BY <1>1 DEF Kills
<1> HIDE DEF K
<1>3. v[K + 1] = Dollar /\ v[K + 2] = KillRequest /\ v[K + 3] = Hash /\ v[K + 4] = 54
      /\ v[K + 5] = 98 /\ Len(v) = K + 5
  BY DEF K
<1>4. K + 5 \in 0 .. Len(v) /\ b \in 0 .. K + 5 /\ K + 5 > b
  BY <1>1, <1>2, <1>3
<1>5. \A i \in 1 .. b : v[i] \in Noise
  <2>1. \A i \in 1 .. b : i \in 1 .. K
    BY <1>1, <1>2
  <2> QED BY <2>1, <1>1, <1>2
<1>6. 0 < b => v[b + 1] = Dollar
  <2>1. CASE b = K
    BY <2>1, <1>3
  <2>2. CASE b # K
    <3>1. b < K /\ b + 1 \in 1 .. K
      BY <2>2, <1>1, <1>2
    <3> QED BY <3>1, <1>1, <1>2
  <2> QED BY <2>1, <2>2
<1>7. ASSUME NEW i \in b + 1 .. (K + 5) - 1 PROVE Follows(v[i], v[i + 1])
  <2>1. CASE i < K
    <3>1. i \in 1 .. K /\ i + 1 \in 1 .. K /\ i \in b + 1 .. K - 1
      BY <2>1, <1>1, <1>2
    <3>2. v[i] = w[i] /\ v[i + 1] = w[i + 1] /\ Follows(w[i], w[i + 1])
      BY ONLY <3>1, <1>1, <1>2
    <3> QED BY ONLY <3>2, Zenon
  <2>2. CASE i = K
    <3>1. b < K /\ K \in 1 .. K
      BY <2>2, <1>1, <1>2
    <3>2. v[i] = 98 /\ v[i + 1] = Dollar
      BY <3>1, <2>2, <1>1, <1>2, <1>3
    <3> QED BY <3>2 DEF Follows
  <2>3. CASE i > K
    <3>1. i = K + 1 \/ i = K + 2 \/ i = K + 3 \/ i = K + 4
      BY <2>3, <1>1, <1>2
    <3>2. (K + 1) + 1 = K + 2 /\ (K + 2) + 1 = K + 3 /\ (K + 3) + 1 = K + 4
          /\ (K + 4) + 1 = K + 5
      BY <1>1
    <3>3. CASE i = K + 1
      BY ONLY <3>3, <3>2, <1>3 DEF Follows
    <3>4. CASE i = K + 2
      BY ONLY <3>4, <3>2, <1>3 DEF Follows
    <3>5. CASE i = K + 3
      BY ONLY <3>5, <3>2, <1>3 DEF Follows
    <3>6. CASE i = K + 4
      BY ONLY <3>6, <3>2, <1>3 DEF Follows
    <3> QED BY ONLY <3>1, <3>3, <3>4, <3>5, <3>6
  <2> QED BY <2>1, <2>2, <2>3, <1>1, <1>2
<1>8. Kills(v, b, K + 5)
  BY <1>3, <1>4, <1>5, <1>6, <1>7 DEF Kills
<1> QED BY <1>8 DEF K

(* The same of a text, with or without the end of the packet.              *)
LEMMA TextMovesUp ==
    ASSUME NEW v, NEW w, IsTail(v, w), NEW a \in Int, NEW t \in Chars, TextOn(w, a, t)
    PROVE  TextOn(v, a - 1, t)
<1> DEFINE K == Len(w)
           L == Len(t)
<1>1. K \in Nat \ {0} /\ Len(v) = K - 1 /\ \A i \in 1 .. K - 1 : v[i] = w[i + 1]
  BY DEF IsTail
<1>2. L \in Nat
  BY LenProperties DEF Chars
<1>3. /\ a + L + 1 <= K /\ (a >= 0 => w[a + 1] = Dollar)
      /\ \A i \in 1 .. L : a + 1 + i >= 1 => w[a + 1 + i] = t[i]
  BY DEF TextOn
<1> HIDE DEF K, L
<1>4. a - 1 + L + 1 <= Len(v)
  BY <1>1, <1>2, <1>3
<1>5. a - 1 >= 0 => v[a - 1 + 1] = Dollar
  <2> SUFFICES ASSUME a - 1 >= 0 PROVE v[a - 1 + 1] = Dollar
    OBVIOUS
  <2>1. a \in 1 .. K - 1 /\ a - 1 + 1 = a /\ a >= 0
    BY <1>1, <1>2, <1>3
  <2> QED BY <2>1, <1>1, <1>3
<1>6. ASSUME NEW i \in 1 .. L, a - 1 + 1 + i >= 1 PROVE v[a - 1 + 1 + i] = t[i]
  <2>1. a + i \in 1 .. K - 1 /\ a - 1 + 1 + i = a + i /\ (a + i) + 1 = a + 1 + i
        /\ a + 1 + i >= 1
    BY <1>1, <1>2, <1>3, <1>6
  <2> QED BY <2>1, <1>1, <1>3
<1> QED BY <1>4, <1>5, <1>6 DEF TextOn, L

(* The same of a packet.                                                   *)
LEMMA PacketMovesUp ==
    ASSUME NEW v, NEW w, IsTail(v, w), NEW a \in Int, NEW t \in Chars, NEW d,
           PacketOn(w, a, t, d)
    PROVE  PacketOn(v, a - 1, t, d)
<1> DEFINE K == Len(w)
           L == Len(t)
<1>1. K \in Nat \ {0} /\ Len(v) = K - 1 /\ \A i \in 1 .. K - 1 : v[i] = w[i + 1]
  BY DEF IsTail
<1>2. L \in Nat /\ TextOn(v, a - 1, t)
  BY LenProperties, TextMovesUp DEF Chars, PacketOn
<1>3. /\ a + L + 3 <= K /\ (a + L + 2 >= 1 => w[a + L + 2] = Hash)
      /\ (a + L + 3 >= 1 => w[a + L + 3] = d)
  BY DEF PacketOn
<1> HIDE DEF K, L
<1>4. a - 1 + L + 3 <= Len(v)
  BY <1>1, <1>2, <1>3
<1>5. a - 1 + L + 2 >= 1 => v[a - 1 + L + 2] = Hash
  <2> SUFFICES ASSUME a - 1 + L + 2 >= 1 PROVE v[a - 1 + L + 2] = Hash
    OBVIOUS
  <2>1. a + L + 1 \in 1 .. K - 1 /\ a - 1 + L + 2 = a + L + 1 /\ (a + L + 1) + 1 = a + L + 2
        /\ a + L + 2 >= 1
    BY <1>1, <1>2, <1>3
  <2> QED BY <2>1, <1>1, <1>3
<1>6. a - 1 + L + 3 >= 1 => v[a - 1 + L + 3] = d
  <2> SUFFICES ASSUME a - 1 + L + 3 >= 1 PROVE v[a - 1 + L + 3] = d
    OBVIOUS
  <2>1. a + L + 2 \in 1 .. K - 1 /\ a - 1 + L + 3 = a + L + 2 /\ (a + L + 2) + 1 = a + L + 3
        /\ a + L + 3 >= 1
    BY <1>1, <1>2, <1>3
  <2> QED BY <2>1, <1>1, <1>3
<1> QED BY <1>2, <1>4, <1>5, <1>6 DEF PacketOn, L

(* A text stays.                                                           *)
LEMMA TextStays ==
    ASSUME NEW v, NEW w, IsExtended(v, w), NEW a \in Int, NEW t \in Chars, TextOn(w, a, t)
    PROVE  TextOn(v, a, t)
<1> DEFINE K == Len(w)
           L == Len(t)
<1>1. K \in Nat /\ Len(v) \in Nat /\ K <= Len(v) /\ \A i \in 1 .. K : v[i] = w[i]
  BY DEF IsExtended
<1>2. L \in Nat
  BY LenProperties DEF Chars
<1>3. /\ a + L + 1 <= K /\ (a >= 0 => w[a + 1] = Dollar)
      /\ \A i \in 1 .. L : a + 1 + i >= 1 => w[a + 1 + i] = t[i]
  BY DEF TextOn
<1> HIDE DEF K, L
<1>4. a + L + 1 <= Len(v)
  BY <1>1, <1>2, <1>3
<1>5. a >= 0 => a + 1 \in 1 .. K
  BY <1>1, <1>2, <1>3
<1>6. ASSUME NEW i \in 1 .. L, a + 1 + i >= 1 PROVE v[a + 1 + i] = t[i]
  <2>1. a + 1 + i \in 1 .. K
    BY <1>1, <1>2, <1>3, <1>6
  <2> QED BY <2>1, <1>1, <1>3, <1>6
<1>7. a >= 0 => v[a + 1] = Dollar
  BY <1>1, <1>3, <1>5
<1> QED BY <1>4, <1>6, <1>7 DEF TextOn, L

(* And a packet.                                                           *)
LEMMA PacketStays ==
    ASSUME NEW v, NEW w, IsExtended(v, w), NEW a \in Int, NEW t \in Chars, NEW d,
           PacketOn(w, a, t, d)
    PROVE  PacketOn(v, a, t, d)
<1> DEFINE K == Len(w)
           L == Len(t)
<1>1. K \in Nat /\ Len(v) \in Nat /\ K <= Len(v) /\ \A i \in 1 .. K : v[i] = w[i]
  BY DEF IsExtended
<1>2. L \in Nat /\ TextOn(v, a, t)
  BY LenProperties, TextStays DEF Chars, PacketOn
<1>3. /\ a + L + 3 <= K /\ (a + L + 2 >= 1 => w[a + L + 2] = Hash)
      /\ (a + L + 3 >= 1 => w[a + L + 3] = d)
  BY DEF PacketOn
<1> HIDE DEF K, L
<1>4. a + L + 3 <= Len(v) /\ (a + L + 2 >= 1 => a + L + 2 \in 1 .. K)
      /\ (a + L + 3 >= 1 => a + L + 3 \in 1 .. K)
  BY <1>1, <1>2, <1>3
<1>5. (a + L + 2 >= 1 => v[a + L + 2] = Hash) /\ (a + L + 3 >= 1 => v[a + L + 3] = d)
  BY <1>1, <1>3, <1>4
<1> QED BY <1>2, <1>4, <1>5 DEF PacketOn, L

-----------------------------------------------------------------------------
(* The bridge reads what comes first.                                      *)

(* A character at the beginning of kill requests, and what is left of them.*)
LEMMA FirstOfKills ==
    ASSUME NEW v, NEW w, IsTail(v, w), NEW a, NEW b, a > 0, Kills(w, b, a)
    PROVE  /\ Len(w) \in Nat \ {0} /\ a \in Nat \ {0} /\ b \in 0 .. a
           /\ b = 0 => Kills(v, 0, a - 1)
           /\ b # 0 => Kills(v, b - 1, a - 1) /\ w[1] \in Noise
           /\ b = 0 /\ a = 1 => w[1] = 98
           /\ b = 0 /\ a # 1 => Follows(w[1], v[1])
           /\ b = 1 /\ a # 1 => v[1] = Dollar
<1> DEFINE K == Len(w)
<1>1. K \in Nat \ {0} /\ \A i \in 1 .. K - 1 : v[i] = w[i + 1]
  BY DEF IsTail
<1>2. /\ a \in 1 .. K /\ b \in 0 .. a /\ \A i \in 1 .. b : w[i] \in Noise
      /\ 0 < b /\ b < a => w[b + 1] = Dollar
      /\ \A i \in b + 1 .. a - 1 : Follows(w[i], w[i + 1])
      /\ b < a => w[a] = 98
  BY <1>1 DEF Kills
<1> HIDE DEF K
<1>3. b = 0 => Kills(v, 0, a - 1)
  BY KillsMoveUp
<1>4. b # 0 => Kills(v, b - 1, a - 1)
  BY KillsMoveUp
<1>5. b # 0 => w[1] \in Noise
  BY <1>1, <1>2
<1>6. b = 0 /\ a = 1 => w[1] = 98
  BY <1>1, <1>2
<1>7. a # 1 => 1 \in 1 .. K - 1 /\ v[1] = w[1 + 1]
  BY <1>1, <1>2
<1>8. b = 0 /\ a # 1 => Follows(w[1], v[1])
  <2>1. b = 0 /\ a # 1 => 1 \in b + 1 .. a - 1
    BY <1>1, <1>2
  <2>2. b = 0 /\ a # 1 => Follows(w[1], w[1 + 1])
    BY <2>1, <1>2
  <2> QED BY <2>2, <1>7
<1>9. b = 1 /\ a # 1 => v[1] = Dollar
  BY <1>1, <1>2, <1>7
<1> QED BY <1>1, <1>2, <1>3, <1>4, <1>5, <1>6, <1>8, <1>9 DEF K

(* Lead, with names for its bounds.                                        *)
LEMMA LeadParts ==
    ASSUME NEW a, Lead(a)
    PROVE  \E b, c : b \in 0 .. a /\ c = toBridge[1] /\ Kills(toBridge, b, a) /\ Ready(c, b, a)
BY DEF Lead

(* The same, after a step.                                                 *)
LEMMA LeadAgain ==
    ASSUME NEW a \in Nat, NEW b \in 0 .. a, NEW c, NEW w, w = toBridge', a > 0 => c = w[1],
           Kills(w, b, a), Ready(c, b, a)'
    PROVE  Lead(a)'
<1>1. Kills(toBridge', b, a) /\ Ready(toBridge[1], b, a)'
  BY DEF Ready, AwaitsKill, Idling
<1> QED BY <1>1 DEF Lead

(* The kill request goes on, or is complete, when one of its characters    *)
(* has been read.                                                          *)
LEMMA KillStep ==
    ASSUME PacketsTypeOK, NEW c, toBridge # <<>>, c = toBridge[1], AwaitsKill(c),
           GetPacket \/ Acknowledged \/ (kill_request), NEW d
    PROVE  /\ UNCHANGED <<client, history>>
           /\ \/ toBridge' = toBridge /\ AwaitsKill(c)'
              \/ /\ toBridge' = Tail(toBridge)
                 /\ c = 98 => Idling'
                 /\ Follows(c, d) => AwaitsKill(d)'
<1>1. Char = c
  BY TailIsTail DEF PacketsTypeOK, Char
<1>2. Len(Kill) = 1 /\ Head(Kill) = KillRequest /\ Append(<<>>, KillRequest) = Kill
  BY DEF Kill
<1> USE DEF Dollar, Hash, KillRequest, GDB_RSP_BREAK_CMD, EndOfFile, Plus, Minus
<1>3. CASE BeginPacket
  BY <1>3 DEF BeginPacket, receiver, wires, client, history, AwaitsKill, Starting
<1>4. CASE SkipCharacter
  BY <1>1, <1>4 DEF SkipCharacter, MaySkip, AwaitsKill, Starting
<1>5. CASE StartOfPacket
  BY <1>1, <1>5 DEF StartOfPacket, Reads, client, history, AwaitsKill, Starting, Follows, Idling
<1>6. CASE BreakCommand
  BY <1>1, <1>6 DEF BreakCommand, AwaitsKill, Starting
<1>7. CASE BodyCharacter
  <2>1. pc = "body" /\ c # Hash /\ toBridge' = Tail(toBridge) /\ pc' = "body"
        /\ buf' = Append(buf, c) /\ UNCHANGED <<client, history>>
    BY <1>1, <1>7 DEF BodyCharacter, Reads, client, history
  <2>2. buf = <<>> /\ c = KillRequest
    BY <2>1 DEF AwaitsKill, Starting
  <2>3. buf' = Kill
    BY <2>1, <2>2, <1>2
  <2> QED BY <2>1, <2>2, <2>3 DEF AwaitsKill, Follows
<1>8. CASE EndOfBody
  <2>1. pc = "body" /\ c = Hash /\ toBridge' = Tail(toBridge) /\ pc' = "sum1"
        /\ buf' = buf /\ UNCHANGED <<client, history>>
    BY <1>1, <1>8 DEF EndOfBody, Reads, receiver, client, history
  <2>2. buf = Kill
    BY <2>1 DEF AwaitsKill, Starting
  <2> QED BY <2>1, <2>2 DEF AwaitsKill, Follows
<1>9. CASE FirstDigit
  <2>1. pc = "sum1" /\ toBridge' = Tail(toBridge) /\ pc' = "sum2" /\ digit' = c
        /\ buf' = buf /\ UNCHANGED <<client, history>>
    BY <1>1, <1>9 DEF FirstDigit, Reads, client, history
  <2>2. buf = Kill /\ c = 54
    BY <2>1 DEF AwaitsKill, Starting
  <2> QED BY <2>1, <2>2 DEF AwaitsKill, Follows
<1>10. CASE EndOfPacket
  <2>1. pc = "sum2" /\ toBridge' = Tail(toBridge) /\ pc' = "handling" /\ buf' = buf
        /\ started' = (IF buf = <<KillRequest>> THEN started ELSE started + 1)
        /\ UNCHANGED <<client, answered>>
    BY <1>1, <1>10 DEF EndOfPacket, Received, Reads, client
  <2>2. buf = Kill /\ c = 98
    BY <2>1 DEF AwaitsKill, Starting
  <2>3. started' = started
    BY <2>1, <2>2 DEF Kill
  <2> QED BY <2>1, <2>2, <2>3 DEF AwaitsKill, Follows, Idling, history, Starting
<1>11. CASE Acknowledged
  BY <1>11 DEF Acknowledged, AwaitsKill, Starting
<1>12. CASE kill_request
  BY <1>12 DEF kill_request, Handles, receiver, wires, client, history, AwaitsKill, Starting
<1> QED BY <1>3, <1>4, <1>5, <1>6, <1>7, <1>8, <1>9, <1>10, <1>11, <1>12 DEF GetPacket

(* Reading what comes first leaves the rest of it.                         *)
LEMMA LeadStep ==
    ASSUME PacketsTypeOK, NEW a \in Nat \ {0}, Lead(a),
           GetPacket \/ Acknowledged \/ kill_request
    PROVE  /\ UNCHANGED <<client, history>>
           /\ \/ toBridge' = toBridge /\ Lead(a)'
              \/ toBridge # <<>> /\ toBridge' = Tail(toBridge) /\ Lead(a - 1)'
<1>1. PICK b, c : b \in 0 .. a /\ c = toBridge[1] /\ Kills(toBridge, b, a) /\ Ready(c, b, a)
  BY LeadParts
<1>2. PICK w, v, d : w = toBridge /\ v = Tail(toBridge) /\ d = v[1]
  OBVIOUS
<1>3. w \in Seq(0 .. 256) /\ w # <<>>
  <2>1. w \in Seq(0 .. 256)
    BY <1>2 DEF PacketsTypeOK
  <2>2. a \in 0 .. Len(w)
    BY <1>1, <1>2 DEF Kills
  <2>3. Len(w) # 0
    BY <2>2
  <2> QED BY <2>1, <2>3, EmptySeq
<1>4. IsTail(v, w) /\ Head(w) = c
  BY <1>1, <1>2, <1>3, TailIsTail
<1>5. /\ b = 0 => Kills(v, 0, a - 1)
      /\ b # 0 => Kills(v, b - 1, a - 1) /\ c \in Noise
      /\ b = 0 /\ a = 1 => c = 98
      /\ b = 0 /\ a # 1 => Follows(c, d)
      /\ b = 1 /\ a # 1 => d = Dollar
  <2>1. c = w[1] /\ d = v[1] /\ Kills(w, b, a) /\ a > 0
    BY <1>1, <1>2
  <2>2. /\ b = 0 => Kills(v, 0, a - 1)
        /\ b # 0 => Kills(v, b - 1, a - 1) /\ w[1] \in Noise
        /\ b = 0 /\ a = 1 => w[1] = 98
        /\ b = 0 /\ a # 1 => Follows(w[1], v[1])
        /\ b = 1 /\ a # 1 => v[1] = Dollar
    BY ONLY <2>1, <1>4, FirstOfKills
  <2> QED BY ONLY <2>1, <2>2, Zenon
<1>6. a - 1 \in Nat /\ a > 0 /\ a \in Nat /\ 0 \in 0 .. a /\ 0 \in 0 .. a - 1
      /\ (b # 0 => b > 0 /\ b - 1 \in 0 .. a - 1)
  BY <1>1
<1> DEFINE Unread == toBridge' = toBridge /\ Lead(a)'
           Read == toBridge # <<>> /\ toBridge' = Tail(toBridge) /\ Lead(a - 1)'
<1>7. ASSUME toBridge' = toBridge, Ready(c, b, a)' PROVE Unread
  <2>1. w = toBridge' /\ c = w[1] /\ Kills(w, b, a)
    BY <1>1, <1>2, <1>7
  <2> QED BY <1>7, <2>1, <1>1, <1>6, LeadAgain
<1>8. ASSUME toBridge' = Tail(toBridge), NEW e \in 0 .. a - 1, Kills(v, e, a - 1),
             Ready(d, e, a - 1)'
      PROVE  Read
  <2>1. v = toBridge' /\ d = v[1]
    BY <1>2, <1>8
  <2>2. Lead(a - 1)'
    BY <1>8, <2>1, <1>6, LeadAgain
  <2> QED BY <2>2, <1>2, <1>3, <1>8
<1> HIDE DEF Read, Unread
<1>9. CASE b = 0
  <2>1. AwaitsKill(c)
    BY <1>1, <1>6, <1>9 DEF Ready
  <2>2. /\ UNCHANGED <<client, history>>
        /\ \/ toBridge' = toBridge /\ AwaitsKill(c)'
           \/ /\ toBridge' = Tail(toBridge)
              /\ c = 98 => Idling'
              /\ Follows(c, d) => AwaitsKill(d)'
    BY <2>1, <1>1, <1>2, <1>3, KillStep
  <2>3. CASE toBridge' = toBridge /\ AwaitsKill(c)'
    <3>1. Ready(c, b, a)'
      BY <2>3, <1>6, <1>9 DEF Ready
    <3> QED BY <3>1, <2>2, <2>3, <1>7 DEF Unread
  <2>4. CASE toBridge' = Tail(toBridge) /\ (c = 98 => Idling') /\ (Follows(c, d) => AwaitsKill(d)')
    <3>1. Ready(d, 0, a - 1)'
      <4>1. CASE a = 1
        BY <4>1, <2>4, <1>5, <1>9 DEF Ready
      <4>2. CASE a # 1
        <5>1. AwaitsKill(d)' /\ a - 1 # 0
          BY <4>2, <2>4, <1>5, <1>9
        <5> QED BY <5>1 DEF Ready
      <4> QED BY <4>1, <4>2
    <3>2. Read
      BY <3>1, <2>4, <1>5, <1>6, <1>8, <1>9
    <3> QED BY <3>2, <2>2 DEF Read
  <2> QED BY <2>2, <2>3, <2>4
<1>10. CASE b # 0
  <2>1. b > 0 /\ c \in Noise /\ Char = c
        /\ \/ is_first_packet /\ pc \in Starting
           \/ b = 1 /\ pc \in Acking /\ c = Plus
    <3>1. b > 0 /\ c \in Noise /\ Head(toBridge) = c
      BY <1>2, <1>4, <1>5, <1>6, <1>10
    <3>2. \/ is_first_packet /\ pc \in Starting
          \/ b = 1 /\ pc \in Acking /\ c = Plus
      BY <3>1, <1>1 DEF Ready
    <3> QED BY <3>1, <3>2 DEF Char
  <2>2. c \notin {Dollar, GDB_RSP_BREAK_CMD}
    BY <2>1 DEF Noise, Plus, Minus, Dollar, GDB_RSP_BREAK_CMD
  <2>3. \/ BeginPacket /\ is_first_packet /\ pc \in Starting
        \/ SkipCharacter /\ is_first_packet /\ pc \in Starting
        \/ Acknowledged /\ b = 1 /\ pc \in Acking
    <3>1. ~StartOfPacket /\ ~BreakCommand
      BY <2>1, <2>2 DEF StartOfPacket, BreakCommand
    <3>2. ~BodyCharacter /\ ~EndOfBody /\ ~FirstDigit /\ ~EndOfPacket /\ ~kill_request
      BY <2>1 DEF BodyCharacter, EndOfBody, FirstDigit, EndOfPacket, kill_request, Handles,
                  Starting, Acking
    <3>3. BeginPacket \/ SkipCharacter => pc \in Starting /\ pc \notin Acking
      BY DEF BeginPacket, SkipCharacter, Starting, Acking
    <3>4. Acknowledged => pc \in Acking /\ pc \notin Starting
      BY DEF Acknowledged, Starting, Acking
    <3> QED BY <2>1, <3>1, <3>2, <3>3, <3>4 DEF GetPacket
  <2>4. CASE BeginPacket /\ is_first_packet /\ pc \in Starting
    <3>1. /\ toBridge' = toBridge /\ UNCHANGED <<client, history>>
          /\ is_first_packet' /\ pc' \in Starting
      BY <2>4 DEF BeginPacket, wires, receiver, Starting
    <3>2. Ready(c, b, a)'
      BY <3>1, <1>6, <1>10 DEF Ready
    <3> QED BY <3>1, <3>2, <1>7 DEF Unread
  <2>5. CASE SkipCharacter /\ is_first_packet /\ pc \in Starting
    <3>1. /\ toBridge' = Tail(toBridge) /\ UNCHANGED <<client, history>>
          /\ is_first_packet' /\ pc' \in Starting
      BY <2>5 DEF SkipCharacter, Reads, receiver
    <3>2. Ready(d, b - 1, a - 1)'
      <4>1. b - 1 > 0 => is_first_packet' /\ pc' \in Starting
        BY <3>1
      <4>2. b - 1 = 0 /\ a - 1 > 0 => d = Dollar
        <5>1. b - 1 = 0 /\ a - 1 > 0 => b = 1 /\ a # 1
          BY <1>1
        <5> QED BY <5>1, <1>5
      <4>3. b - 1 = 0 /\ a - 1 > 0 => AwaitsKill(d)'
        BY <4>2, <3>1 DEF AwaitsKill
      <4> QED BY <3>1, <4>1, <4>3 DEF Ready, Idling
    <3>3. Read
      BY <3>1, <3>2, <1>5, <1>6, <1>8, <1>10
    <3> QED BY <3>1, <3>3 DEF Read
  <2>6. CASE Acknowledged /\ b = 1 /\ pc \in Acking
    <3>1. toBridge' = Tail(toBridge) /\ UNCHANGED <<client, history>> /\ pc' \in Starting
      BY <2>6 DEF Acknowledged, Reads, Starting
    <3>2. Ready(d, 0, a - 1)'
      <4>1. a - 1 > 0 => d = Dollar
        BY <1>5, <2>6
      <4>2. a - 1 > 0 => AwaitsKill(d)'
        BY <4>1, <3>1 DEF AwaitsKill
      <4> QED BY <3>1, <4>2 DEF Ready, Idling
    <3>3. Kills(v, 0, a - 1)
      BY <1>5, <1>10, <2>6
    <3>4. Read
      BY <3>1, <3>2, <3>3, <1>6, <1>8
    <3> QED BY <3>1, <3>4 DEF Read
  <2> QED BY <2>3, <2>4, <2>5, <2>6
<1> QED BY <1>9, <1>10

(* No characters come first.                                               *)
LEMMA NoLead ==
    /\ Lead(0) => Idling
    /\ toBridge \in Seq(0 .. 256) /\ Idling => Lead(0)
<1>1. Lead(0) => Idling
  BY DEF Lead, Ready
<1>2. ASSUME toBridge \in Seq(0 .. 256), Idling PROVE Lead(0)
  <2>1. Len(toBridge) \in Nat
    BY <1>2, LenProperties
  <2>2. Kills(toBridge, 0, 0)
    BY <2>1 DEF Kills
  <2>3. Ready(toBridge[1], 0, 0)
    BY <1>2 DEF Ready
  <2> QED BY <2>2, <2>3 DEF Lead
<1> QED BY <1>1, <1>2

(* The same, after a step.                                                 *)
LEMMA NoLeadAgain == toBridge' \in Seq(0 .. 256) /\ Idling' => Lead(0)'
<1> SUFFICES (toBridge \in Seq(0 .. 256) /\ Idling => Lead(0))'
  OBVIOUS
<1>1. toBridge \in Seq(0 .. 256) /\ Idling => Lead(0)
  BY NoLead
<1> QED BY <1>1, PTL

(* The bridge reads when nothing comes first.                              *)
LEMMA IdleStep ==
    ASSUME PacketsTypeOK, Lead(0), GetPacket \/ Acknowledged \/ kill_request
    PROVE  /\ UNCHANGED client
           /\ \/ toBridge' = toBridge /\ Lead(0)' /\ UNCHANGED history
              \/ /\ toBridge # <<>> /\ toBridge' = Tail(toBridge)
                 /\ \/ toBridge[1] \in Noise /\ Lead(0)' /\ UNCHANGED history
                    \/ /\ toBridge[1] = Dollar /\ UNCHANGED history
                       /\ pc' = "body" /\ buf' = <<>>
                    \/ /\ toBridge[1] = GDB_RSP_BREAK_CMD /\ pc' = "handling" /\ buf' = Break
                       /\ started' = started + 1 /\ UNCHANGED <<toGdb, answered>>
<1>1. Idling /\ toBridge \in Seq(0 .. 256)
  BY NoLead DEF PacketsTypeOK
<1>2. toBridge # <<>> => Char = toBridge[1] /\ Tail(toBridge) \in Seq(0 .. 256)
  <2>1. toBridge # <<>> => Char = toBridge[1]
    BY <1>1, TailIsTail DEF Char
  <2>2. toBridge # <<>> => Tail(toBridge) \in Seq(0 .. 256)
    BY <1>1, HeadTailProperties
  <2> QED BY <2>1, <2>2
<1>3. \/ BeginPacket \/ SkipCharacter \/ StartOfPacket \/ BreakCommand \/ kill_request
  <2>1. ~BodyCharacter /\ ~EndOfBody /\ ~FirstDigit /\ ~EndOfPacket /\ ~Acknowledged
    BY <1>1 DEF BodyCharacter, EndOfBody, FirstDigit, EndOfPacket, Acknowledged, Idling,
                Starting
  <2> QED BY <2>1 DEF GetPacket
<1>4. CASE BeginPacket
  <2>1. toBridge' = toBridge /\ UNCHANGED <<client, history>> /\ Idling'
    BY <1>4 DEF BeginPacket, wires, Idling, Starting
  <2> QED BY <2>1, <1>1, NoLeadAgain
<1>5. CASE SkipCharacter
  <2>1. /\ toBridge # <<>> /\ toBridge' = Tail(toBridge) /\ UNCHANGED <<client, history>>
        /\ Char \in Noise /\ Idling'
    BY <1>5 DEF SkipCharacter, Reads, MaySkip, Noise, Idling, Starting
  <2> QED BY <2>1, <1>2, NoLeadAgain
<1>6. CASE StartOfPacket
  BY <1>6, <1>2 DEF StartOfPacket, Reads
<1>7. CASE BreakCommand
  <2>1. /\ toBridge # <<>> /\ toBridge' = Tail(toBridge) /\ Char = GDB_RSP_BREAK_CMD
        /\ pc' = "handling" /\ buf' = <<Char>> /\ UNCHANGED <<toGdb, client, answered>>
        /\ started' = IF <<Char>> = <<KillRequest>> THEN started ELSE started + 1
    BY <1>7 DEF BreakCommand, Reads, Received
  <2>2. <<Char>> = Break /\ Break # <<KillRequest>>
    BY <2>1 DEF Break, GDB_RSP_BREAK_CMD, KillRequest
  <2> QED BY <2>1, <2>2, <1>2
<1>8. CASE kill_request
  <2>1. toBridge' = toBridge /\ UNCHANGED <<client, history>> /\ Idling'
    BY <1>8 DEF kill_request, wires, Idling, Starting
  <2> QED BY <2>1, <1>1, NoLeadAgain
<1> QED BY <1>3, <1>4, <1>5, <1>6, <1>7, <1>8

-----------------------------------------------------------------------------
(* The bridge reads a packet.                                              *)

(* Beginnings of a text.                                                   *)
LEMMA Beginnings ==
    ASSUME NEW t \in Chars
    PROVE  /\ Len(t) \in Nat /\ SubSeq(t, 1, 0) = <<>> /\ SubSeq(t, 1, Len(t)) = t
           /\ \A n \in 1 .. Len(t) :
                 t[n] \in 0 .. 255 /\ SubSeq(t, 1, n) = Append(SubSeq(t, 1, n - 1), t[n])
<1>1. Len(t) \in Nat /\ \A n \in 1 .. Len(t) : t[n] \in 0 .. 255
  BY LenProperties, ElementOfSeq DEF Chars
<1>2. SubSeq(t, 1, 0) = <<>> /\ SubSeq(t, 1, Len(t)) = t
  BY <1>1, SubSeqEmpty, SubSeqFull DEF Chars
<1>3. ASSUME NEW n \in 1 .. Len(t)
      PROVE  SubSeq(t, 1, n) = Append(SubSeq(t, 1, n - 1), t[n])
  <2>1. SubSeq(t, 1, n) = SubSeq(t, 1, n - 1) \o <<t[n]>>
    BY <1>1, SubSeqRecursiveSecond DEF Chars
  <2>2. SubSeq(t, 1, n - 1) \in Chars
    BY <1>1, SubSeqProperties DEF Chars
  <2>3. Append(SubSeq(t, 1, n - 1), t[n]) = SubSeq(t, 1, n - 1) \o <<t[n]>>
    BY <2>2, <1>1, AppendIsConcat DEF Chars
  <2> QED BY <2>1, <2>3
<1> QED BY <1>1, <1>2, <1>3

(* What is read is the first character of the wire.                        *)
LEMMA FirstIsRead ==
    ASSUME PacketsTypeOK, toBridge # <<>>
    PROVE  /\ Char = toBridge[1] /\ IsTail(Tail(toBridge), toBridge)
           /\ toBridge \in Seq(0 .. 256) /\ Tail(toBridge) \in Seq(0 .. 256)
           /\ Len(toBridge) \in Nat \ {0}
<1>1. toBridge \in Seq(0 .. 256)
  BY DEF PacketsTypeOK
<1>2. Char = toBridge[1] /\ IsTail(Tail(toBridge), toBridge)
  BY <1>1, TailIsTail DEF Char
<1>3. Tail(toBridge) \in Seq(0 .. 256)
  BY <1>1, HeadTailProperties
<1> QED BY <1>1, <1>2, <1>3 DEF IsTail

(* A text, up to its last character.                                       *)
LEMMA TextStep ==
    ASSUME PacketsTypeOK, NEW t \in Texts, NEW a \in Int, a > -(Len(t) + 1),
           TextReached(a, t), TextOn(toBridge, a, t),
           GetPacket \/ Acknowledged \/ kill_request
    PROVE  /\ UNCHANGED <<client, history>>
           /\ \/ toBridge' = toBridge /\ TextReached(a, t)'
              \/ /\ toBridge # <<>> /\ toBridge' = Tail(toBridge)
                 /\ TextReached(a - 1, t)' /\ TextOn(toBridge', a - 1, t)
<1> DEFINE L == Len(t)
<1>1. t \in Chars /\ L \in Nat /\ \A i \in 1 .. L : t[i] # Hash
  BY LenProperties DEF Texts, Chars
<1>2. /\ a + L + 1 <= Len(toBridge) /\ (a >= 0 => toBridge[a + 1] = Dollar)
      /\ \A i \in 1 .. L : a + 1 + i >= 1 => toBridge[a + 1 + i] = t[i]
  BY DEF TextOn
<1> HIDE DEF L
<1>3. toBridge # <<>>
  <2>1. Len(toBridge) \in Nat
    BY LenProperties DEF PacketsTypeOK
  <2>2. a + L + 1 > 0
    BY <1>1 DEF L
  <2>3. Len(toBridge) # 0
    BY <2>1, <2>2, <1>1, <1>2
  <2> QED BY <2>3, EmptySeq DEF PacketsTypeOK
<1>4. Char = toBridge[1] /\ TextOn(Tail(toBridge), a - 1, t)
  BY <1>1, <1>3, FirstIsRead, TextMovesUp
<1>5. CASE a > 0
  <2>1. a \in Nat \ {0} /\ Lead(a) /\ a - 1 >= 0 /\ a >= 0
    BY <1>5 DEF TextReached
  <2>2. /\ UNCHANGED <<client, history>>
        /\ \/ toBridge' = toBridge /\ Lead(a)'
           \/ toBridge # <<>> /\ toBridge' = Tail(toBridge) /\ Lead(a - 1)'
    BY <2>1, LeadStep
  <2> QED BY <2>1, <2>2, <1>4 DEF TextReached
<1>6. CASE a = 0
  <2>1. Lead(0) /\ toBridge[1] = Dollar
    BY <1>2, <1>6 DEF TextReached
  <2>2. Dollar \notin Noise /\ Dollar # GDB_RSP_BREAK_CMD
    BY DEF Dollar, Noise, Plus, Minus, GDB_RSP_BREAK_CMD
  <2>3. /\ UNCHANGED client
        /\ \/ toBridge' = toBridge /\ Lead(0)' /\ UNCHANGED history
           \/ /\ toBridge' = Tail(toBridge) /\ UNCHANGED history
              /\ pc' = "body" /\ buf' = <<>>
    BY <2>1, <2>2, IdleStep
  <2>4. Lead(0)' => TextReached(a, t)'
    BY <1>6 DEF TextReached
  <2>5. pc' = "body" /\ buf' = <<>> => TextReached(a - 1, t)'
    <3>3. Len(t) \in Nat
      BY <1>1 DEF L
    <3>1. a - 1 < 0 /\ -(a - 1) <= Len(t) + 1 /\ -(a - 1) - 1 = 0
      <4>1. -(a - 1) = 1 - a
        OBVIOUS
      <4>2. a - 1 < 0 /\ 1 - a <= Len(t) + 1 /\ 1 - a - 1 = 0
        BY ONLY <3>3, <1>6
      <4> QED BY ONLY <4>1, <4>2, Zenon
    <3>2. SubSeq(t, 1, 0) = <<>>
      BY <1>1, Beginnings
    <3> QED BY <3>1, <3>2 DEF TextReached
  <2> QED BY <2>3, <2>4, <2>5, <1>3, <1>4
<1>7. CASE a < 0
  <2>1. pc = "body" /\ buf = SubSeq(t, 1, -a - 1)
    BY <1>7 DEF TextReached
  <2>2. -a \in 1 .. L /\ a + 1 + (-a) = 1
    BY <1>1, <1>7 DEF L
  <2>3. Char = t[-a] /\ Char # Hash
    <3>1. toBridge[a + 1 + (-a)] = t[-a]
      BY <2>2, <1>2
    <3> QED BY <3>1, <2>2, <1>1, <1>4
  <2>4. BodyCharacter
    <3>1. /\ ~BeginPacket /\ ~SkipCharacter /\ ~StartOfPacket /\ ~BreakCommand
          /\ ~FirstDigit /\ ~EndOfPacket /\ ~Acknowledged /\ ~kill_request
      BY <2>1 DEF BeginPacket, SkipCharacter, StartOfPacket, BreakCommand, FirstDigit,
                  EndOfPacket, Acknowledged, kill_request, Handles
    <3>2. ~EndOfBody
      BY <2>3 DEF EndOfBody
    <3> QED BY <3>1, <3>2 DEF GetPacket
  <2>5. /\ toBridge' = Tail(toBridge) /\ pc' = "body" /\ buf' = Append(buf, Char)
        /\ UNCHANGED <<client, history>>
    BY <2>1, <2>4 DEF BodyCharacter, Reads
  <2>6. buf' = SubSeq(t, 1, -(a - 1) - 1)
    <3>1. SubSeq(t, 1, -a) = Append(SubSeq(t, 1, -a - 1), t[-a])
      BY <1>1, <2>2, Beginnings DEF L
    <3>2. -(a - 1) - 1 = -a
      OBVIOUS
    <3> QED BY <3>1, <3>2, <2>1, <2>3, <2>5
  <2>7. a - 1 < 0 /\ -(a - 1) <= Len(t) + 1
    BY <2>2, <1>1, <1>7 DEF L
  <2>8. TextReached(a - 1, t)'
    BY <2>5, <2>6, <2>7 DEF TextReached
  <2> QED BY <2>5, <2>8, <1>3, <1>4
<1> QED BY <1>5, <1>6, <1>7

(* A packet, but for its last digit.                                       *)
LEMMA PacketStep ==
    ASSUME PacketsTypeOK, NEW t \in Texts, NEW d, NEW a \in Int, a > -(Len(t) + 3),
           Reached(a, t, d), PacketOn(toBridge, a, t, d),
           GetPacket \/ Acknowledged \/ kill_request
    PROVE  /\ UNCHANGED <<client, history>>
           /\ \/ toBridge' = toBridge /\ Reached(a, t, d)'
              \/ /\ toBridge # <<>> /\ toBridge' = Tail(toBridge)
                 /\ Reached(a - 1, t, d)' /\ PacketOn(toBridge', a - 1, t, d)
<1> DEFINE L == Len(t)
<1>1. t \in Chars /\ L \in Nat /\ \A i \in 1 .. L : t[i] # Hash
  BY LenProperties DEF Texts, Chars
<1>2. /\ TextOn(toBridge, a, t) /\ a + L + 3 <= Len(toBridge)
      /\ a + L + 2 >= 1 => toBridge[a + L + 2] = Hash
      /\ a + L + 3 >= 1 => toBridge[a + L + 3] = d
  BY DEF PacketOn
<1> HIDE DEF L
<1>3. toBridge # <<>>
  <2>1. Len(toBridge) \in Nat
    BY LenProperties DEF PacketsTypeOK
  <2>2. a + L + 3 > 0
    BY <1>1 DEF L
  <2>3. Len(toBridge) # 0
    BY <2>1, <2>2, <1>1, <1>2
  <2> QED BY <2>3, EmptySeq DEF PacketsTypeOK
<1>4. Char = toBridge[1] /\ PacketOn(Tail(toBridge), a - 1, t, d)
  BY <1>1, <1>3, FirstIsRead, PacketMovesUp
<1>5. CASE a > -(L + 1)
  <2>1. TextReached(a, t)
    <3>1. a # -(Len(t) + 2) /\ a # -(Len(t) + 3)
      BY <1>1, <1>5 DEF L
    <3> QED BY <3>1 DEF Reached
  <2>2. /\ UNCHANGED <<client, history>>
        /\ \/ toBridge' = toBridge /\ TextReached(a, t)'
           \/ /\ toBridge # <<>> /\ toBridge' = Tail(toBridge)
              /\ TextReached(a - 1, t)' /\ TextOn(toBridge', a - 1, t)
    BY <2>1, <1>2, <1>5, TextStep DEF L
  <2> QED BY <2>2, <1>4 DEF Reached
<1>6. CASE a = -(L + 1)
  <2>1. pc = "body" /\ buf = t
    <3>1. a # -(Len(t) + 2) /\ a # -(Len(t) + 3) /\ a < 0 /\ ~(a >= 0) /\ -a - 1 = L
      BY <1>1, <1>6 DEF L
    <3>2. pc = "body" /\ buf = SubSeq(t, 1, -a - 1)
      BY <3>1 DEF Reached, TextReached
    <3> QED BY <3>1, <3>2, <1>1, Beginnings DEF L
  <2>2. Char = Hash
    <3>1. a + L + 2 = 1
      BY <1>1, <1>6
    <3> QED BY <3>1, <1>2, <1>4
  <2>3. EndOfBody
    <3>1. /\ ~BeginPacket /\ ~SkipCharacter /\ ~StartOfPacket /\ ~BreakCommand
          /\ ~FirstDigit /\ ~EndOfPacket /\ ~Acknowledged /\ ~kill_request
      BY <2>1 DEF BeginPacket, SkipCharacter, StartOfPacket, BreakCommand, FirstDigit,
                  EndOfPacket, Acknowledged, kill_request, Handles
    <3>2. ~BodyCharacter
      BY <2>2 DEF BodyCharacter
    <3> QED BY <3>1, <3>2 DEF GetPacket
  <2>4. /\ toBridge' = Tail(toBridge) /\ pc' = "sum1" /\ buf' = t
        /\ UNCHANGED <<client, history>>
    BY <2>1, <2>3 DEF EndOfBody, Reads, receiver
  <2>5. a - 1 = -(Len(t) + 2)
    BY <1>1, <1>6 DEF L
  <2> QED BY <2>4, <2>5, <1>3, <1>4 DEF Reached
<1>7. CASE a = -(L + 2)
  <2>1. pc = "sum1" /\ buf = t
    <3>1. a # -(Len(t) + 3) /\ ~(a >= 0) /\ ~(-a <= Len(t) + 1)
      BY <1>1, <1>7 DEF L
    <3> QED BY <3>1 DEF Reached, TextReached
  <2>2. Char = d
    <3>1. a + L + 3 = 1
      BY <1>1, <1>7
    <3> QED BY <3>1, <1>2, <1>4
  <2>3. FirstDigit
    <3>1. /\ ~BeginPacket /\ ~SkipCharacter /\ ~StartOfPacket /\ ~BreakCommand
          /\ ~BodyCharacter /\ ~EndOfBody /\ ~EndOfPacket /\ ~Acknowledged /\ ~kill_request
      BY <2>1 DEF BeginPacket, SkipCharacter, StartOfPacket, BreakCommand, BodyCharacter,
                  EndOfBody, EndOfPacket, Acknowledged, kill_request, Handles
    <3> QED BY <3>1 DEF GetPacket
  <2>4. /\ toBridge' = Tail(toBridge) /\ pc' = "sum2" /\ buf' = t /\ digit' = d
        /\ UNCHANGED <<client, history>>
    BY <2>1, <2>2, <2>3 DEF FirstDigit, Reads
  <2>5. a - 1 = -(Len(t) + 3)
    BY <1>1, <1>7 DEF L
  <2> QED BY <2>4, <2>5, <1>3, <1>4 DEF Reached
<1>8. a = -(L + 1) \/ a = -(L + 2) \/ a > -(L + 1)
  BY <1>1 DEF L
<1> QED BY <1>5, <1>6, <1>7, <1>8

(* The last digit.                                                         *)
LEMMA LastDigitStep ==
    ASSUME PacketsTypeOK, Checked, NEW t \in Texts, NEW d, NEW a \in Int, a <= -(Len(t) + 3),
           Reached(a, t, d),
           GetPacket \/ Acknowledged \/ kill_request
    PROVE  /\ toBridge # <<>> /\ toBridge' = Tail(toBridge) /\ pc = "sum2" /\ buf = t
           /\ a = -(Len(t) + 3) /\ Agree(Sum(t), d, toBridge[1])
           /\ pc' = "handling" /\ buf' = t /\ toGdb' = Append(toGdb, <<Plus>>)
           /\ started' = (IF t = Kill THEN started ELSE started + 1)
           /\ UNCHANGED <<client, answered>>
<1>1. Len(t) \in Nat
  BY LenProperties DEF Texts, Chars
<1>2. a = -(Len(t) + 3) /\ pc = "sum2" /\ buf = t /\ digit = d
  <2>1. a # -(Len(t) + 2) /\ ~(a >= 0) /\ ~(-a <= Len(t) + 1)
    BY <1>1
  <2> QED BY <2>1 DEF Reached, TextReached
<1>3. EndOfPacket
  <2>1. /\ ~BeginPacket /\ ~SkipCharacter /\ ~StartOfPacket /\ ~BreakCommand
        /\ ~BodyCharacter /\ ~EndOfBody /\ ~FirstDigit /\ ~Acknowledged /\ ~kill_request
    BY <1>2 DEF BeginPacket, SkipCharacter, StartOfPacket, BreakCommand, BodyCharacter,
                EndOfBody, FirstDigit, Acknowledged, kill_request, Handles
  <2> QED BY <2>1 DEF GetPacket
<1>4. /\ toBridge # <<>> /\ toBridge' = Tail(toBridge) /\ ChecksumMatches(Char)
      /\ pc' = "handling" /\ buf' = t /\ toGdb' = Append(toGdb, <<Plus>>)
      /\ started' = (IF t = Kill THEN started ELSE started + 1)
      /\ UNCHANGED <<client, answered>>
  BY <1>2, <1>3 DEF EndOfPacket, Reads, Received, Kill
<1>5. Char = toBridge[1]
  BY <1>4, FirstIsRead
<1>6. Agree(Sum(t), d, toBridge[1])
  BY <1>2, <1>4, <1>5 DEF ChecksumMatches, Agree, Checked
<1> QED BY <1>2, <1>4, <1>6

-----------------------------------------------------------------------------
(* What is left to the bridge when it has read a character.                *)
Receiving == GetPacket \/ Acknowledged \/ kill_request

(* What comes after moves up, too.                                         *)
LEMMA AfterMovesUp ==
    ASSUME PacketsTypeOK, toBridge # <<>>, toBridge' = Tail(toBridge), UNCHANGED client,
           NEW n \in Int, n >= 2, After(toBridge, n)
    PROVE  After(toBridge, n - 1)'
<1>1. IsTail(Tail(toBridge), toBridge)
  BY FirstIsRead
<1>2. PICK w, v : w = toBridge /\ v = Tail(toBridge) /\ v = toBridge'
  OBVIOUS
<1>3. Len(w) \in Nat \ {0} /\ Len(v) = Len(w) - 1 /\ \A i \in 1 .. Len(w) - 1 : v[i] = w[i + 1]
  BY <1>1, <1>2 DEF IsTail
<1>4. n - 1 <= Len(v) => n <= Len(w) /\ v[n - 1] = w[n]
  <2> SUFFICES ASSUME n - 1 <= Len(v) PROVE n <= Len(w) /\ v[n - 1] = w[n]
    OBVIOUS
  <2>1. n <= Len(w) /\ n - 1 \in 1 .. Len(w) - 1 /\ (n - 1) + 1 = n
    BY <1>3
  <2> QED BY <2>1, <1>3
<1>5. n <= Len(w) => w[n] # Plus /\ (IsMonitor(request) => w[n] = EndOfFile)
  BY <1>2 DEF After
<1>6. IsMonitor(request)' = IsMonitor(request)
  BY DEF client, IsMonitor
<1>7. n - 1 <= Len(v) => v[n - 1] # Plus /\ (IsMonitor(request)' => v[n - 1] = EndOfFile)
  BY ONLY <1>4, <1>5, <1>6
<1> QED BY <1>2, <1>7 DEF After

(* Characters that are all of a kind move up.                              *)
LEMMA AllMoveUp ==
    ASSUME NEW v, NEW w, IsTail(v, w), NEW a \in Int, NEW S, a >= 0,
           \A i \in a + 1 .. Len(w) : w[i] \in S
    PROVE  /\ a > 0 => \A i \in a .. Len(v) : v[i] \in S
           /\ a = 0 => \A i \in 1 .. Len(v) : v[i] \in S
<1> DEFINE K == Len(w)
<1>1. K \in Nat \ {0} /\ Len(v) = K - 1 /\ \A i \in 1 .. K - 1 : v[i] = w[i + 1]
  BY DEF IsTail
<1> HIDE DEF K
<1>2. \A i \in 1 .. K - 1 : i >= a => v[i] \in S
  <2>1. ASSUME NEW i \in 1 .. K - 1, i >= a PROVE v[i] \in S
    <3>1. i + 1 \in a + 1 .. K
      BY <2>1, <1>1
    <3> QED BY <3>1, <1>1 DEF K
  <2> QED BY <2>1
<1>3. a > 0 => \A i \in a .. K - 1 : i \in 1 .. K - 1 /\ i >= a
  BY <1>1
<1>4. a = 0 => \A i \in 1 .. K - 1 : i \in 1 .. K - 1 /\ i >= a
  BY <1>1
<1> QED BY <1>1, <1>2, <1>3, <1>4

(* What all these steps have in common.                                    *)
LEMMA WhatReadingDoes ==
    ASSUME PacketsTypeOK, Checked, Receiving
    PROVE  /\ UNCHANGED <<client, answered>> /\ Open /\ Open'
           /\ \/ toBridge' = toBridge
              \/ toBridge # <<>> /\ toBridge' = Tail(toBridge)
           /\ \/ toGdb' = toGdb
              \/ pc = "sum2" /\ toGdb' = Append(toGdb, <<Plus>>)
           /\ pc \notin {"access"} \cup Acking \/ (Acknowledged /\ toBridge[1] = Plus)
           /\ pc = "handling" => Head(buf) = KillRequest
           /\ pc \in {"body", "sum1", "sum2"} => toBridge # <<>>
           /\ Checked'
<1> USE DEF Reads, client, history, wires, receiver, Open, Acking
<1>1. CASE BeginPacket
  BY <1>1 DEF BeginPacket, Checked
<1>2. CASE SkipCharacter
  BY <1>2 DEF SkipCharacter, Checked
<1>3. CASE StartOfPacket
  <2>1. Sum(<<>>) = 0
    <3>1. <<>> \in Chars /\ Len(<<>>) = 0
      BY DEF Chars
    <3>2. PICK f : IsSumOf(<<>>, f)
      BY <3>1, SumSteps
    <3> QED BY <3>1, <3>2 DEF IsSumOf
  <2> QED BY <1>3, <2>1 DEF StartOfPacket, Checked
<1>4. CASE BreakCommand
  BY <1>4 DEF BreakCommand, Received, Checked
<1>5. CASE BodyCharacter
  <2>1. /\ pc = "body" /\ toBridge # <<>> /\ toBridge' = Tail(toBridge) /\ pc' = "body"
        /\ Char # EndOfFile /\ buf' = Append(buf, Char) /\ checksum' = (checksum + Char) % 256
        /\ UNCHANGED <<toGdb, client, history>>
    BY <1>5 DEF BodyCharacter
  <2>2. Char \in 0 .. 255
    <3>1. Char \in 0 .. 256
      <4>1. toBridge \in Seq(0 .. 256)
        BY DEF PacketsTypeOK
      <4>2. Head(toBridge) = toBridge[1] /\ toBridge[1] \in 0 .. 256
        BY ONLY <4>1, <2>1, TailIsTail
      <4> QED BY <4>2 DEF Char
    <3> QED BY <2>1, <3>1 DEF EndOfFile
  <2>3. Sum(Append(buf, Char)) = Added(Sum(buf), Char)
    BY <2>2, SumOfNext DEF PacketsTypeOK, Chars
  <2>4. checksum' = Added(Sum(buf), Char)
    BY <2>1 DEF Added, Checked
  <2>5. Checked'
    BY <2>1, <2>3, <2>4 DEF Checked
  <2> QED BY <2>1, <2>5
<1>6. CASE EndOfBody
  BY <1>6 DEF EndOfBody, Checked
<1>7. CASE FirstDigit
  BY <1>7 DEF FirstDigit, Checked
<1>8. CASE EndOfPacket
  BY <1>8 DEF EndOfPacket, Received, Checked
<1>9. CASE Acknowledged
  <2>1. Acknowledged => toBridge[1] = Plus
    BY FirstIsRead DEF Acknowledged
  <2> QED BY <1>9, <2>1 DEF Acknowledged, Checked
<1>10. CASE kill_request
  BY <1>10 DEF kill_request, Handles, Checked
<1> QED BY <1>1, <1>2, <1>3, <1>4, <1>5, <1>6, <1>7, <1>8, <1>9, <1>10
    DEF Receiving, GetPacket

(* Nothing that matters is still to come.                                  *)
LEMMA ReadingWhenCalm ==
    ASSUME PacketsTypeOK, Receiving, Calm
    PROVE  Calm'
<1>1. PICK a \in 0 .. Len(toBridge) :
        /\ Lead(a)
        /\ \A i \in a + 1 .. Len(toBridge) : toBridge[i] \in {Minus, EndOfFile}
        /\ gdb = "idle" => a = Len(toBridge)
        /\ gdb = "ack" => a = Len(toBridge) /\ request = Kill
        /\ gdb = "reply" => request = Break
  BY DEF Calm
<1> DEFINE K == Len(toBridge)
           Quiet(e, w) == \A i \in e + 1 .. Len(w) : w[i] \in {Minus, EndOfFile}
<1>2. K \in Nat
  BY LenProperties DEF PacketsTypeOK
<1>3. ASSUME UNCHANGED client, NEW e \in 0 .. Len(toBridge'), Lead(e)', Quiet(e, toBridge'),
             a = K => e = Len(toBridge')
      PROVE  Calm'
  BY <1>1, <1>3 DEF Calm, client
<1> HIDE DEF Quiet
<1>4. Quiet(a, toBridge)
  BY <1>1 DEF Quiet
<1>5. CASE a > 0
  <2>1. a \in Nat \ {0}
    BY <1>5
  <2>2. /\ UNCHANGED client
        /\ \/ toBridge' = toBridge /\ Lead(a)'
           \/ toBridge # <<>> /\ toBridge' = Tail(toBridge) /\ Lead(a - 1)'
    BY <1>1, <2>1, LeadStep DEF Receiving
  <2>3. CASE toBridge' = toBridge /\ Lead(a)'
    BY <1>1, <1>3, <1>4, <2>2, <2>3
  <2>4. CASE toBridge # <<>> /\ toBridge' = Tail(toBridge) /\ Lead(a - 1)'
    <3>1. IsTail(toBridge', toBridge)
      BY <2>4, FirstIsRead
    <3>2. Len(toBridge') = K - 1
      BY <3>1 DEF IsTail
    <3>3. Quiet(a - 1, toBridge')
      <4>1. \A i \in a .. Len(toBridge') : toBridge'[i] \in {Minus, EndOfFile}
        <5>1. PICK S : S = {Minus, EndOfFile}
          OBVIOUS
        <5>2. \A i \in a + 1 .. Len(toBridge) : toBridge[i] \in S
          BY <5>1, <1>1
        <5>4. a \in Int /\ a >= 0
          BY <2>1
        <5>3. \A i \in a .. Len(toBridge') : toBridge'[i] \in S
          BY ONLY <5>2, <5>4, <3>1, <1>5, AllMoveUp
        <5> QED BY <5>1, <5>3
      <4>2. (a - 1) + 1 = a
        BY <2>1
      <4> QED BY <4>1, <4>2 DEF Quiet
    <3>4. a - 1 \in 0 .. Len(toBridge') /\ (a = K => a - 1 = Len(toBridge'))
      BY <3>2, <2>1, <1>2
    <3> QED BY <3>3, <3>4, <2>2, <2>4, <1>3
  <2> QED BY <2>2, <2>3, <2>4
<1>6. CASE a = 0
  <2>1. /\ UNCHANGED client
        /\ \/ toBridge' = toBridge /\ Lead(0)'
           \/ /\ toBridge # <<>> /\ toBridge' = Tail(toBridge)
              /\ Lead(0)' \/ toBridge[1] \in {Dollar, GDB_RSP_BREAK_CMD}
    BY <1>1, <1>6, IdleStep DEF Receiving
  <2>2. CASE toBridge' = toBridge /\ Lead(0)'
    BY <1>1, <1>3, <1>4, <1>6, <2>1, <2>2
  <2>3. CASE /\ toBridge # <<>> /\ toBridge' = Tail(toBridge)
             /\ Lead(0)' \/ toBridge[1] \in {Dollar, GDB_RSP_BREAK_CMD}
    <3>1. IsTail(toBridge', toBridge) /\ K # 0
      BY <2>3, FirstIsRead
    <3>2. toBridge[1] \in {Minus, EndOfFile}
      BY <1>1, <1>2, <1>6, <3>1
    <3>3. Lead(0)'
      BY <2>3, <3>2 DEF Minus, EndOfFile, Dollar, GDB_RSP_BREAK_CMD
    <3>4. Quiet(0, toBridge')
      <4>1. \A i \in 1 .. Len(toBridge') : toBridge'[i] \in {Minus, EndOfFile}
        <5>1. PICK S : S = {Minus, EndOfFile}
          OBVIOUS
        <5>2. \A i \in a + 1 .. Len(toBridge) : toBridge[i] \in S
          BY <5>1, <1>1
        <5>4. a \in Int /\ a >= 0
          BY <1>6
        <5>3. \A i \in 1 .. Len(toBridge') : toBridge'[i] \in S
          BY ONLY <5>2, <5>4, <3>1, <1>6, AllMoveUp
        <5> QED BY <5>1, <5>3
      <4> QED BY <4>1 DEF Quiet
    <3>5. 0 \in 0 .. Len(toBridge')
      BY <3>1, <1>2 DEF IsTail
    <3> QED BY <3>1, <3>3, <3>4, <3>5, <2>1, <1>3, <1>6
  <2> QED BY <2>1, <2>2, <2>3
<1> QED BY <1>1, <1>5, <1>6

(* The requests of GDB.                                                    *)
LEMMA RequestIs ==
    ASSUME NEW r \in Request
    PROVE  /\ r \in Chars /\ r # <<>> /\ Head(r) = r[1]
           /\ \/ r = Kill \/ r = Break
              \/ IsText(r) /\ r[1] \notin {Plus, Minus, KillRequest, 66, 98}
<1>1. PICK n \in 1 .. MaxRequests : r \in GdbRequest[n]
  BY DEF Request
<1>2. r \in Chars /\ r # <<>>
  BY <1>1, RspPacketsAssumption DEF Chars
<1>3. Head(r) = r[1]
  BY <1>2, TailIsTail DEF Chars
<1>4. CASE r \in {<<KillRequest>>, <<GDB_RSP_BREAK_CMD>>}
  BY <1>2, <1>3, <1>4 DEF Kill, Break
<1>5. CASE r \notin {<<KillRequest>>, <<GDB_RSP_BREAK_CMD>>}
  <2>1. /\ \A k \in 1 .. Len(r) :
              r[k] \notin {0, GDB_RSP_BREAK_CMD, Dollar, Hash, Star, Brace}
        /\ r[1] \notin {Plus, Minus, KillRequest, 66, 98}
    BY <1>1, <1>5, RequestsAreText
  <2> QED BY <2>1, <1>2, <1>3 DEF IsText
<1> QED BY <1>4, <1>5

(* The last request is one of them.                                        *)
LEMMA LastRequestIs ==
    ASSUME PacketsTypeOK, request # <<>>
    PROVE  request \in Request
BY DEF PacketsTypeOK, Request

(* Texts can be in packets.                                                *)
LEMMA TextsAre ==
    ASSUME NEW r, IsText(r)
    PROVE  r \in Texts /\ HighDigit(r) \in HexDigit /\ LowDigit(r) \in HexDigit
BY DigitsOfSum DEF IsText, Texts

(* The packet of the last request is still to come.                        *)
LEMMA ReadingWhenComing ==
    ASSUME PacketsTypeOK, Checked, Requesting, Receiving, Coming
    PROVE  Coming' \/ Serving'
<1>1. request \in Request /\ request # Kill /\ request # <<>> /\ gdb # "idle" /\ ~damaged
      /\ started = 0 /\ answered = 0
  BY LastRequestIs DEF Coming
<1>2. PICK a \in Int : BreakComing(a) \/ PacketComing(a, request)
  BY DEF Coming
<1>3. UNCHANGED <<client, answered>>
  BY WhatReadingDoes
<1>4. request' = request /\ gdb' = gdb /\ damaged' = damaged /\ answered' = answered
  BY <1>3 DEF client
<1>5. ASSUME started' = started, NEW e \in Int, (BreakComing(e) \/ PacketComing(e, request))'
      PROVE  Coming'
  BY <1>1, <1>4, <1>5 DEF Coming
<1>6. CASE BreakComing(a)
  <2>1. /\ request = Break /\ Lead(a) /\ a < Len(toBridge)
        /\ toBridge[a + 1] = GDB_RSP_BREAK_CMD /\ After(toBridge, a + 2)
    BY <1>6 DEF BreakComing
  <2>2. a \in Nat /\ toBridge # <<>> /\ Len(toBridge) \in Nat
    <3>1. a \in 0 .. Len(toBridge) /\ Len(toBridge) \in Nat
      BY <2>1, LenProperties DEF Lead, Kills, PacketsTypeOK
    <3>2. Len(toBridge) # 0
      BY <2>1, <3>1
    <3> QED BY <3>1, <3>2, EmptySeq DEF PacketsTypeOK
  <2>3. IsTail(Tail(toBridge), toBridge)
    BY <2>2, FirstIsRead
  <2>4. CASE a # 0
    <3>1. a \in Nat \ {0}
      BY <2>2, <2>4
    <3>2. /\ UNCHANGED <<client, history>>
          /\ \/ toBridge' = toBridge /\ Lead(a)'
             \/ toBridge # <<>> /\ toBridge' = Tail(toBridge) /\ Lead(a - 1)'
      BY <3>1, <2>1, LeadStep DEF Receiving
    <3>3. CASE toBridge' = toBridge /\ Lead(a)'
      <4>1. After(toBridge, a + 2)'
        BY <2>1, <1>4, <3>3 DEF After, IsMonitor
      <4>2. BreakComing(a)'
        BY <4>1, <2>1, <1>4, <3>3 DEF BreakComing
      <4> QED BY <4>2, <3>2, <1>5 DEF history
    <3>4. CASE toBridge # <<>> /\ toBridge' = Tail(toBridge) /\ Lead(a - 1)'
      <4>1. After(toBridge, (a + 2) - 1)'
        BY <2>1, <2>2, <3>4, <1>3, AfterMovesUp
      <4>2. a - 1 < Len(toBridge') /\ toBridge'[(a - 1) + 1] = GDB_RSP_BREAK_CMD
        <5>1. Len(toBridge') = Len(toBridge) - 1
              /\ \A i \in 1 .. Len(toBridge) - 1 : toBridge'[i] = toBridge[i + 1]
          BY <2>3, <3>4 DEF IsTail
        <5>2. a \in 1 .. Len(toBridge) - 1 /\ (a - 1) + 1 = a
          BY <2>1, <2>2, <3>1
        <5> QED BY <5>1, <5>2, <2>1, <2>2
      <4>3. (a + 2) - 1 = (a - 1) + 2
        BY <3>1
      <4>4. BreakComing(a - 1)'
        BY <4>1, <4>2, <4>3, <2>1, <1>4, <3>4 DEF BreakComing
      <4> QED BY <4>4, <3>1, <3>2, <1>5 DEF history
    <3> QED BY <3>2, <3>3, <3>4
  <2>5. CASE a = 0
    <3>1. toBridge[1] = GDB_RSP_BREAK_CMD /\ After(toBridge, 2) /\ Lead(0)
      BY <2>1, <2>5
    <3>2. GDB_RSP_BREAK_CMD \notin Noise /\ GDB_RSP_BREAK_CMD # Dollar
      BY DEF GDB_RSP_BREAK_CMD, Noise, Plus, Minus, Dollar
    <3>3. \/ toBridge' = toBridge /\ Lead(0)' /\ UNCHANGED history
          \/ /\ toBridge' = Tail(toBridge) /\ pc' = "handling" /\ buf' = Break
             /\ started' = started + 1
      BY <3>1, <3>2, IdleStep DEF Receiving
    <3>4. CASE toBridge' = toBridge /\ Lead(0)' /\ UNCHANGED history
      <4>1. After(toBridge, a + 2)'
        BY <2>1, <1>4, <3>4 DEF After, IsMonitor
      <4>2. BreakComing(a)'
        BY <4>1, <2>1, <2>5, <1>4, <3>4 DEF BreakComing
      <4> QED BY <4>2, <3>4, <1>5 DEF history
    <3>5. CASE /\ toBridge' = Tail(toBridge) /\ pc' = "handling" /\ buf' = Break
               /\ started' = started + 1
      <4>1. After(toBridge, 2 - 1)'
        BY <3>1, <2>2, <3>5, <1>3, AfterMovesUp
      <4>2. After(toBridge, 1)'
        BY <4>1
      <4>3. gdb # "ack" /\ started' = 1
        BY <2>1, <3>5, <1>1 DEF Requesting
      <4> QED BY <4>2, <4>3, <3>5, <2>1, <1>1, <1>4 DEF Serving
    <3> QED BY <3>3, <3>4, <3>5
  <2> QED BY <2>4, <2>5
<1>7. CASE PacketComing(a, request)
  <2> DEFINE t == request
             L == Len(t)
             d == HighDigit(t)
  <2>1. /\ t # Break /\ Reached(a, t, d) /\ PacketOn(toBridge, a, t, d)
        /\ a + L + 4 <= Len(toBridge) /\ toBridge[a + L + 4] = LowDigit(t)
        /\ After(toBridge, a + L + 5)
    BY <1>7 DEF PacketComing
  <2>2. t \in Texts /\ L \in Nat
    <3>1. IsText(t)
      BY <1>1, <2>1, RequestIs
    <3> QED BY <3>1, TextsAre, LenProperties DEF Texts, Chars
  <2>3. t' = t
    BY <1>4
  <2> HIDE DEF t
  <2>4. PICK r, h : r = t /\ h = d
    OBVIOUS
  <2>5. CASE a > -(L + 3)
    <3>1. /\ UNCHANGED <<client, history>>
          /\ \/ toBridge' = toBridge /\ Reached(a, r, h)'
             \/ /\ toBridge # <<>> /\ toBridge' = Tail(toBridge)
                /\ Reached(a - 1, r, h)' /\ PacketOn(toBridge', a - 1, r, h)
      BY <2>1, <2>2, <2>4, <2>5, PacketStep DEF Receiving
    <3>2. HighDigit(t)' = h /\ LowDigit(t)' = LowDigit(t) /\ r = t'
      BY <2>3, <2>4 DEF HighDigit, LowDigit
    <3>3. CASE toBridge' = toBridge /\ Reached(a, r, h)'
      <4>1. After(toBridge, a + L + 5)'
        BY <2>1, <2>3, <1>4, <3>3 DEF After, IsMonitor
      <4>2. PacketComing(a, request)'
        BY <4>1, <2>1, <2>3, <2>4, <1>4, <3>2, <3>3 DEF PacketComing, t
      <4> QED BY <4>2, <3>1, <1>5 DEF history
    <3>4. CASE /\ toBridge # <<>> /\ toBridge' = Tail(toBridge)
               /\ Reached(a - 1, r, h)' /\ PacketOn(toBridge', a - 1, r, h)
      <4>1. After(toBridge, (a + L + 5) - 1)'
        <5>1. a + L + 5 \in Int /\ a + L + 5 >= 2
          BY <2>2, <2>5
        <5>2. PICK n : n = a + L + 5
          OBVIOUS
        <5>3. n \in Int /\ n >= 2 /\ After(toBridge, n)
          BY <5>1, <5>2, <2>1
        <5>4. UNCHANGED client
          BY <1>3
        <5>5. After(toBridge, n - 1)'
          BY <5>3, <5>4, <3>4, AfterMovesUp
        <5> QED BY <5>2, <5>5, <2>3
      <4>2. a - 1 + L + 4 <= Len(toBridge') /\ toBridge'[a - 1 + L + 4] = LowDigit(t)
        <5>1. Len(toBridge) \in Nat \ {0} /\ Len(toBridge') = Len(toBridge) - 1
              /\ \A i \in 1 .. Len(toBridge) - 1 : toBridge'[i] = toBridge[i + 1]
          BY <3>4, FirstIsRead DEF IsTail
        <5>2. a + L + 3 \in 1 .. Len(toBridge) - 1 /\ a - 1 + L + 4 = a + L + 3
              /\ (a + L + 3) + 1 = a + L + 4
          BY <5>1, <2>1, <2>2, <2>5
        <5> QED BY <5>1, <5>2, <2>1, <2>2
      <4>3. (a + L + 5) - 1 = a - 1 + L + 5 /\ a - 1 \in Int
        BY <2>2
      <4>4. PacketComing(a - 1, request)'
        BY <4>1, <4>2, <4>3, <2>1, <2>3, <2>4, <1>4, <3>2, <3>4 DEF PacketComing, t
      <4> QED BY <4>3, <4>4, <3>1, <1>5 DEF history
    <3> QED BY <3>1, <3>3, <3>4
  <2>6. CASE a <= -(L + 3)
    <3>1. /\ toBridge # <<>> /\ toBridge' = Tail(toBridge)
          /\ a = -(Len(r) + 3)
          /\ pc' = "handling" /\ buf' = r /\ toGdb' = Append(toGdb, <<Plus>>)
          /\ started' = (IF r = Kill THEN started ELSE started + 1)
      BY <2>1, <2>2, <2>4, <2>6, LastDigitStep DEF Receiving
    <3>2. After(toBridge, 1)'
      <4>1. a + L + 5 = 2
        BY <3>1, <2>2, <2>4
      <4>2. After(toBridge, 2 - 1)'
        BY <4>1, <2>1, <3>1, <1>3, AfterMovesUp
      <4> QED BY <4>2
    <3>3. started' = 1 /\ buf' = request
      BY <3>1, <2>4, <1>1 DEF t
    <3>4. toGdb' # <<>>
      <4>1. toGdb \in Seq(Seq(0 .. 255)) /\ <<Plus>> \in Seq(0 .. 255)
        BY DEF PacketsTypeOK, Plus
      <4> QED BY <4>1, <3>1, AppendProperties
    <3> QED BY <3>1, <3>2, <3>3, <3>4, <1>1, <1>4 DEF Serving
  <2>7. a > -(L + 3) \/ a <= -(L + 3)
    BY <2>2
  <2> QED BY <2>5, <2>6, <2>7
<1> QED BY <1>2, <1>6, <1>7

(* The last request is being served: nothing acknowledges its reply.       *)
LEMMA NoReadingWhenServing ==
    ASSUME PacketsTypeOK, Checked, Receiving, Serving
    PROVE  FALSE
<1>1. /\ request # Kill /\ request # <<>> /\ After(toBridge, 1)
      /\ pc \in {"handling", "access"} \cup Acking
      /\ pc = "handling" => buf = request
  BY DEF Serving, Acking
<1>2. pc \in {"handling", "access"} \cup Acking => (pc = "handling" \/ Acknowledged)
      /\ (pc = "handling" => Head(buf) = KillRequest)
  BY WhatReadingDoes
<1>3. pc # "handling"
  <2> SUFFICES ASSUME pc = "handling" PROVE FALSE
    OBVIOUS
  <2>1. request \in Request /\ Head(request) = KillRequest
    BY <1>1, <1>2, LastRequestIs
  <2> QED BY <2>1, <1>1, RequestIs DEF Break, GDB_RSP_BREAK_CMD, KillRequest
<1>4. toBridge # <<>> /\ Char = Plus
  BY <1>1, <1>2, <1>3 DEF Acknowledged, Reads
<1>5. 1 <= Len(toBridge) /\ toBridge[1] = Plus
  BY <1>4, FirstIsRead
<1> QED BY <1>1, <1>5 DEF After

(* No packet begins with what comes.                                       *)
LEMMA ReadingWhenDoomedStart ==
    ASSUME PacketsTypeOK, Receiving, NEW a \in Int, DoomedStart(a)
    PROVE  \E e \in Int : DoomedStart(e)'
<1>1. /\ Lead(a) /\ a < Len(toBridge)
      /\ toBridge[a + 1] \notin {Plus, Minus, Dollar, GDB_RSP_BREAK_CMD}
  BY DEF DoomedStart
<1>2. a \in 0 .. Len(toBridge) /\ Len(toBridge) \in Nat
  BY <1>1, LenProperties DEF Lead, Kills, PacketsTypeOK
<1>3. CASE a # 0
  <2>1. a \in Nat \ {0}
    BY <1>2, <1>3
  <2>2. \/ toBridge' = toBridge /\ Lead(a)'
        \/ toBridge # <<>> /\ toBridge' = Tail(toBridge) /\ Lead(a - 1)'
    BY <2>1, <1>1, LeadStep DEF Receiving
  <2>3. CASE toBridge' = toBridge /\ Lead(a)'
    <3>1. DoomedStart(a)'
      BY <1>1, <2>3 DEF DoomedStart
    <3> QED BY <3>1
  <2>4. CASE toBridge # <<>> /\ toBridge' = Tail(toBridge) /\ Lead(a - 1)'
    <3>1. /\ Len(toBridge') = Len(toBridge) - 1
          /\ \A i \in 1 .. Len(toBridge) - 1 : toBridge'[i] = toBridge[i + 1]
      BY <2>4, FirstIsRead DEF IsTail
    <3>2. a \in 1 .. Len(toBridge) - 1 /\ (a - 1) + 1 = a /\ a - 1 \in Int
      BY <2>1, <1>1, <1>2
    <3>3. a - 1 < Len(toBridge') /\ toBridge'[(a - 1) + 1] = toBridge[a + 1]
      BY <3>1, <3>2, <1>1, <1>2
    <3>4. DoomedStart(a - 1)'
      BY <1>1, <2>4, <3>3 DEF DoomedStart
    <3> QED BY <3>2, <3>4
  <2> QED BY <2>2, <2>3, <2>4
<1>4. CASE a = 0
  <2>1. Lead(0) /\ toBridge[1] \notin Noise \cup {Dollar, GDB_RSP_BREAK_CMD}
    BY <1>1, <1>4 DEF Noise
  <2>2. toBridge' = toBridge /\ Lead(0)'
    BY <2>1, IdleStep DEF Receiving
  <2>3. DoomedStart(a)'
    BY <1>1, <1>4, <2>2 DEF DoomedStart
  <2> QED BY <2>3
<1> QED BY <1>3, <1>4

(* The packet that comes has a wrong checksum.                             *)
LEMMA ReadingWhenWrong ==
    ASSUME PacketsTypeOK, Checked, Receiving, NEW a \in Int, NEW t \in Texts, NEW d \in HexDigit,
           WrongPacket(a, t, d)
    PROVE  \E e \in Int : WrongPacket(e, t, d)'
<1> DEFINE L == Len(t)
           K == Len(toBridge)
<1>1. /\ Reached(a, t, d) /\ PacketOn(toBridge, a, t, d)
      /\ a + L + 4 <= K => ~Agree(Sum(t), d, toBridge[a + L + 4])
      /\ ~(a + L + 4 <= K) => (MayAsk => t = Kill /\ d \in {54, 98})
  BY DEF WrongPacket
<1>2. L \in Nat /\ K \in Nat
  BY LenProperties DEF Texts, Chars, PacketsTypeOK
<1>3. MayAsk' = MayAsk
  BY WhatReadingDoes DEF MayAsk, client
<1>4. CASE a > -(L + 3)
  <2>1. \/ toBridge' = toBridge /\ Reached(a, t, d)'
        \/ /\ toBridge # <<>> /\ toBridge' = Tail(toBridge)
           /\ Reached(a - 1, t, d)' /\ PacketOn(toBridge', a - 1, t, d)
    BY <1>1, <1>4, PacketStep DEF Receiving
  <2>2. CASE toBridge' = toBridge /\ Reached(a, t, d)'
    <3>1. WrongPacket(a, t, d)'
      BY <1>1, <1>3, <2>2 DEF WrongPacket
    <3> QED BY <3>1
  <2>3. CASE /\ toBridge # <<>> /\ toBridge' = Tail(toBridge)
             /\ Reached(a - 1, t, d)' /\ PacketOn(toBridge', a - 1, t, d)
    <3>1. /\ K \in Nat \ {0} /\ Len(toBridge') = K - 1
          /\ \A i \in 1 .. K - 1 : toBridge'[i] = toBridge[i + 1]
      BY <2>3, FirstIsRead DEF IsTail
    <3> HIDE DEF L, K
    <3>2. a - 1 + L + 4 = a + L + 3 /\ (a + L + 3) + 1 = a + L + 4 /\ a - 1 \in Int
          /\ (a - 1 + L + 4 <= K - 1 => a + L + 3 \in 1 .. K - 1)
          /\ (a - 1 + L + 4 <= K - 1 <=> a + L + 4 <= K)
      BY <1>2, <1>4, <3>1
    <3>3. a - 1 + L + 4 <= Len(toBridge') => ~Agree(Sum(t), d, toBridge'[a - 1 + L + 4])
      BY <1>1, <3>1, <3>2
    <3>4. ~(a - 1 + L + 4 <= Len(toBridge')) => (MayAsk' => t = Kill /\ d \in {54, 98})
      BY <1>1, <1>3, <3>1, <3>2
    <3>5. WrongPacket(a - 1, t, d)'
      BY <2>3, <3>3, <3>4 DEF WrongPacket, L
    <3> QED BY <3>2, <3>5
  <2> QED BY <2>1, <2>2, <2>3
<1>5. CASE a <= -(L + 3)
  <2>1. toBridge # <<>> /\ a = -(L + 3) /\ Agree(Sum(t), d, toBridge[1])
    BY <1>1, <1>5, LastDigitStep DEF Receiving
  <2>2. K # 0
    BY <2>1, EmptySeq DEF PacketsTypeOK
  <2> HIDE DEF L, K
  <2>3. a + L + 4 = 1 /\ 1 <= K
    BY <2>1, <2>2, <1>2
  <2> QED BY <2>1, <2>3, <1>1
<1>6. a > -(L + 3) \/ a <= -(L + 3)
  BY <1>2
<1> QED BY <1>4, <1>5, <1>6

(* The packet that comes does not end.                                     *)
LEMMA ReadingWhenEndless ==
    ASSUME PacketsTypeOK, Checked, Receiving, NEW a \in Int, Endless(a)
    PROVE  \E e \in Int : Endless(e)'
<1> DEFINE K == Len(toBridge)
           Unfinished(e, w) ==
              /\ \A i \in e + 2 .. Len(w) :
                    w[i] = Hash => \E j \in e + 2 .. i - 1 : w[j] = Dollar
              /\ MayAsk => \E j \in e + 2 .. Len(w) : w[j] = Dollar
<1>1. /\ \/ a >= 0 /\ Lead(a) /\ a < K /\ toBridge[a + 1] = Dollar
         \/ a = -1 /\ pc = "body"
      /\ Unfinished(a, toBridge)
  BY DEF Endless
<1>2. K \in Nat
  BY LenProperties DEF PacketsTypeOK
<1>3. MayAsk' = MayAsk
  BY WhatReadingDoes DEF MayAsk, client
<1>4. ASSUME NEW v, NEW e \in {a, a - 1}, e >= -1, IsTail(v, toBridge),
             e = a => a = -1 /\ toBridge[1] \notin {Hash, Dollar}
      PROVE  Unfinished(e, v)
  <2>1. /\ Len(v) = K - 1 /\ \A i \in 1 .. K - 1 : v[i] = toBridge[i + 1]
    BY <1>4 DEF IsTail
  <2> HIDE DEF K
  <2>2. ASSUME NEW j \in a + 2 .. K, toBridge[j] \in {Hash, Dollar}
        PROVE  j - 1 \in e + 2 .. K - 1 /\ v[j - 1] = toBridge[j] /\ j - 1 + 1 = j
    <3>1. j - 1 \in e + 2 .. K - 1
      <4>1. CASE e = a - 1
        BY <4>1, <1>4, <1>2, <2>2
      <4>2. CASE e # a - 1
        <5>1. a = -1 /\ e = -1 /\ j # 1
          BY <4>2, <1>4, <2>2
        <5> QED BY <5>1, <1>2, <2>2
      <4> QED BY <4>1, <4>2
    <3>2. j - 1 \in 1 .. K - 1 /\ j - 1 + 1 = j
      BY <3>1, <1>4, <1>2
    <3> QED BY <3>1, <3>2, <2>1
  <2>3. ASSUME NEW i \in e + 2 .. K - 1, v[i] = Hash
        PROVE  \E j \in e + 2 .. i - 1 : v[j] = Dollar
    <3>1. i + 1 \in a + 2 .. K /\ i \in 1 .. K - 1
      BY <1>4, <1>2, <2>3
    <3>2. toBridge[i + 1] = Hash
      BY <3>1, <2>1, <2>3
    <3>3. PICK j \in a + 2 .. (i + 1) - 1 : toBridge[j] = Dollar
      BY <3>1, <3>2, <1>1 DEF K
    <3>4. j \in a + 2 .. K
      BY <3>1, <3>3, <1>2
    <3>5. j - 1 \in e + 2 .. K - 1 /\ v[j - 1] = Dollar
      BY <3>3, <3>4, <2>2
    <3>6. j - 1 \in e + 2 .. i - 1
      BY <3>1, <3>3, <3>5
    <3> QED BY <3>5, <3>6
  <2>4. ASSUME MayAsk PROVE \E j \in e + 2 .. K - 1 : v[j] = Dollar
    <3>1. PICK j \in a + 2 .. K : toBridge[j] = Dollar
      BY <1>1, <2>4 DEF K
    <3>2. j - 1 \in e + 2 .. K - 1 /\ v[j - 1] = Dollar
      BY <3>1, <2>2
    <3> QED BY <3>2
  <2> QED BY <2>1, <2>3, <2>4
<1>5. Unfinished(a, toBridge') \/ toBridge' # toBridge
  BY <1>1
<1>6. ASSUME NEW e \in Int, Unfinished(e, toBridge'),
             \/ e >= 0 /\ Lead(e)' /\ e < Len(toBridge') /\ toBridge'[e + 1] = Dollar
             \/ e = -1 /\ pc' = "body"
      PROVE  Endless(e)'
  BY <1>3, <1>6 DEF Endless
<1> HIDE DEF Unfinished
<1>7. CASE a > 0 /\ Lead(a) /\ a < K /\ toBridge[a + 1] = Dollar
  <2>1. a \in Nat \ {0}
    BY <1>7
  <2>2. \/ toBridge' = toBridge /\ Lead(a)'
        \/ toBridge # <<>> /\ toBridge' = Tail(toBridge) /\ Lead(a - 1)'
    BY <2>1, <1>7, LeadStep DEF Receiving
  <2>3. CASE toBridge' = toBridge /\ Lead(a)'
    <3>1. a >= 0
      BY <2>1
    <3>2. Endless(a)'
      BY <3>1, <1>5, <1>6, <1>7, <2>3
    <3> QED BY <3>2
  <2>4. CASE toBridge # <<>> /\ toBridge' = Tail(toBridge) /\ Lead(a - 1)'
    <3>1. IsTail(toBridge', toBridge)
      BY <2>4, FirstIsRead
    <3>2. /\ Len(toBridge') = K - 1 /\ \A i \in 1 .. K - 1 : toBridge'[i] = toBridge[i + 1]
      BY <3>1 DEF IsTail
    <3> HIDE DEF K
    <3>3. a - 1 >= -1 /\ a - 1 # a /\ a - 1 \in Int /\ a - 1 >= 0 /\ a - 1 < K - 1
          /\ (a - 1) + 1 = a /\ a \in 1 .. K - 1
      BY <2>1, <1>2, <1>7
    <3>4. Unfinished(a - 1, toBridge')
      BY <3>1, <3>3, <1>4
    <3>5. toBridge'[(a - 1) + 1] = Dollar /\ a - 1 < Len(toBridge')
      BY <3>2, <3>3, <1>7
    <3>6. Endless(a - 1)'
      BY <3>3, <3>4, <3>5, <2>4, <1>6
    <3> QED BY <3>3, <3>6
  <2> QED BY <2>2, <2>3, <2>4
<1>8. CASE a = 0 /\ Lead(0) /\ 0 < K /\ toBridge[1] = Dollar
  <2>1. Dollar \notin Noise /\ Dollar # GDB_RSP_BREAK_CMD
    BY DEF Dollar, Noise, Plus, Minus, GDB_RSP_BREAK_CMD
  <2>2. \/ toBridge' = toBridge /\ Lead(0)'
        \/ toBridge # <<>> /\ toBridge' = Tail(toBridge) /\ pc' = "body"
    BY <2>1, <1>8, IdleStep DEF Receiving
  <2>3. CASE toBridge' = toBridge /\ Lead(0)'
    <3>1. Endless(0)'
      BY <1>5, <1>6, <1>8, <2>3
    <3> QED BY <3>1
  <2>4. CASE toBridge # <<>> /\ toBridge' = Tail(toBridge) /\ pc' = "body"
    <3>1. IsTail(toBridge', toBridge)
      BY <2>4, FirstIsRead
    <3>2. -1 \in {a, a - 1} /\ -1 >= -1 /\ -1 # a
      BY <1>8
    <3>3. Unfinished(-1, toBridge')
      BY <3>1, <3>2, <1>4
    <3>4. Endless(-1)'
      BY <3>3, <2>4, <1>6
    <3> QED BY <3>4
  <2> QED BY <2>2, <2>3, <2>4
<1>9. CASE a = -1 /\ pc = "body"
  <2>1. toBridge # <<>> /\ 1 \in 1 .. K
    <3>1. toBridge # <<>>
      BY <1>9, WhatReadingDoes
    <3> QED BY <3>1, FirstIsRead
  <2>2. toBridge[1] # Hash
    <3> SUFFICES ASSUME toBridge[1] = Hash PROVE FALSE
      OBVIOUS
    <3>1. a + 2 = 1 /\ 1 \in a + 2 .. K
      BY <2>1, <1>9
    <3>2. \E j \in a + 2 .. 1 - 1 : toBridge[j] = Dollar
      BY <3>1, <1>1 DEF Unfinished
    <3> QED BY <3>1, <3>2
  <2>3. BodyCharacter
    <3>1. /\ ~BeginPacket /\ ~SkipCharacter /\ ~StartOfPacket /\ ~BreakCommand
          /\ ~FirstDigit /\ ~EndOfPacket /\ ~Acknowledged /\ ~kill_request
      BY <1>9 DEF BeginPacket, SkipCharacter, StartOfPacket, BreakCommand, FirstDigit,
                  EndOfPacket, Acknowledged, kill_request, Handles
    <3>2. ~EndOfBody
      BY <2>1, <2>2, FirstIsRead DEF EndOfBody
    <3> QED BY <3>1, <3>2 DEF GetPacket, Receiving
  <2>4. toBridge' = Tail(toBridge) /\ pc' = "body" /\ toBridge[1] # Dollar
    BY <2>1, <2>3, <1>9, FirstIsRead DEF BodyCharacter, Reads
  <2>5. IsTail(toBridge', toBridge)
    BY <2>1, <2>4, FirstIsRead
  <2>6. a >= -1
    BY <1>9
  <2>7. Unfinished(a, toBridge')
    BY <2>2, <2>4, <2>5, <2>6, <1>4, <1>9
  <2>8. Endless(a)'
    BY <2>4, <2>7, <1>6, <1>9
  <2> QED BY <2>8
<1> QED BY <1>1, <1>7, <1>8, <1>9

(* An open kill request comes.                                             *)
LEMMA ReadingWhenOpen ==
    ASSUME PacketsTypeOK, Checked, Receiving, NEW a \in Int, OpenKillComing(a)
    PROVE  \E e \in Int : OpenKillComing(e)'
<1>1. TextReached(a, OpenKill) /\ TextOn(toBridge, a, OpenKill) /\ Len(toBridge) = a + 4
  BY DEF OpenKillComing
<1>2. Len(OpenKill) = 3 /\ OpenKill \in Texts
  <2>1. OpenKill \in Chars /\ Len(OpenKill) = 3
    BY KillSums
  <2>2. OpenKill[1] # Hash /\ OpenKill[2] # Hash /\ OpenKill[3] # Hash
    BY KillSums DEF Hash, KillRequest
  <2>3. \A i \in 1 .. 3 : i = 1 \/ i = 2 \/ i = 3
    OBVIOUS
  <2> QED BY <2>1, <2>2, <2>3 DEF Texts
<1>3. Len(toBridge) \in Nat
  BY LenProperties DEF PacketsTypeOK
<1>4. CASE a > -4
  <2>1. \/ toBridge' = toBridge /\ TextReached(a, OpenKill)'
        \/ /\ toBridge # <<>> /\ toBridge' = Tail(toBridge)
           /\ TextReached(a - 1, OpenKill)' /\ TextOn(toBridge', a - 1, OpenKill)
    <3>1. a > -(Len(OpenKill) + 1)
      BY <1>2, <1>4
    <3> QED BY <3>1, <1>1, <1>2, TextStep DEF Receiving
  <2>2. CASE toBridge' = toBridge /\ TextReached(a, OpenKill)'
    <3>1. OpenKillComing(a)'
      BY <1>1, <2>2 DEF OpenKillComing
    <3> QED BY <3>1
  <2>3. CASE /\ toBridge # <<>> /\ toBridge' = Tail(toBridge)
             /\ TextReached(a - 1, OpenKill)' /\ TextOn(toBridge', a - 1, OpenKill)
    <3>1. Len(toBridge') = Len(toBridge) - 1
      BY <2>3, FirstIsRead DEF IsTail
    <3>2. Len(toBridge') = (a - 1) + 4 /\ a - 1 \in Int
      BY <3>1, <1>1
    <3>3. OpenKillComing(a - 1)'
      BY <2>3, <3>2 DEF OpenKillComing
    <3> QED BY <3>2, <3>3
  <2> QED BY <2>1, <2>2, <2>3
<1>5. CASE ~(a > -4)
  <2>1. a < 0 /\ ~(a >= 0) /\ Len(toBridge) = 0
    BY <1>1, <1>3, <1>5
  <2>2. pc = "body"
    BY <2>1, <1>1 DEF TextReached
  <2>3. toBridge # <<>>
    BY <2>2, WhatReadingDoes
  <2> QED BY <2>1, <2>3, EmptySeq DEF PacketsTypeOK
<1> QED BY <1>4, <1>5

(* Whatever dooms the packet that comes, it does when more of it is read.  *)
LEMMA ReadingWhenDoomed ==
    ASSUME PacketsTypeOK, Checked, Receiving, Doomed
    PROVE  Doomed'
<1>1. CASE DoomedAcking
  <2>1. pc \in Acking /\ toBridge # <<>> /\ toBridge[1] # Plus
    BY <1>1 DEF DoomedAcking, Acking
  <2> QED BY <2>1, WhatReadingDoes
<1>2. ASSUME NEW a \in Int, DoomedStart(a) PROVE Doomed'
  BY <1>2, ReadingWhenDoomedStart DEF Doomed
<1>3. ASSUME NEW a \in Int, Endless(a) PROVE Doomed'
  BY <1>3, ReadingWhenEndless DEF Doomed
<1>4. ASSUME NEW a \in Int, OpenKillComing(a) PROVE Doomed'
  BY <1>4, ReadingWhenOpen DEF Doomed
<1>5. ASSUME NEW a \in Int, NEW t \in Texts, NEW d \in HexDigit, WrongPacket(a, t, d)
      PROVE  Doomed'
  <2>1. \E e \in Int : WrongPacket(e, t, d)'
    BY <1>5, ReadingWhenWrong
  <2> QED BY <2>1 DEF Doomed
<1> QED BY <1>1, <1>2, <1>3, <1>4, <1>5 DEF Doomed

(* What is on the wire when a character has been read was on it before.    *)
LEMMA ReadingKeepsEnds ==
    ASSUME PacketsTypeOK, Checked, Receiving, Ends
    PROVE  Ends'
<1>1. UNCHANGED client
  BY WhatReadingDoes
<1>2. CASE toBridge' = toBridge
  BY <1>1, <1>2 DEF client, Ends
<1>3. CASE toBridge # <<>> /\ toBridge' = Tail(toBridge)
  <2>1. /\ Len(toBridge) \in Nat \ {0} /\ Len(toBridge') = Len(toBridge) - 1
        /\ \A i \in 1 .. Len(toBridge) - 1 : toBridge'[i] = toBridge[i + 1]
    BY <1>3, FirstIsRead DEF IsTail
  <2>2. \A i \in 1 .. Len(toBridge) - 1 : i + 1 \in 1 .. Len(toBridge)
    BY <2>1
  <2>3. \A i \in 1 .. Len(toBridge') : gdb # "absent" => toBridge'[i] # EndOfFile
    BY <2>1, <2>2 DEF Ends
  <2> QED BY <2>3, <1>1 DEF client, Ends
<1> QED BY <1>2, <1>3, WhatReadingDoes

(* No reply is on its way while the bridge reads.                          *)
LEMMA ReadingKeepsReplies ==
    ASSUME PacketsTypeOK, Checked, Receiving, Replies
    PROVE  Replies'
<1>1. UNCHANGED client /\ (toGdb' = toGdb \/ toGdb' = Append(toGdb, <<Plus>>))
  BY WhatReadingDoes
<1>2. ASSUME gdb # "absent", NEW j \in 1 .. Len(toGdb) PROVE toGdb[j] = <<Plus>>
  BY <1>2, NoReadingWhenServing DEF Replies
<1>3. ASSUME gdb' # "absent", NEW j \in 1 .. Len(toGdb') PROVE toGdb'[j] = <<Plus>>
  <2>1. gdb # "absent"
    BY <1>1, <1>3 DEF client
  <2>2. CASE toGdb' = toGdb
    BY <2>1, <2>2, <1>2, <1>3
  <2>3. CASE toGdb' = Append(toGdb, <<Plus>>)
    <3>1. toGdb \in Seq(Seq(0 .. 255)) /\ <<Plus>> \in Seq(0 .. 255)
      BY DEF PacketsTypeOK, Plus
    <3>2. /\ Len(toGdb) \in Nat /\ Len(toGdb') = Len(toGdb) + 1
          /\ \A i \in 1 .. Len(toGdb) : toGdb'[i] = toGdb[i]
          /\ toGdb'[Len(toGdb) + 1] = <<Plus>>
      BY <3>1, <2>3, AppendProperties, LenProperties
    <3>3. j \in 1 .. Len(toGdb) \/ j = Len(toGdb) + 1
      BY <3>2, <1>3
    <3> QED BY <3>2, <3>3, <2>1, <1>2
  <2> QED BY <2>2, <2>3, <1>1
<1> QED BY <1>3 DEF Replies

(* The bridge reads.                                                       *)
LEMMA ReadingKeepsInv ==
    ASSUME PacketsTypeOK, PacketsInv, Receiving
    PROVE  PacketsInv'
<1> USE DEF PacketsInv
<1>1. /\ UNCHANGED <<client, answered>> /\ Open /\ Open' /\ Checked'
  BY WhatReadingDoes
<1>2. Requesting'
  BY <1>1 DEF client, Requesting
<1>3. Replies' /\ Ends'
  BY ReadingKeepsEnds, ReadingKeepsReplies
<1>4. Closed'
  BY <1>1 DEF Closed
<1>5. OneReplyPerRequest'
  BY <1>1 DEF client, OneReplyPerRequest
<1>6. Whereabouts'
  <2>1. Calm \/ Coming \/ Doomed
    BY <1>1, NoReadingWhenServing DEF Whereabouts
  <2>2. Calm => Calm'
    BY ReadingWhenCalm
  <2>3. Coming => Coming' \/ Serving'
    BY ReadingWhenComing
  <2>4. Doomed => Doomed'
    BY ReadingWhenDoomed
  <2> QED BY <2>1, <2>2, <2>3, <2>4 DEF Whereabouts
<1> QED BY <1>1, <1>2, <1>3, <1>4, <1>5, <1>6

-----------------------------------------------------------------------------
(* GDB sends more.                                                         *)
Waiting == UNCHANGED <<pc, receiver>>

(* What comes first stays where it is.                                     *)
LEMMA LeadStays ==
    ASSUME Waiting, IsExtended(toBridge', toBridge), NEW a, Lead(a)
    PROVE  Lead(a)'
<1>1. PICK b, c : b \in 0 .. a /\ c = toBridge[1] /\ Kills(toBridge, b, a) /\ Ready(c, b, a)
  BY LeadParts
<1>2. Kills(toBridge', b, a) /\ (a > 0 => toBridge'[1] = toBridge[1])
  BY <1>1, KillsStay
<1>3. Ready(c, b, a)'
  BY <1>1 DEF Waiting, receiver, Ready, AwaitsKill, Idling
<1>4. a \in Nat
  BY <1>1 DEF Kills, IsExtended
<1>5. PICK w : w = toBridge'
  OBVIOUS
<1>6. Kills(w, b, a) /\ (a > 0 => c = w[1])
  BY <1>1, <1>2, <1>5
<1> QED BY <1>1, <1>3, <1>4, <1>5, <1>6, LeadAgain

(* The packet of a kill request.                                           *)
LEMMA FrameOfKill ==
    /\ Frame(Kill) \in Seq(0 .. 255) /\ Len(Frame(Kill)) = 5 /\ Frame(Kill)[1] = Dollar
    /\ Frame(Kill)[2] = KillRequest /\ Frame(Kill)[3] = Hash
    /\ Frame(Kill)[4] = 54 /\ Frame(Kill)[5] = 98
<1>1. ASSUME NEW k, IsText(k), Len(k) = 1, HighDigit(k) = 54, LowDigit(k) = 98
      PROVE  /\ Frame(k) \in Chars /\ Len(Frame(k)) = 5 /\ Frame(k)[1] = Dollar
             /\ Frame(k)[2] = k[1] /\ Frame(k)[3] = Hash
             /\ Frame(k)[4] = 54 /\ Frame(k)[5] = 98
  <2>1. /\ Frame(k) \in Chars /\ Len(Frame(k)) = Len(k) + 4
        /\ Frame(k)[1] = Dollar /\ Frame(k)[Len(k) + 2] = Hash
        /\ \A i \in 1 .. Len(k) : Frame(k)[i + 1] = k[i]
        /\ Frame(k)[Len(k) + 3] = 54 /\ Frame(k)[Len(k) + 4] = 98
    <3>1. /\ Frame(k) \in Chars /\ Len(Frame(k)) = Len(k) + 4
          /\ Frame(k)[1] = Dollar /\ Frame(k)[Len(k) + 2] = Hash
          /\ \A i \in 1 .. Len(k) : Frame(k)[i + 1] = k[i]
          /\ Frame(k)[Len(k) + 3] = HighDigit(k) /\ Frame(k)[Len(k) + 4] = LowDigit(k)
      BY ONLY IsText(k), FrameOfText
    <3> QED BY ONLY <3>1, <1>1
  <2>2. Frame(k)[1 + 1] = k[1]
    BY <2>1, <1>1
  <2> QED BY <2>1, <2>2, <1>1
<1>2. Len(Kill) = 1 /\ Kill[1] = KillRequest
  BY DEF Kill
<1> QED BY <1>1, <1>2, KillSums DEF Chars

(* One more kill request comes first.                                      *)
LEMMA LeadGrows ==
    ASSUME Waiting, PacketsTypeOK, NEW a, a = Len(toBridge), Lead(a),
           toBridge' = toBridge \o Frame(Kill)
    PROVE  Lead(a + 5)' /\ a + 5 = Len(toBridge')
<1>1. PICK b, c : b \in 0 .. a /\ c = toBridge[1] /\ Kills(toBridge, b, a) /\ Ready(c, b, a)
  BY LeadParts
<1> DEFINE y == Frame(Kill)
<1>2. /\ y \in Seq(0 .. 255) /\ Len(y) = 5 /\ y[1] = Dollar /\ y[2] = KillRequest
      /\ y[3] = Hash /\ y[4] = 54 /\ y[5] = 98
  BY FrameOfKill
<1> HIDE DEF y
<1>3. toBridge \in Seq(0 .. 256) /\ y \in Seq(0 .. 256) /\ a \in Nat
  <2>1. 0 .. 255 \subseteq 0 .. 256
    OBVIOUS
  <2> QED BY <2>1, <1>2, LenProperties, SMTT(30) DEF PacketsTypeOK
<1>4. PICK w, v : w = toBridge /\ v = toBridge' /\ v = w \o y
  BY DEF y
<1>5. /\ IsExtended(v, w) /\ Len(v) = a + 5
      /\ \A i \in 1 .. 5 : v[a + i] = y[i]
  <2>1. w \in Seq(0 .. 256) /\ y \in Seq(0 .. 256) /\ v = w \o y /\ Len(w) = a
    BY <1>3, <1>4
  <2>2. IsExtended(v, w) /\ Len(v) = Len(w) + Len(y)
        /\ \A i \in 1 .. Len(y) : v[Len(w) + i] = y[i]
    BY ONLY <2>1, ConcatExtends
  <2> QED BY <2>1, <2>2, <1>2
<1>6. v[a + 1] = Dollar /\ v[a + 2] = KillRequest /\ v[a + 3] = Hash /\ v[a + 4] = 54
      /\ v[a + 5] = 98
  BY <1>2, <1>5
<1>7. Kills(v, b, a + 5)
  <2>1. a = Len(w) /\ Kills(w, b, a)
    BY <1>1, <1>4
  <2> QED BY ONLY <2>1, <1>5, <1>6, KillsGrow
<1>8. a > 0 => v[1] = c
  BY <1>1, <1>3, <1>4, <1>5 DEF IsExtended
<1>9. ASSUME NEW e, a > 0 => e = c, a = 0 => e = Dollar PROVE Ready(e, b, a + 5)'
  <2>1. CASE a = 0
    <3>1. Idling /\ b = 0
      BY <2>1, <1>1 DEF Ready
    <3>2. AwaitsKill(Dollar)'
      BY <3>1 DEF Idling, Waiting, receiver, AwaitsKill
    <3>3. e = Dollar /\ ~(b > 0) /\ a + 5 # 0
      BY <3>1, <2>1, <1>9
    <3> QED BY <3>2, <3>3 DEF Ready
  <2>2. CASE a # 0
    <3>1. e = c /\ a > 0 /\ a + 5 # 0
      BY <2>2, <1>3, <1>9
    <3>2. Ready(c, b, a)'
      BY <1>1 DEF Waiting, receiver, Ready, AwaitsKill, Idling
    <3> QED BY <3>1, <3>2 DEF Ready
  <2> QED BY <2>1, <2>2
<1>10. PICK e : e = v[1]
  OBVIOUS
<1>11. Ready(e, b, a + 5)'
  <2>1. a = 0 => v[1] = Dollar
    BY <1>6
  <2> QED BY <2>1, <1>8, <1>9, <1>10
<1>12. a + 5 \in Nat /\ b \in 0 .. a + 5
  BY <1>1, <1>3
<1> QED BY <1>4, <1>5, <1>7, <1>10, <1>11, <1>12, LeadAgain

(* What has been read of a text stays the same.                            *)
LEMMA ReachedStays ==
    ASSUME Waiting, IsExtended(toBridge', toBridge), NEW a, NEW t, NEW d
    PROVE  (TextReached(a, t) => TextReached(a, t)') /\ (Reached(a, t, d) => Reached(a, t, d)')
<1>1. TextReached(a, t) => TextReached(a, t)'
  BY LeadStays DEF TextReached, Waiting, receiver
<1> QED BY <1>1 DEF Reached, Waiting, receiver

(* A packet that is doomed remains so, whatever does not complete it.      *)
LEMMA DoomedStays ==
    ASSUME Waiting, PacketsTypeOK, Doomed, NEW y \in Seq(0 .. 256), toBridge' = toBridge \o y,
           y = <<>> => (MayAsk' => MayAsk),
           y # <<>> => y[1] \notin HexDigit /\ (MayAsk' => y[1] = Dollar),
           \A i \in 1 .. Len(y) : y[i] = Hash => y[1] = Dollar
    PROVE  Doomed'
<1>1. PICK w, v, K, M : w = toBridge /\ v = toBridge' /\ v = w \o y /\ K = Len(w) /\ M = Len(y)
  OBVIOUS
<1>2. /\ IsExtended(v, w) /\ K \in Nat /\ M \in Nat /\ Len(v) = K + M
      /\ \A i \in 1 .. K : v[i] = w[i]
      /\ \A i \in 1 .. M : v[K + i] = y[i]
      /\ y = <<>> <=> M = 0
  <2>1. w \in Seq(0 .. 256)
    BY <1>1 DEF PacketsTypeOK
  <2>2. /\ IsExtended(v, w) /\ Len(v) = Len(w) + Len(y) /\ Len(w) \in Nat /\ Len(y) \in Nat
        /\ \A i \in 1 .. Len(y) : v[Len(w) + i] = y[i]
    BY <2>1, <1>1, ConcatExtends
  <2>3. y = <<>> <=> Len(y) = 0
    BY EmptySeq
  <2> QED BY <2>2, <2>3, <1>1 DEF IsExtended
<1>3. IsExtended(toBridge', toBridge) /\ (y = <<>> => toBridge' = toBridge)
  <2>1. y = <<>> => w \o y = w
    BY <1>1, ConcatEmptySeq DEF PacketsTypeOK
  <2> QED BY <2>1, <1>1, <1>2
<1>4. M # 0 => v[K + 1] = y[1]
  BY <1>2
<1>5. CASE DoomedAcking
  <2>1. pc = "acking" /\ w # <<>> /\ w[1] # Plus
    BY <1>1, <1>5 DEF DoomedAcking
  <2>2. K # 0
    BY <2>1, <1>1, EmptySeq DEF PacketsTypeOK
  <2>3. v[1] = w[1] /\ Len(v) # 0
    BY <2>2, <1>2
  <2>4. v # <<>>
    BY <2>3
  <2>5. DoomedAcking'
    BY <2>1, <2>3, <2>4, <1>1 DEF DoomedAcking, Waiting
  <2> QED BY <2>5 DEF Doomed
<1>6. ASSUME NEW a \in Int, DoomedStart(a) PROVE DoomedStart(a)'
  <2>1. /\ Lead(a) /\ a < K /\ a \in 0 .. K
        /\ w[a + 1] \notin {Plus, Minus, Dollar, GDB_RSP_BREAK_CMD}
    BY <1>1, <1>6 DEF DoomedStart, Lead, Kills
  <2>2. a < Len(v) /\ v[a + 1] = w[a + 1]
    <3>1. a + 1 \in 1 .. K /\ a < K + M
      BY <2>1, <1>2
    <3> QED BY <3>1, <1>2
  <2>3. Lead(a)'
    BY <2>1, <1>3, LeadStays
  <2> QED BY <2>1, <2>2, <2>3, <1>1 DEF DoomedStart
<1>7. ASSUME NEW a \in Int, NEW t \in Texts, NEW d \in HexDigit, WrongPacket(a, t, d)
      PROVE  WrongPacket(a, t, d)'
  <2> DEFINE L == Len(t)
  <2>1. /\ Reached(a, t, d) /\ PacketOn(w, a, t, d)
        /\ a + L + 4 <= K => ~Agree(Sum(t), d, w[a + L + 4])
        /\ ~(a + L + 4 <= K) => (MayAsk => t = Kill /\ d \in {54, 98})
    BY <1>1, <1>7 DEF WrongPacket
  <2>2. L \in Nat /\ t \in Chars
    BY LenProperties DEF Texts, Chars
  <2>3. a + L + 3 <= K /\ a >= -(L + 3)
    <3>1. a >= -(L + 3)
      <4>1. a >= 0 \/ -a <= L + 1 \/ a = -(L + 2) \/ a = -(L + 3)
        BY <2>1 DEF Reached, TextReached
      <4> QED BY ONLY <4>1, <2>2, a \in Int
    <3>2. a + Len(t) + 3 <= Len(w)
      BY <2>1 DEF PacketOn
    <3> QED BY <3>1, <3>2, <1>1
  <2>4. Reached(a, t, d)' /\ PacketOn(v, a, t, d)
    BY <2>1, <2>2, <1>2, <1>3, ReachedStays, PacketStays
  <2> HIDE DEF L
  <2>5. CASE a + L + 4 <= K
    <3>1. a + L + 4 <= Len(v) /\ v[a + L + 4] = w[a + L + 4]
      BY <2>2, <2>3, <2>5, <1>2, SMTT(30)
    <3> QED BY <2>1, <2>4, <2>5, <3>1, <1>1 DEF WrongPacket, L
  <2>6. CASE ~(a + L + 4 <= K) /\ M = 0
    <3>1. ~(a + L + 4 <= Len(v)) /\ (MayAsk' => MayAsk)
      BY <2>6, <1>2
    <3> QED BY <2>1, <2>4, <2>6, <3>1, <1>1 DEF WrongPacket, L
  <2>7. CASE ~(a + L + 4 <= K) /\ M # 0
    <3>1. a + L + 4 = K + 1 /\ a + L + 4 <= Len(v)
      BY <2>2, <2>3, <2>7, <1>2
    <3>2. v[a + L + 4] \notin HexDigit
      BY <3>1, <2>7, <1>2, <1>4
    <3>3. ~Agree(Sum(t), d, v[a + L + 4])
      BY <3>2 DEF Agree
    <3> QED BY <2>4, <3>1, <3>3, <1>1 DEF WrongPacket, L
  <2> QED BY <2>5, <2>6, <2>7
<1>8. ASSUME NEW a \in Int, a >= -1, a < K,
             \/ a >= 0 /\ Lead(a) /\ w[a + 1] = Dollar
             \/ a = -1 /\ pc = "body",
             \A i \in a + 2 .. K : w[i] = Hash => \E j \in a + 2 .. i - 1 : w[j] = Dollar,
             M = 0 => (MayAsk => \E j \in a + 2 .. K : w[j] = Dollar)
      PROVE  Endless(a)'
  <2>1. \/ a >= 0 /\ Lead(a)' /\ a < Len(v) /\ v[a + 1] = Dollar
        \/ a = -1 /\ pc' = "body"
    <3>1. a >= 0 => a + 1 \in 1 .. K /\ a < Len(v)
      BY <1>2, <1>8
    <3>2. Lead(a) => Lead(a)'
      BY <1>3, LeadStays
    <3> QED BY <3>1, <3>2, <1>2, <1>8 DEF Waiting
  <2>2. ASSUME NEW j \in a + 2 .. K PROVE j \in 1 .. K /\ j \in a + 2 .. K + M /\ v[j] = w[j]
    <3>1. j \in 1 .. K /\ j \in a + 2 .. K + M
      BY <1>2, <1>8
    <3> QED BY <3>1, <1>2
  <2>3. y[1] = Dollar /\ M # 0 => v[K + 1] = Dollar /\ K + 1 \in a + 2 .. K + M
    BY <1>2, <1>4, <1>8
  <2>4. ASSUME NEW i \in a + 2 .. K + M, v[i] = Hash
        PROVE  \E j \in a + 2 .. i - 1 : v[j] = Dollar
    <3>1. CASE i <= K
      <4>1. i \in a + 2 .. K /\ w[i] = Hash
        BY <2>2, <2>4, <3>1, <1>2
      <4>2. PICK j \in a + 2 .. i - 1 : w[j] = Dollar
        BY <4>1, <1>8
      <4>3. j \in a + 2 .. K
        BY <4>1, <4>2, <1>2
      <4> QED BY <4>2, <4>3, <2>2
    <3>2. CASE ~(i <= K)
      <4>1. i - K \in 1 .. M /\ K + (i - K) = i
        BY <2>4, <3>2, <1>2
      <4>2. y[i - K] = Hash
        BY <4>1, <2>4, <1>2
      <4>3. y[1] = Dollar /\ M # 0
        BY <4>1, <4>2, <1>1, <1>2
      <4>4. i # K + 1
        BY <4>3, <2>3, <2>4 DEF Dollar, Hash
      <4>5. K + 1 \in a + 2 .. i - 1
        BY <4>1, <4>3, <4>4, <2>3, <3>2, <1>2
      <4> QED BY <4>3, <4>5, <2>3
    <3> QED BY <3>1, <3>2
  <2>5. ASSUME MayAsk' PROVE \E j \in a + 2 .. K + M : v[j] = Dollar
    <3>1. CASE M = 0
      <4>1. MayAsk
        BY <2>5, <3>1, <1>2
      <4>2. PICK j \in a + 2 .. K : w[j] = Dollar
        BY <4>1, <3>1, <1>8
      <4> QED BY <4>2, <2>2
    <3>2. CASE M # 0
      <4>1. y[1] = Dollar
        BY <2>5, <3>2, <1>2
      <4> QED BY <4>1, <3>2, <2>3
    <3> QED BY <3>1, <3>2
  <2>6. toBridge' = v /\ Len(toBridge') = K + M
    BY <1>1, <1>2
  <2>7. \/ a >= 0 /\ Lead(a)' /\ a < Len(toBridge') /\ toBridge'[a + 1] = Dollar
        \/ a = -1 /\ pc' = "body"
    BY ONLY <2>1, <2>6
  <2>8. \A i \in a + 2 .. Len(toBridge') :
           toBridge'[i] = Hash => \E j \in a + 2 .. i - 1 : toBridge'[j] = Dollar
    BY ONLY <2>4, <2>6
  <2>9. MayAsk' => \E j \in a + 2 .. Len(toBridge') : toBridge'[j] = Dollar
    BY ONLY <2>5, <2>6
  <2> QED BY ONLY <2>7, <2>8, <2>9 DEF Endless
<1>9. ASSUME NEW a \in Int, Endless(a) PROVE Endless(a)'
  <2>1. a >= -1 /\ a < K
    BY <1>1, <1>2, <1>9 DEF Endless
  <2>2. \/ a >= 0 /\ Lead(a) /\ w[a + 1] = Dollar
        \/ a = -1 /\ pc = "body"
    BY <1>1, <1>9 DEF Endless
  <2>3. \A i \in a + 2 .. K : w[i] = Hash => \E j \in a + 2 .. i - 1 : w[j] = Dollar
    BY <1>1, <1>9 DEF Endless
  <2>4. MayAsk => \E j \in a + 2 .. K : w[j] = Dollar
    BY <1>1, <1>9 DEF Endless
  <2> QED BY <2>1, <2>2, <2>3, <2>4, <1>8
<1>10. ASSUME NEW a \in Int, OpenKillComing(a) PROVE Doomed'
  <2>1. TextReached(a, OpenKill) /\ TextOn(w, a, OpenKill) /\ K = a + 4
    BY <1>1, <1>10 DEF OpenKillComing
  <2>2. OpenKill \in Chars /\ Len(OpenKill) = 3 /\ OpenKill[1] # Hash /\ OpenKill[2] # Hash
        /\ OpenKill[3] # Hash
    BY KillSums DEF KillRequest, Hash
  <2>3. CASE M = 0
    <3>1. TextReached(a, OpenKill)'
      BY <2>1, <1>3, ReachedStays
    <3>2. OpenKillComing(a)'
      BY <3>1, <2>1, <2>3, <1>1, <1>2, <1>3 DEF OpenKillComing
    <3> QED BY <3>2 DEF Doomed
  <2>4. CASE M # 0
    <3> DEFINE e == IF a >= 0 THEN a ELSE -1
    <3>1. e \in Int /\ e >= -1 /\ e < K /\ e >= a
      <4>1. a >= -4
        BY <2>1, <1>2
      <4>2. a < 0 => -1 >= a
        OBVIOUS
      <4> QED BY <4>1, <4>2, <2>1, <1>2
    <3>2. \/ e >= 0 /\ Lead(e) /\ w[e + 1] = Dollar
          \/ e = -1 /\ pc = "body"
      BY <2>1 DEF TextReached, TextOn
    <3>3. ASSUME NEW i \in e + 2 .. K PROVE w[i] # Hash
      <4>1. i - a - 1 \in 1 .. 3 /\ a + 1 + (i - a - 1) = i /\ i >= 1
        BY <2>1, <3>1, <3>3, <1>2
      <4>2. w[i] = OpenKill[i - a - 1]
        BY <4>1, <2>1, <2>2 DEF TextOn
      <4>3. \A n \in 1 .. 3 : OpenKill[n] # Hash
        <5>1. \A n \in 1 .. 3 : n = 1 \/ n = 2 \/ n = 3
          OBVIOUS
        <5> QED BY <5>1, <2>2
      <4> QED BY <4>1, <4>2, <4>3
    <3> HIDE DEF e
    <3>4. Endless(e)'
      BY <3>1, <3>2, <3>3, <2>4, <1>8
    <3> QED BY <3>1, <3>4 DEF Doomed
  <2> QED BY <2>3, <2>4
<1> QED BY <1>5, <1>6, <1>7, <1>9, <1>10 DEF Doomed

(* A packet that is doomed is not completed by one that lost its '$'.      *)
LEMMA DoomedIsNotCompleted ==
    ASSUME Waiting, PacketsTypeOK, Doomed, MayAsk, NEW r, IsText(r), r[1] \notin {66, 98},
           NEW y \in Seq(0 .. 256), toBridge' = toBridge \o y, Len(y) = Len(r) + 3,
           \A i \in 1 .. Len(r) : y[i] = r[i],
           y[Len(r) + 1] = Hash, y[Len(r) + 2] = HighDigit(r), y[Len(r) + 3] = LowDigit(r)
    PROVE  Doomed'
<1>1. PICK w, v, K, L : w = toBridge /\ v = toBridge' /\ v = w \o y /\ K = Len(w) /\ L = Len(r)
  OBVIOUS
<1>2. /\ IsExtended(v, w) /\ K \in Nat /\ L \in Nat \ {0} /\ Len(v) = K + L + 3
      /\ \A i \in 1 .. K : v[i] = w[i]
      /\ \A i \in 1 .. L + 3 : v[K + i] = y[i]
  <2>1. w \in Seq(0 .. 256)
    BY <1>1 DEF PacketsTypeOK
  <2>2. /\ IsExtended(v, w) /\ Len(v) = Len(w) + Len(y) /\ Len(w) \in Nat /\ Len(y) \in Nat
        /\ \A i \in 1 .. Len(y) : v[Len(w) + i] = y[i]
    <3>1. PICK S : S = 0 .. 256
      OBVIOUS
    <3>2. w \in Seq(S) /\ y \in Seq(S) /\ v = w \o y
      BY <3>1, <2>1, <1>1
    <3> QED BY ONLY <3>2, ConcatExtends
  <2>3. L \in Nat \ {0}
    BY <1>1, FrameOfText
  <2> QED BY <2>2, <2>3, <1>1 DEF IsExtended
<1>3. IsExtended(toBridge', toBridge)
  BY <1>1, <1>2
<1>4. v[K + 1] = r[1]
  BY <1>1, <1>2
<1>5. CASE DoomedAcking
  <2>1. pc = "acking" /\ w # <<>> /\ w[1] # Plus
    BY <1>1, <1>5 DEF DoomedAcking
  <2>2. K # 0
    BY <2>1, <1>1, EmptySeq DEF PacketsTypeOK
  <2>3. v[1] = w[1] /\ Len(v) # 0
    BY <2>2, <1>2
  <2>4. v # <<>>
    BY <2>3
  <2>5. DoomedAcking'
    BY <2>1, <2>3, <2>4, <1>1 DEF DoomedAcking, Waiting
  <2> QED BY <2>5 DEF Doomed
<1>6. ASSUME NEW a \in Int, DoomedStart(a) PROVE DoomedStart(a)'
  <2>1. /\ Lead(a) /\ a < K /\ a \in 0 .. K
        /\ w[a + 1] \notin {Plus, Minus, Dollar, GDB_RSP_BREAK_CMD}
    BY <1>1, <1>6 DEF DoomedStart, Lead, Kills
  <2>2. a < Len(v) /\ v[a + 1] = w[a + 1]
    <3>1. a + 1 \in 1 .. K /\ a < K + L + 3
      BY <2>1, <1>2
    <3> QED BY <3>1, <1>2
  <2>3. Lead(a)'
    BY <2>1, <1>3, LeadStays
  <2> QED BY <2>1, <2>2, <2>3, <1>1 DEF DoomedStart
<1>7. ASSUME NEW a \in Int, NEW t \in Texts, NEW d \in HexDigit, WrongPacket(a, t, d)
      PROVE  WrongPacket(a, t, d)'
  <2> DEFINE T == Len(t)
  <2>1. /\ Reached(a, t, d) /\ PacketOn(w, a, t, d)
        /\ a + T + 4 <= K => ~Agree(Sum(t), d, w[a + T + 4])
        /\ ~(a + T + 4 <= K) => t = Kill /\ d \in {54, 98}
    BY <1>1, <1>7 DEF WrongPacket
  <2>2. T \in Nat /\ t \in Chars
    BY LenProperties DEF Texts, Chars
  <2>3. a + T + 3 <= K /\ a >= -(T + 3)
    <3>1. a >= -(T + 3)
      <4>1. a >= 0 \/ -a <= T + 1 \/ a = -(T + 2) \/ a = -(T + 3)
        BY <2>1 DEF Reached, TextReached
      <4> QED BY ONLY <4>1, <2>2, a \in Int
    <3>2. a + Len(t) + 3 <= Len(w)
      BY <2>1 DEF PacketOn
    <3> QED BY <3>1, <3>2, <1>1
  <2>4. Reached(a, t, d)' /\ PacketOn(v, a, t, d)
    BY <2>1, <2>2, <1>2, <1>3, ReachedStays, PacketStays
  <2> HIDE DEF T
  <2>5. CASE a + T + 4 <= K
    <3>1. a + T + 4 <= Len(v) /\ v[a + T + 4] = w[a + T + 4]
      BY <2>2, <2>3, <2>5, <1>2
    <3>2. ~Agree(Sum(t), d, v[a + T + 4])
      BY ONLY <2>1, <2>5, <3>1
    <3>3. a + Len(t) + 4 <= Len(v) /\ ~Agree(Sum(t), d, v[a + Len(t) + 4])
      BY <3>1, <3>2 DEF T
    <3> QED BY <2>4, <3>3, <1>1 DEF WrongPacket
  <2>6. CASE ~(a + T + 4 <= K)
    <3>1. a + T + 4 = K + 1 /\ a + T + 4 <= Len(v)
      BY <2>2, <2>3, <2>6, <1>2
    <3>2. v[a + T + 4] \notin {66, 98}
      BY <3>1, <1>4
    <3>3. ~Agree(107, d, v[a + T + 4])
      BY <3>2, <2>1, <2>6, KillNeedsItsDigits
    <3>4. Sum(t) = 107
      BY <2>1, <2>6, KillSums
    <3> QED BY <2>4, <3>1, <3>3, <3>4, <1>1 DEF WrongPacket, T
  <2> QED BY <2>5, <2>6
<1>8. ASSUME NEW a \in Int, Endless(a) PROVE Endless(a)'
  <2>1. a >= -1 /\ a < K
    BY <1>1, <1>2, <1>8 DEF Endless
  <2>2. \/ a >= 0 /\ Lead(a) /\ w[a + 1] = Dollar
        \/ a = -1 /\ pc = "body"
    BY <1>1, <1>8 DEF Endless
  <2>3. \A i \in a + 2 .. K : w[i] = Hash => \E j \in a + 2 .. i - 1 : w[j] = Dollar
    BY <1>1, <1>8 DEF Endless
  <2>4. PICK m \in a + 2 .. K : w[m] = Dollar
    BY <1>1, <1>8 DEF Endless
  <2>5. \/ a >= 0 /\ Lead(a)' /\ a < Len(v) /\ v[a + 1] = Dollar
        \/ a = -1 /\ pc' = "body"
    <3>1. a < Len(v)
      BY <2>1, <1>2
    <3>2. a >= 0 => a + 1 \in 1 .. K
      BY <2>1, <1>2
    <3>3. Lead(a) => Lead(a)'
      BY <1>3, LeadStays
    <3> QED BY <3>1, <3>2, <3>3, <2>2, <1>2 DEF Waiting
  <2>6. ASSUME NEW j \in a + 2 .. K PROVE j \in 1 .. K /\ j \in a + 2 .. K + L + 3 /\ v[j] = w[j]
    <3>1. j \in 1 .. K /\ j \in a + 2 .. K + L + 3
      BY <1>2, <2>1
    <3> QED BY <3>1, <1>2
  <2>7. ASSUME NEW i \in a + 2 .. K + L + 3, v[i] = Hash
        PROVE  \E j \in a + 2 .. i - 1 : v[j] = Dollar
    <3>1. CASE i <= K
      <4>1. i \in a + 2 .. K /\ w[i] = Hash
        BY <2>6, <2>7, <3>1, <1>2
      <4>2. PICK j \in a + 2 .. i - 1 : w[j] = Dollar
        BY <4>1, <2>3
      <4>3. j \in a + 2 .. K
        BY <4>1, <4>2, <1>2
      <4> QED BY <4>2, <4>3, <2>6
    <3>2. CASE ~(i <= K)
      <4>1. m \in a + 2 .. i - 1
        BY <3>2, <2>4, <1>2
      <4> QED BY <4>1, <2>4, <2>6
    <3> QED BY <3>1, <3>2
  <2>8. \E j \in a + 2 .. K + L + 3 : v[j] = Dollar
    BY <2>4, <2>6
  <2>9. toBridge' = v /\ Len(toBridge') = K + L + 3
    BY <1>1, <1>2
  <2>10. \/ a >= 0 /\ Lead(a)' /\ a < Len(toBridge') /\ toBridge'[a + 1] = Dollar
         \/ a = -1 /\ pc' = "body"
    BY ONLY <2>5, <2>9
  <2>11. \A i \in a + 2 .. Len(toBridge') :
            toBridge'[i] = Hash => \E j \in a + 2 .. i - 1 : toBridge'[j] = Dollar
    BY ONLY <2>7, <2>9
  <2>12. \E j \in a + 2 .. Len(toBridge') : toBridge'[j] = Dollar
    BY ONLY <2>8, <2>9
  <2> QED BY ONLY <2>10, <2>11, <2>12 DEF Endless
<1>9. ASSUME NEW a \in Int, OpenKillComing(a) PROVE Doomed'
  <2>1. TextReached(a, OpenKill) /\ TextOn(w, a, OpenKill) /\ K = a + 4
    BY <1>1, <1>9 DEF OpenKillComing
  <2>2. PICK t, d, c : t = OpenKill \o r /\ d = HighDigit(r) /\ c = LowDigit(r)
    OBVIOUS
  <2>3. /\ t \in Chars /\ Len(t) = L + 3 /\ Sum(t) # Sum(r)
        /\ \A i \in 1 .. 3 : t[i] = OpenKill[i]
        /\ \A i \in 1 .. L : t[i + 3] = r[i]
    <3> DEFINE x == OpenKill \o r
    <3>1. L = Len(r) /\ t = x
      BY ONLY <1>1, <2>2
    <3>4. IsText(r)
      OBVIOUS
    <3>2. x \in Chars /\ Len(x) = L + 3 /\ Sum(x) # Sum(r)
      BY ONLY <3>1, <3>4, OpenKillSpoilsSum
    <3>3. /\ \A i \in 1 .. 3 : x[i] = OpenKill[i]
          /\ \A i \in 1 .. L : x[i + 3] = r[i]
      BY ONLY <3>1, <3>4, OpenKillSpoilsSum
    <3> HIDE DEF x
    <3> QED BY ONLY <3>1, <3>2, <3>3
  <2>4. OpenKill \in Chars /\ Len(OpenKill) = 3 /\ \A i \in 1 .. 3 : OpenKill[i] # Hash
    <3>1. \A i \in 1 .. 3 : i = 1 \/ i = 2 \/ i = 3
      OBVIOUS
    <3> QED BY <3>1, KillSums DEF KillRequest, Hash
  <2>5. t \in Texts
    <3>1. ASSUME NEW i \in 1 .. Len(t) PROVE t[i] # Hash
      <4>1. i \in 1 .. 3 \/ (i - 3 \in 1 .. L /\ (i - 3) + 3 = i)
        BY <2>3, <1>2
      <4>2. \A j \in 1 .. L : r[j] # Hash
        BY <1>1 DEF IsText
      <4>3. CASE i \in 1 .. 3
        BY ONLY <4>3, <2>3, <2>4
      <4>4. CASE i - 3 \in 1 .. L /\ (i - 3) + 3 = i
        <5>1. t[(i - 3) + 3] = r[i - 3]
          BY <4>4, <2>3
        <5> QED BY <4>2, <4>4, <5>1
      <4> QED BY <4>1, <4>3, <4>4
    <3> QED BY <3>1, <2>3 DEF Texts
  <2>6. d \in HexDigit /\ ~Agree(Sum(t), d, c)
    <3>1. r \in Chars
      BY DEF IsText
    <3> QED BY <3>1, <2>2, <2>3, DigitsOfSum
  <2>7. \A n \in 0 .. 3 : SubSeq(t, 1, n) = SubSeq(OpenKill, 1, n)
    <3>1. t \in Seq(0 .. 255) /\ OpenKill \in Seq(0 .. 255)
      BY <2>3, <2>4 DEF Chars
    <3>2. ASSUME NEW n \in 0 .. 3
          PROVE  SubSeq(t, 1, n) = SubSeq(OpenKill, 1, n)
      <4>1. (\A i \in 1 .. n : t[i] \in 0 .. 255 /\ OpenKill[i] \in 0 .. 255)
            /\ 1 \in Int /\ n \in Int
        <5>1. ASSUME NEW i \in 1 .. n PROVE t[i] \in 0 .. 255 /\ OpenKill[i] \in 0 .. 255
          <6>1. Len(t) = L + 3 /\ Len(OpenKill) = 3
            BY <2>3, <2>4
          <6>2. i \in 1 .. Len(t) /\ i \in 1 .. Len(OpenKill)
            BY <6>1, <1>2
          <6>3. ASSUME NEW s \in Seq(0 .. 255), i \in 1 .. Len(s) PROVE s[i] \in 0 .. 255
            BY ONLY <6>3, ElementOfSeq
          <6> QED BY ONLY <6>2, <6>3, <3>1
        <5> QED BY <5>1
      <4>2. /\ SubSeq(t, 1, n) \in Seq(0 .. 255) /\ SubSeq(OpenKill, 1, n) \in Seq(0 .. 255)
            /\ Len(SubSeq(t, 1, n)) = n /\ Len(SubSeq(OpenKill, 1, n)) = n
            /\ \A i \in 1 .. n : SubSeq(t, 1, n)[i] = t[i]
            /\ \A i \in 1 .. n : SubSeq(OpenKill, 1, n)[i] = OpenKill[i]
        <5> DEFINE P(u) == /\ SubSeq(u, 1, n) \in Seq(0 .. 255)
                           /\ Len(SubSeq(u, 1, n)) = IF 1 <= n THEN n - 1 + 1 ELSE 0
                           /\ \A i \in 1 .. n - 1 + 1 : SubSeq(u, 1, n)[i] = u[1 + i - 1]
        <5>1. P(t) /\ P(OpenKill)
          BY <4>1, SubSeqProperties
        <5>2. ASSUME NEW u, P(u)
              PROVE  /\ SubSeq(u, 1, n) \in Seq(0 .. 255) /\ Len(SubSeq(u, 1, n)) = n
                     /\ \A i \in 1 .. n : SubSeq(u, 1, n)[i] = u[i]
          <6>1. n - 1 + 1 = n /\ (~(1 <= n) => n = 0)
            OBVIOUS
          <6>2. \A i \in 1 .. n : 1 + i - 1 = i
            OBVIOUS
          <6> QED BY <6>1, <6>2, <5>2
        <5> HIDE DEF P
        <5> QED BY <5>1, <5>2
      <4>3. \A i \in 1 .. n : SubSeq(t, 1, n)[i] = SubSeq(OpenKill, 1, n)[i]
        <5>1. \A i \in 1 .. n : i \in 1 .. 3
          OBVIOUS
        <5> QED BY <5>1, <4>2, <2>3
      <4> QED BY ONLY <4>2, <4>3, SeqEqual
    <3> QED BY <3>2
  <2>8. TextReached(a, t)'
    <3>1. CASE a >= 0
      <4>1. Lead(a)
        BY <3>1, <2>1 DEF TextReached
      <4> QED BY <4>1, <3>1, <1>3, LeadStays DEF TextReached
    <3>2. CASE ~(a >= 0)
      <4>1. -a <= 3 + 1 /\ pc = "body" /\ buf = SubSeq(OpenKill, 1, -a - 1)
        BY <3>2, <2>1, <2>4 DEF TextReached
      <4>2. -a - 1 \in 0 .. 3 /\ -a <= L + 3 + 1 /\ a < 0
        BY <3>2, <4>1, <1>2
      <4>3. buf = SubSeq(t, 1, -a - 1)
        BY <4>1, <4>2, <2>7
      <4>4. -a <= Len(t) + 1
        BY <4>2, <2>3
      <4> QED BY <4>1, <4>2, <4>3, <4>4 DEF TextReached, Waiting, receiver
    <3> QED BY <3>1, <3>2
  <2>9. v[K + L + 1] = Hash /\ v[K + L + 2] = d /\ v[K + L + 3] = c
    <3>1. L + 1 \in 1 .. L + 3 /\ L + 2 \in 1 .. L + 3 /\ L + 3 \in 1 .. L + 3
      BY <1>2
    <3>2. v[K + (L + 1)] = Hash /\ v[K + (L + 2)] = d /\ v[K + (L + 3)] = c
      BY <3>1, <1>1, <1>2, <2>2
    <3>3. K + (L + 1) = K + L + 1 /\ K + (L + 2) = K + L + 2 /\ K + (L + 3) = K + L + 3
      BY <1>2
    <3> QED BY <3>2, <3>3
  <2>10. TextOn(v, a, OpenKill)
    BY <2>1, <2>4, <1>2, TextStays
  <2>11. ASSUME NEW i \in 1 .. L + 3, a + 1 + i >= 1 PROVE v[a + 1 + i] = t[i]
    <3>1. CASE i \in 1 .. 3
      BY <3>1, <2>3, <2>4, <2>10, <2>11 DEF TextOn
    <3>2. CASE i \notin 1 .. 3
      <4>1. i - 3 \in 1 .. L /\ (i - 3) + 3 = i /\ i - 3 \in 1 .. L + 3
            /\ a + 1 + i = K + (i - 3)
        BY <3>2, <2>1, <1>2
      <4>2. PICK j : j = i - 3
        OBVIOUS
      <4>3. j \in 1 .. L /\ j + 3 = i /\ j \in 1 .. L + 3 /\ a + 1 + i = K + j
        BY ONLY <4>1, <4>2
      <4>4. t[j + 3] = r[j]
        BY ONLY <4>3, <2>3
      <4>5. v[K + j] = y[j]
        BY ONLY <4>3, <1>2
      <4>6. y[j] = r[j]
        BY <4>3, <1>1
      <4> QED BY ONLY <4>3, <4>4, <4>5, <4>6
    <3> QED BY <3>1, <3>2
  <2>12. TextOn(v, a, t)
    <3>1. a + (L + 3) + 1 <= Len(v)
      BY <2>1, <1>2
    <3>2. a >= 0 => v[a + 1] = Dollar
      BY <2>10 DEF TextOn
    <3> QED BY <3>1, <3>2, <2>11, <2>3 DEF TextOn
  <2>13. PacketOn(v, a, t, d)
    <3>1. a + (L + 3) + 3 <= Len(v) /\ a + (L + 3) + 2 = K + L + 1 /\ a + (L + 3) + 3 = K + L + 2
      BY <2>1, <1>2
    <3> QED BY <3>1, <2>3, <2>9, <2>12 DEF PacketOn
  <2>14. a + (L + 3) + 4 = K + L + 3
    BY <2>1, <1>2
  <2>15. a + Len(t) + 4 <= Len(toBridge') /\ toBridge'[a + Len(t) + 4] = c
    <3>1. a + (L + 3) + 4 <= Len(v) /\ v[a + (L + 3) + 4] = c
      BY ONLY <2>9, <2>14, <1>2
    <3> QED BY ONLY <3>1, <2>3, <1>1
  <2>16. Reached(a, t, d)'
    BY <2>8 DEF Reached
  <2>17. WrongPacket(a, t, d)'
    BY <2>6, <2>13, <2>15, <2>16, <1>1 DEF WrongPacket
  <2> QED BY <2>5, <2>6, <2>17 DEF Doomed
<1> QED BY <1>5, <1>6, <1>7, <1>8, <1>9 DEF Doomed

(* A sequence without one of its elements.                                 *)
LEMMA Removed ==
    ASSUME NEW S, NEW s \in Seq(S), NEW k \in 1 .. Len(s), NEW y, y = RemoveAt(s, k)
    PROVE  /\ y \in Seq(S) /\ Len(s) \in Nat /\ Len(y) = Len(s) - 1
           /\ \A i \in 1 .. k - 1 : y[i] = s[i]
           /\ \A i \in k .. Len(s) - 1 : y[i] = s[i + 1]
<1>1. PICK N : N = Len(s) /\ N \in Nat
  BY LenProperties
<1>2. PICK x, z : x = SubSeq(s, 1, k - 1) /\ z = SubSeq(s, k + 1, N)
  OBVIOUS
<1>3. y = x \o z
  BY <1>1, <1>2 DEF RemoveAt
<1>4. \A i \in 1 .. N : s[i] \in S
  BY <1>1, ElementOfSeq
<1>5. k \in 1 .. N /\ k \in Int
  BY <1>1
<1>6. x \in Seq(S) /\ Len(x) = k - 1 /\ \A i \in 1 .. k - 1 : x[i] = s[i]
  <2>1. 1 \in Int /\ k - 1 \in Int /\ \A i \in 1 .. k - 1 : s[i] \in S
    BY <1>4, <1>5
  <2>2. /\ x \in Seq(S) /\ Len(x) = (IF 1 <= k - 1 THEN k - 1 - 1 + 1 ELSE 0)
        /\ \A i \in 1 .. k - 1 - 1 + 1 : x[i] = s[1 + i - 1]
    BY <2>1, <1>2, SubSeqProperties
  <2>3. k - 1 - 1 + 1 = k - 1 /\ (~(1 <= k - 1) => k - 1 = 0)
        /\ \A i \in 1 .. k - 1 : 1 + i - 1 = i
    BY <1>5
  <2> QED BY <2>2, <2>3
<1>7. z \in Seq(S) /\ Len(z) = N - k /\ \A i \in 1 .. N - k : z[i] = s[k + i]
  <2>1. k + 1 \in Int /\ N \in Int /\ \A i \in k + 1 .. N : s[i] \in S
    BY <1>1, <1>4, <1>5
  <2>2. /\ z \in Seq(S) /\ Len(z) = (IF k + 1 <= N THEN N - (k + 1) + 1 ELSE 0)
        /\ \A i \in 1 .. N - (k + 1) + 1 : z[i] = s[k + 1 + i - 1]
    BY <2>1, <1>2, SubSeqProperties
  <2>3. N - (k + 1) + 1 = N - k /\ (~(k + 1 <= N) => N - k = 0)
        /\ \A i \in 1 .. N - k : k + 1 + i - 1 = k + i
    BY <1>1, <1>5
  <2> QED BY <2>2, <2>3
<1>8. /\ y \in Seq(S) /\ Len(y) = Len(x) + Len(z)
      /\ \A i \in 1 .. Len(x) + Len(z) :
            y[i] = IF i <= Len(x) THEN x[i] ELSE z[i - Len(x)]
  BY <1>3, <1>6, <1>7, ConcatProperties
<1>9. Len(y) = N - 1
  BY <1>1, <1>5, <1>6, <1>7, <1>8
<1>10. ASSUME NEW i \in 1 .. k - 1 PROVE y[i] = s[i]
  <2>1. i \in 1 .. Len(x) + Len(z) /\ i <= Len(x)
    BY <1>1, <1>5, <1>6, <1>7
  <2> QED BY <2>1, <1>6, <1>8
<1>11. ASSUME NEW i \in k .. N - 1 PROVE y[i] = s[i + 1]
  <2>1. i \in 1 .. Len(x) + Len(z) /\ ~(i <= Len(x)) /\ i - Len(x) = i - k + 1
        /\ i - k + 1 \in 1 .. N - k /\ k + (i - k + 1) = i + 1
    BY <1>1, <1>5, <1>6, <1>7
  <2> QED BY <2>1, <1>7, <1>8
<1> QED BY <1>1, <1>8, <1>9, <1>10, <1>11

(* A packet is sent when nothing is on its way but what comes first.       *)
LEMMA NewText ==
    ASSUME Waiting, PacketsTypeOK, NEW a, a = Len(toBridge), Lead(a),
           NEW y \in Seq(0 .. 256), toBridge' = toBridge \o y
    PROVE  /\ Lead(a)' /\ a \in Nat /\ Len(toBridge') = a + Len(y) /\ Len(y) \in Nat
           /\ \A i \in 1 .. Len(y) : toBridge'[a + i] = y[i]
           /\ \A t : TextReached(a, t)' /\ \A d : Reached(a, t, d)'
<1>1. PICK w, v : w = toBridge /\ v = toBridge' /\ v = w \o y
  OBVIOUS
<1>2. /\ IsExtended(v, w) /\ Len(v) = Len(w) + Len(y) /\ Len(w) \in Nat /\ Len(y) \in Nat
      /\ \A i \in 1 .. Len(y) : v[Len(w) + i] = y[i]
  <2>1. w \in Seq(0 .. 256)
    BY <1>1 DEF PacketsTypeOK
  <2> QED BY <2>1, <1>1, ConcatExtends
<1>3. Lead(a)'
  BY <1>1, <1>2, LeadStays
<1>4. a \in Nat /\ a >= 0
  BY <1>1, <1>2
<1>5. \A t : TextReached(a, t)' /\ \A d : Reached(a, t, d)'
  BY <1>3, <1>4 DEF TextReached, Reached
<1> QED BY <1>1, <1>2, <1>3, <1>4, <1>5

(* The packet of a text, or what is left of it, with the text t and the    *)
(* first digit d.                                                          *)
LEMMA NewPacket ==
    ASSUME Waiting, PacketsTypeOK, NEW a, a = Len(toBridge), Lead(a),
           NEW y \in Seq(0 .. 256), toBridge' = toBridge \o y,
           NEW t \in Chars, NEW d, Len(y) >= Len(t) + 3, y[1] = Dollar,
           \A i \in 1 .. Len(t) : y[i + 1] = t[i], y[Len(t) + 2] = Hash, y[Len(t) + 3] = d
    PROVE  /\ Reached(a, t, d)' /\ PacketOn(toBridge', a, t, d)
           /\ Len(toBridge') = a + Len(y) /\ a \in Nat
           /\ Len(y) >= Len(t) + 4 => toBridge'[a + Len(t) + 4] = y[Len(t) + 4]
<1>1. PICK v, T, M : v = toBridge' /\ T = Len(t) /\ M = Len(y)
  OBVIOUS
<1>2. T \in Nat /\ M \in Nat /\ M >= T + 3
  BY <1>1, LenProperties DEF Chars
<1>3. /\ a \in Nat /\ Len(v) = a + M /\ Reached(a, t, d)'
      /\ \A i \in 1 .. M : v[a + i] = y[i]
  BY <1>1, NewText
<1>4. v[a + 1] = Dollar
  BY <1>2, <1>3
<1>5. ASSUME NEW i \in 1 .. T PROVE v[a + 1 + i] = t[i]
  <2>1. i + 1 \in 1 .. M /\ a + (i + 1) = a + 1 + i
    <3>1. a \in Nat
      BY <1>3
    <3> QED BY ONLY <3>1, <1>2, i \in 1 .. T
  <2>2. y[i + 1] = t[i]
    BY <1>1
  <2> QED BY <2>1, <2>2, <1>3
<1>6. v[a + T + 2] = Hash /\ v[a + T + 3] = d
  <2>1. T + 2 \in 1 .. M /\ T + 3 \in 1 .. M
        /\ a + (T + 2) = a + T + 2 /\ a + (T + 3) = a + T + 3
    BY <1>2, <1>3
  <2>2. v[a + (T + 2)] = Hash /\ v[a + (T + 3)] = d
    BY <2>1, <1>1, <1>3
  <2> QED BY <2>1, <2>2
<1>7. M >= T + 4 => v[a + T + 4] = y[T + 4]
  <2>1. SUFFICES ASSUME M >= T + 4 PROVE v[a + T + 4] = y[T + 4]
    OBVIOUS
  <2>2. T + 4 \in 1 .. M /\ a + (T + 4) = a + T + 4
    BY <2>1, <1>2, <1>3
  <2>3. v[a + (T + 4)] = y[T + 4]
    BY <2>2, <1>3
  <2> QED BY <2>2, <2>3
<1>8. a + T + 1 <= Len(v) /\ a + T + 3 <= Len(v)
  BY <1>2, <1>3
<1>9. PacketOn(v, a, t, d)
  BY <1>1, <1>4, <1>5, <1>6, <1>8 DEF PacketOn, TextOn
<1> QED BY <1>1, <1>3, <1>7, <1>9

(* GDB makes a request r, and sends y of it.                               *)
Asking(r, y) == Asks(r) /\ toBridge' = toBridge \o y

(* What comes first does not matter, and the whole request comes after it. *)
LEMMA AskedWhole ==
    ASSUME PacketsTypeOK, NEW a, a = Len(toBridge), Lead(a), NEW r \in Request,
           Asking(r, Sent(r)), damaged' = FALSE
    PROVE  Calm' \/ Coming'
<1>1. /\ Waiting /\ toBridge' = toBridge \o Sent(r) /\ request' = r
      /\ gdb' = (IF r = Break THEN "reply" ELSE "ack") /\ started' = 0 /\ answered' = 0
  BY DEF Asking, Asks, Waiting, Break
<1>2. CASE r = Kill
  <2>1. r # Break
    BY <1>2 DEF Break, Kill, KillRequest, GDB_RSP_BREAK_CMD
  <2>2. toBridge' = toBridge \o Frame(Kill)
    BY <2>1, <1>1, <1>2 DEF Sent, Break
  <2>3. Lead(a + 5)' /\ a + 5 = Len(toBridge')
    BY <2>2, <1>1, LeadGrows
  <2>4. PICK e : e = a + 5
    OBVIOUS
  <2>5. Lead(e)' /\ e = Len(toBridge') /\ e \in 0 .. Len(toBridge')
    <3>1. a \in Nat
      BY LenProperties DEF PacketsTypeOK
    <3> QED BY <3>1, <2>3, <2>4
  <2>6. \A i \in e + 1 .. Len(toBridge') : toBridge'[i] \in {Minus, EndOfFile}
    BY <2>5
  <2> QED BY <2>1, <2>5, <2>6, <1>1, <1>2 DEF Calm
<1>3. CASE r = Break
  <2>1. Break \in Seq(0 .. 256) /\ Len(Break) = 1 /\ Break[1] = GDB_RSP_BREAK_CMD
    BY DEF Break, GDB_RSP_BREAK_CMD
  <2>2. toBridge' = toBridge \o Break
    BY <1>1, <1>3 DEF Sent, Break
  <2>3. /\ Lead(a)' /\ a \in Nat /\ Len(toBridge') = a + 1
        /\ toBridge'[a + 1] = GDB_RSP_BREAK_CMD
    <3>1. PICK y : y = Break
      OBVIOUS
    <3>2. y \in Seq(0 .. 256) /\ Len(y) = 1 /\ y[1] = GDB_RSP_BREAK_CMD
          /\ toBridge' = toBridge \o y
      BY <3>1, <2>1, <2>2
    <3>3. /\ Lead(a)' /\ a \in Nat /\ Len(toBridge') = a + Len(y)
          /\ \A i \in 1 .. Len(y) : toBridge'[a + i] = y[i]
      BY <3>2, <1>1, NewText
    <3>4. 1 \in 1 .. Len(y)
      BY <3>2
    <3> QED BY <3>2, <3>3, <3>4
  <2>4. ~(a + 2 <= Len(toBridge')) /\ a < Len(toBridge')
    BY <2>3
  <2>5. BreakComing(a)'
    BY <2>3, <2>4, <1>1, <1>3 DEF BreakComing, After
  <2>6. Break # Kill /\ Break # <<>>
    BY DEF Break, Kill, KillRequest, GDB_RSP_BREAK_CMD
  <2> QED BY <2>3, <2>5, <2>6, <1>1, <1>3 DEF Coming
<1>4. CASE r # Kill /\ r # Break
  <2>1. IsText(r) /\ r \in Chars /\ r # <<>>
    BY <1>4, RequestIs
  <2>2. PICK y, L : y = Frame(r) /\ L = Len(r)
    OBVIOUS
  <2>3. /\ y \in Seq(0 .. 256) /\ L \in Nat \ {0} /\ Len(y) = L + 4 /\ y[1] = Dollar
        /\ \A i \in 1 .. L : y[i + 1] = r[i]
        /\ y[L + 2] = Hash /\ y[L + 3] = HighDigit(r) /\ y[L + 4] = LowDigit(r)
    <3>1. 0 .. 255 \subseteq 0 .. 256
      OBVIOUS
    <3>2. /\ y \in Chars /\ L \in Nat \ {0} /\ Len(y) = L + 4 /\ y[1] = Dollar
          /\ \A i \in 1 .. L : y[i + 1] = r[i]
          /\ y[L + 2] = Hash /\ y[L + 3] = HighDigit(r) /\ y[L + 4] = LowDigit(r)
      BY <2>1, <2>2, FrameOfText
    <3>3. y \in Seq(0 .. 256)
      BY <3>1, <3>2 DEF Chars
    <3> QED BY <3>2, <3>3
  <2>4. toBridge' = toBridge \o y
    BY <1>1, <1>4, <2>2 DEF Sent, Break
  <2>5. PICK d : d = HighDigit(r)
    OBVIOUS
  <2>6. Len(y) >= L + 3 /\ Len(y) >= L + 4
    BY <2>3
  <2>7. /\ Reached(a, r, d)' /\ PacketOn(toBridge', a, r, d)
        /\ Len(toBridge') = a + (L + 4) /\ a \in Nat
        /\ toBridge'[a + L + 4] = y[L + 4]
    <3>1. /\ Len(y) >= Len(r) + 3 /\ y[1] = Dollar /\ y[Len(r) + 2] = Hash
          /\ y[Len(r) + 3] = d /\ \A i \in 1 .. Len(r) : y[i + 1] = r[i]
      BY ONLY <2>2, <2>3, <2>5, <2>6
    <3>2. y \in Seq(0 .. 256) /\ r \in Chars /\ Waiting
      BY <2>1, <2>3, <1>1
    <3>3. /\ Reached(a, r, d)' /\ PacketOn(toBridge', a, r, d)
          /\ Len(toBridge') = a + Len(y) /\ a \in Nat
          /\ Len(y) >= Len(r) + 4 => toBridge'[a + Len(r) + 4] = y[Len(r) + 4]
      BY ONLY <3>1, <3>2, <2>4, PacketsTypeOK, a = Len(toBridge), Lead(a), NewPacket
    <3> QED BY ONLY <3>3, <2>2, <2>3, <2>6
  <2>8. a + L + 4 <= Len(toBridge') /\ ~(a + L + 5 <= Len(toBridge'))
    BY <2>3, <2>7
  <2>9. PacketComing(a, r)'
    BY <2>2, <2>3, <2>5, <2>7, <2>8, <1>1, <1>4 DEF PacketComing, After
  <2> QED BY <2>1, <2>7, <2>9, <1>1, <1>4 DEF Coming
<1> QED BY <1>2, <1>3, <1>4

(* What comes first does not matter, and the request after it lost its     *)
(* '$': no packet begins like that.                                        *)
LEMMA AskedWithoutStart ==
    ASSUME PacketsTypeOK, NEW a, a = Len(toBridge), Lead(a),
           NEW r, IsText(r), r[1] \notin {Plus, Minus}, NEW y \in Seq(0 .. 256), Asking(r, y),
           Len(y) # 0, y[1] = r[1]
    PROVE  Doomed'
<1>1. Waiting /\ toBridge' = toBridge \o y
  BY DEF Asking, Asks, Waiting
<1>2. /\ Lead(a)' /\ a \in Nat /\ Len(toBridge') = a + Len(y) /\ Len(y) \in Nat
      /\ \A i \in 1 .. Len(y) : toBridge'[a + i] = y[i]
  BY <1>1, NewText
<1>3. 1 \in 1 .. Len(y) /\ a < Len(toBridge')
  BY <1>2
<1>4. toBridge'[a + 1] = r[1]
  BY <1>2, <1>3
<1>5. r[1] \notin {Dollar, GDB_RSP_BREAK_CMD}
  <2>1. Len(r) \in Nat \ {0}
    BY FrameOfText
  <2>2. 1 \in 1 .. Len(r)
    BY <2>1
  <2> QED BY <2>2 DEF IsText
<1>6. DoomedStart(a)' /\ a \in Int
  BY <1>2, <1>3, <1>4, <1>5 DEF DoomedStart
<1> QED BY <1>6 DEF Doomed

(* It lost a character of its text, or a digit of its checksum: the other  *)
(* one is there, with no other digit than that of a kill request next to   *)
(* it.                                                                     *)
LEMMA AskedWithoutCharacter ==
    ASSUME PacketsTypeOK, NEW a, a = Len(toBridge), Lead(a),
           NEW r, NEW y \in Seq(0 .. 256), Asking(r, y),
           NEW t \in Texts, NEW d \in HexDigit, Len(y) >= Len(t) + 3, y[1] = Dollar,
           \A i \in 1 .. Len(t) : y[i + 1] = t[i], y[Len(t) + 2] = Hash, y[Len(t) + 3] = d,
           Len(y) >= Len(t) + 4 => ~Agree(Sum(t), d, y[Len(t) + 4]),
           Len(y) = Len(t) + 3 /\ r = Kill => t = Kill /\ d \in {54, 98}
    PROVE  Doomed'
<1>1. /\ Waiting /\ toBridge' = toBridge \o y /\ request' = r
      /\ gdb' = (IF r = Break THEN "reply" ELSE "ack")
  BY DEF Asking, Asks, Waiting, Break
<1>2. PICK T, M : T = Len(t) /\ M = Len(y)
  OBVIOUS
<1>3. t \in Chars /\ T \in Nat /\ M \in Nat /\ M >= T + 3
  BY <1>2, LenProperties DEF Chars, Texts
<1>4. /\ Reached(a, t, d)' /\ PacketOn(toBridge', a, t, d)
      /\ Len(toBridge') = a + M /\ a \in Nat
      /\ M >= T + 4 => toBridge'[a + T + 4] = y[T + 4]
  <2>1. /\ Reached(a, t, d)' /\ PacketOn(toBridge', a, t, d)
        /\ Len(toBridge') = a + Len(y) /\ a \in Nat
        /\ Len(y) >= Len(t) + 4 => toBridge'[a + Len(t) + 4] = y[Len(t) + 4]
    <3>1. \A i \in 1 .. Len(t) : y[i + 1] = t[i]
      OBVIOUS
    <3>2. Len(y) >= Len(t) + 3 /\ y[1] = Dollar /\ y[Len(t) + 2] = Hash /\ y[Len(t) + 3] = d
      OBVIOUS
    <3>3. y \in Seq(0 .. 256) /\ t \in Chars
      BY <1>3
    <3> QED BY ONLY <1>1, <3>1, <3>2, <3>3, PacketsTypeOK, a = Len(toBridge), Lead(a), NewPacket
  <2> QED BY ONLY <2>1, <1>2
<1>5. MayAsk' => r = Kill
  BY <1>1 DEF MayAsk
<1>6. WrongPacket(a, t, d)'
  <2>1. CASE M >= T + 4
    <3>1. a + T + 4 <= Len(toBridge')
      BY <2>1, <1>3, <1>4
    <3> QED BY <2>1, <3>1, <1>2, <1>4 DEF WrongPacket
  <2>2. CASE ~(M >= T + 4)
    <3>1. ~(a + T + 4 <= Len(toBridge')) /\ M = T + 3
      BY <2>2, <1>3, <1>4
    <3> QED BY <3>1, <1>2, <1>4, <1>5 DEF WrongPacket
  <2> QED BY <2>1, <2>2
<1>7. a \in Int
  BY <1>4
<1> QED BY <1>6, <1>7 DEF Doomed

(* It lost its '#'.                                                        *)
LEMMA AskedWithoutHash ==
    ASSUME PacketsTypeOK, NEW a, a = Len(toBridge), Lead(a),
           NEW r, IsText(r), NEW y \in Seq(0 .. 256), Asking(r, y),
           Len(y) = Len(r) + 3, y[1] = Dollar, \A i \in 1 .. Len(r) : y[i + 1] = r[i],
           y[Len(r) + 2] = HighDigit(r), y[Len(r) + 3] = LowDigit(r)
    PROVE  Doomed'
<1>1. /\ Waiting /\ toBridge' = toBridge \o y /\ request' = r
      /\ gdb' = (IF r = Break THEN "reply" ELSE "ack")
  BY DEF Asking, Asks, Waiting, Break
<1>2. PICK L, v : L = Len(r) /\ v = toBridge'
  OBVIOUS
<1>3. L \in Nat \ {0} /\ r \in Chars
  BY <1>2, FrameOfText DEF IsText
<1>4. /\ Lead(a)' /\ a \in Nat /\ Len(v) = a + Len(y) /\ Len(y) = L + 3
      /\ \A i \in 1 .. L + 3 : v[a + i] = y[i]
      /\ \A t : TextReached(a, t)'
  <2>1. /\ Lead(a)' /\ a \in Nat /\ Len(toBridge') = a + Len(y) /\ Len(y) \in Nat
        /\ \A i \in 1 .. Len(y) : toBridge'[a + i] = y[i]
        /\ \A t : TextReached(a, t)'
    BY ONLY <1>1, PacketsTypeOK, a = Len(toBridge), Lead(a), y \in Seq(0 .. 256), NewText
  <2>2. Len(y) = L + 3
    BY <1>2
  <2> QED BY ONLY <2>1, <2>2, <1>2
<1>5. CASE r = Kill
  <2>1. L = 1 /\ r[1] = KillRequest /\ HighDigit(r) = 54 /\ LowDigit(r) = 98
    BY <1>2, <1>5, KillSums DEF Kill
  <2>2. /\ Len(OpenKill) = 3 /\ OpenKill[1] = KillRequest
        /\ OpenKill[2] = 54 /\ OpenKill[3] = 98
    BY KillSums
  <2>3. y[1] = Dollar /\ y[2] = KillRequest /\ y[3] = 54 /\ y[4] = 98 /\ Len(v) = a + 4
    <3>1. y[1 + 1] = r[1]
      BY <1>2, <2>1
    <3>2. Len(r) = 1
      BY <1>2, <2>1
    <3>3. y[1 + 2] = HighDigit(r) /\ y[1 + 3] = LowDigit(r)
      BY <3>2
    <3>4. y[3] = 54 /\ y[4] = 98
      BY <3>3, <2>1
    <3>5. Len(v) = a + 4
      <4>1. Len(v) = a + (L + 3) /\ a \in Nat
        BY <1>4
      <4> QED BY ONLY <4>1, <2>1
    <3>6. y[2] = KillRequest
      BY ONLY <3>1, <2>1
    <3>7. y[1] = Dollar
      OBVIOUS
    <3> QED BY ONLY <3>4, <3>5, <3>6, <3>7
  <2>4. v[a + 1] = Dollar /\ v[a + 2] = KillRequest /\ v[a + 3] = 54 /\ v[a + 4] = 98
    BY <2>1, <2>3, <1>4
  <2>5. \A i \in 1 .. 3 : v[a + 1 + i] = OpenKill[i]
    <3>1. \A i \in 1 .. 3 : i = 1 \/ i = 2 \/ i = 3
      OBVIOUS
    <3>3. a + 1 + 1 = a + 2 /\ a + 1 + 2 = a + 3 /\ a + 1 + 3 = a + 4
      <4>1. a \in Nat
        BY <1>4
      <4> QED BY ONLY <4>1
    <3>2. v[a + 2] = OpenKill[1] /\ v[a + 3] = OpenKill[2] /\ v[a + 4] = OpenKill[3]
      BY <2>2, <2>4
    <3> QED BY ONLY <3>1, <3>2, <3>3
  <2>6. TextOn(v, a, OpenKill)
    <3>1. a + 3 + 1 <= Len(v)
      BY <2>3, <1>4
    <3> QED BY <3>1, <2>2, <2>4, <2>5 DEF TextOn
  <2>7. OpenKillComing(a)' /\ a \in Int
    BY <2>3, <2>6, <1>2, <1>4 DEF OpenKillComing
  <2> QED BY <2>7 DEF Doomed
<1>6. CASE r # Kill
  <2>1. ~MayAsk'
    BY <1>1, <1>6 DEF MayAsk
  <2>2. HighDigit(r) # Hash /\ LowDigit(r) # Hash
    <3>1. HighDigit(r) \in HexDigit /\ LowDigit(r) \in HexDigit
      BY <1>3, DigitsOfSum
    <3>2. Hash \notin HexDigit
      BY HexDigitIs
    <3> QED BY <3>1, <3>2
  <2>3. ASSUME NEW i \in a + 2 .. Len(v) PROVE v[i] # Hash
    <3>1. /\ i - a \in 1 .. L + 3 /\ a + (i - a) = i
          /\ \/ i - a - 1 \in 1 .. L /\ (i - a - 1) + 1 = i - a
             \/ i - a = L + 2 \/ i - a = L + 3
      <4>1. a \in Nat /\ L \in Nat \ {0} /\ Len(v) = a + (L + 3)
        BY <1>3, <1>4
      <4>2. i \in a + 2 .. a + (L + 3)
        BY <4>1
      <4> QED BY ONLY <4>1, <4>2
    <3>2. v[i] = y[i - a]
      BY <3>1, <1>4
    <3>3. CASE i - a - 1 \in 1 .. L /\ (i - a - 1) + 1 = i - a
      <4>1. y[i - a] = r[i - a - 1]
        BY <3>3, <1>2
      <4>2. r[i - a - 1] # Hash
        BY <3>3, <1>2 DEF IsText
      <4> QED BY <3>2, <4>1, <4>2
    <3>4. CASE i - a = L + 2 \/ i - a = L + 3
      BY <3>2, <3>4, <2>2, <1>2
    <3> QED BY <3>1, <3>3, <3>4
  <2>4. v[a + 1] = Dollar /\ a < Len(v) /\ a >= 0 /\ a \in Int
    <3>1. 1 \in 1 .. L + 3 /\ a < a + (L + 3)
      BY <1>3, <1>4
    <3> QED BY <3>1, <1>4
  <2>5. Endless(a)'
    BY <2>1, <2>3, <2>4, <1>2, <1>4 DEF Endless
  <2> QED BY <2>4, <2>5 DEF Doomed
<1> QED BY <1>5, <1>6

(* A text whose first character is nothing else.                           *)
Asked(r) == IsText(r) /\ r[1] \notin {Plus, Minus, 66, 98}

(* Requests are breaks or that.                                            *)
LEMMA RequestIsAsked ==
    ASSUME NEW r \in Request, r # Break
    PROVE  Asked(r)
<1>1. CASE r = Kill
  <2>1. Kill[1] = KillRequest
    BY DEF Kill
  <2> QED BY <2>1, <1>1, KillSums DEF Asked, KillRequest, Plus, Minus
<1>2. CASE r # Kill
  BY <1>2, RequestIs DEF Asked
<1> QED BY <1>1, <1>2

(* What is left of a packet.                                               *)
LEMMA LeftOfFrame ==
    ASSUME NEW r, IsText(r), NEW k \in 1 .. Len(Frame(r)), NEW y, y = RemoveAt(Frame(r), k)
    PROVE  /\ y \in Seq(0 .. 256) /\ Len(r) \in Nat \ {0} /\ Len(y) = Len(r) + 3
           /\ k \in 1 .. Len(r) + 4 /\ (k # 1 => y[1] = Dollar)
           /\ k = 1 => \A i \in 1 .. Len(r) : y[i] = r[i]
           /\ k # 1 => \A i \in 1 .. k - 2 : i <= Len(r) => y[i + 1] = r[i]
           /\ \A i \in k .. Len(r) : y[i] = r[i]
           /\ y[Len(r) + 1] = Hash \/ k >= Len(r) + 2
           /\ k >= Len(r) + 3 => y[Len(r) + 2] = Hash
           /\ k <= Len(r) + 2 => y[Len(r) + 2] = HighDigit(r)
           /\ y[Len(r) + 3] = IF k = Len(r) + 4 THEN HighDigit(r) ELSE LowDigit(r)
<1>1. PICK z, L : z = Frame(r) /\ L = Len(r)
  OBVIOUS
<1>2. /\ z \in Chars /\ L \in Nat \ {0} /\ Len(z) = L + 4
      /\ z[1] = Dollar /\ z[L + 2] = Hash
      /\ \A i \in 1 .. L : z[i + 1] = r[i]
      /\ z[L + 3] = HighDigit(r) /\ z[L + 4] = LowDigit(r)
  BY <1>1, FrameOfText
<1>3. k \in 1 .. L + 4 /\ k \in Int
  BY <1>1, <1>2
<1>4. /\ y \in Seq(0 .. 256) /\ Len(y) = L + 3
      /\ \A i \in 1 .. k - 1 : y[i] = z[i]
      /\ \A i \in k .. L + 3 : y[i] = z[i + 1]
  <2>1. z \in Seq(0 .. 255) /\ k \in 1 .. Len(z) /\ y = RemoveAt(z, k)
    BY <1>1, <1>2 DEF Chars
  <2>2. /\ y \in Seq(0 .. 255) /\ Len(y) = Len(z) - 1
        /\ \A i \in 1 .. k - 1 : y[i] = z[i]
        /\ \A i \in k .. Len(z) - 1 : y[i] = z[i + 1]
    BY <2>1, Removed, SMTT(30)
  <2>3. 0 .. 255 \subseteq 0 .. 256 /\ Len(z) - 1 = L + 3
    BY <1>2
  <2>4. y \in Seq(0 .. 256)
    BY <2>2, <2>3
  <2> QED BY <2>2, <2>3, <2>4
<1>5. k # 1 => y[1] = Dollar
  <2>1. k # 1 => 1 \in 1 .. k - 1
    BY <1>3
  <2> QED BY <2>1, <1>2, <1>4
<1>6. ASSUME k # 1, NEW i \in 1 .. k - 2, i <= L PROVE y[i + 1] = r[i]
  <2>1. i \in 1 .. L /\ i + 1 \in 1 .. k - 1
    BY <1>2, <1>3, <1>6
  <2> QED BY <2>1, <1>2, <1>4
<1>7. ASSUME NEW i \in k .. L PROVE y[i] = r[i]
  <2>1. i \in 1 .. L /\ i \in k .. L + 3
    BY <1>2, <1>3
  <2> QED BY <2>1, <1>2, <1>4
<1>8. y[L + 1] = Hash \/ k >= L + 2
  <2>1. k >= L + 2 \/ (L + 1 \in k .. L + 3 /\ (L + 1) + 1 = L + 2)
    BY <1>2, <1>3
  <2> QED BY <2>1, <1>2, <1>4
<1>9. k >= L + 3 => y[L + 2] = Hash
  <2>1. k >= L + 3 => L + 2 \in 1 .. k - 1
    BY <1>2, <1>3
  <2> QED BY <2>1, <1>2, <1>4
<1>10. k <= L + 2 => y[L + 2] = HighDigit(r)
  <2>1. k <= L + 2 => L + 2 \in k .. L + 3 /\ (L + 2) + 1 = L + 3
    BY <1>2, <1>3
  <2> QED BY <2>1, <1>2, <1>4
<1>11. CASE k = L + 4
  <2>1. L + 3 \in 1 .. k - 1
    BY <1>2, <1>11
  <2>2. y[L + 3] = HighDigit(r)
    BY <2>1, <1>2, <1>4
  <2> QED BY <2>2, <1>1, <1>2, <1>3, <1>4, <1>5, <1>6, <1>7, <1>8, <1>9, <1>10, <1>11
<1>12. CASE k # L + 4
  <2>1. L + 3 \in k .. L + 3 /\ (L + 3) + 1 = L + 4
    BY <1>2, <1>3, <1>12
  <2>2. y[L + 3] = LowDigit(r)
    BY <2>1, <1>2, <1>4
  <2> QED BY <2>2, <1>1, <1>2, <1>3, <1>4, <1>5, <1>6, <1>7, <1>8, <1>9, <1>10, <1>12
<1> QED BY <1>11, <1>12

(* What comes first does not matter, and after it comes a damaged packet.  *)
LEMMA AskedDamaged ==
    ASSUME PacketsTypeOK, NEW a, a = Len(toBridge), Lead(a),
           NEW r, Asked(r), NEW k \in 1 .. Len(Frame(r)), NEW y, y = RemoveAt(Frame(r), k),
           Asking(r, y)
    PROVE  Doomed'
<1>1. IsText(r) /\ r[1] \notin {Plus, Minus}
  BY DEF Asked
<1>2. PICK L, h, l : L = Len(r) /\ h = HighDigit(r) /\ l = LowDigit(r)
  OBVIOUS
<1>3. /\ y \in Seq(0 .. 256) /\ L \in Nat \ {0} /\ Len(y) = L + 3
      /\ k \in 1 .. L + 4 /\ (k # 1 => y[1] = Dollar)
      /\ k = 1 => \A i \in 1 .. L : y[i] = r[i]
      /\ k # 1 => \A i \in 1 .. k - 2 : i <= L => y[i + 1] = r[i]
      /\ \A i \in k .. L : y[i] = r[i]
      /\ y[L + 1] = Hash \/ k >= L + 2
      /\ k >= L + 3 => y[L + 2] = Hash
      /\ k <= L + 2 => y[L + 2] = h
      /\ y[L + 3] = IF k = L + 4 THEN h ELSE l
  <2> DEFINE P(n, d, e) ==
        /\ y \in Seq(0 .. 256) /\ n \in Nat \ {0} /\ Len(y) = n + 3
        /\ k \in 1 .. n + 4 /\ (k # 1 => y[1] = Dollar)
        /\ k = 1 => \A i \in 1 .. n : y[i] = r[i]
        /\ k # 1 => \A i \in 1 .. k - 2 : i <= n => y[i + 1] = r[i]
        /\ \A i \in k .. n : y[i] = r[i]
        /\ y[n + 1] = Hash \/ k >= n + 2
        /\ k >= n + 3 => y[n + 2] = Hash
        /\ k <= n + 2 => y[n + 2] = d
        /\ y[n + 3] = IF k = n + 4 THEN d ELSE e
  <2>1. P(Len(r), HighDigit(r), LowDigit(r))
    BY <1>1, LeftOfFrame, SMTT(30)
  <2> HIDE DEF P
  <2>2. P(L, h, l)
    BY <2>1, <1>2
  <2> QED BY <2>2 DEF P
<1>4. r \in Texts /\ r \in Chars /\ h \in HexDigit /\ l \in HexDigit
  BY <1>1, <1>2, TextsAre DEF IsText
<1>5. CASE k = 1
  <2>1. Len(y) # 0 /\ 1 \in 1 .. L
    BY <1>3
  <2> QED BY <2>1, <1>1, <1>3, <1>5, AskedWithoutStart
<1>6. CASE k \in 2 .. L + 1
  <2>1. PICK t : t = RemoveAt(r, k - 1)
    OBVIOUS
  <2>2. k - 1 \in 1 .. Len(r) /\ k # 1 /\ k <= L + 1 /\ k \in Int
    BY <1>2, <1>3, <1>6
  <2>3. r[k - 1] # 0
    BY <1>1, <2>2 DEF IsText
  <2>4. t \in Chars /\ Sum(t) # Sum(r)
    BY <2>1, <2>2, <2>3, <1>4, SumMissesOne
  <2>5. /\ Len(t) = L - 1
        /\ \A i \in 1 .. k - 2 : t[i] = r[i]
        /\ \A i \in k - 1 .. L - 1 : t[i] = r[i + 1]
    <3>1. r \in Seq(0 .. 255)
      BY <1>4 DEF Chars
    <3>2. PICK n : n = k - 1
      OBVIOUS
    <3>3. /\ Len(t) = Len(r) - 1
          /\ \A i \in 1 .. n - 1 : t[i] = r[i]
          /\ \A i \in n .. Len(r) - 1 : t[i] = r[i + 1]
      <4>1. n \in 1 .. Len(r) /\ t = RemoveAt(r, n)
        BY <3>2, <2>1, <2>2
      <4>2. PICK S : S = 0 .. 255
        OBVIOUS
      <4>3. r \in Seq(S)
        BY <3>1, <4>2
      <4> QED BY ONLY <4>1, <4>3, Removed, SMTT(30)
    <3>4. n - 1 = k - 2
      BY <3>2, <2>2
    <3> QED BY <3>2, <3>3, <3>4, <1>2
  <2>6. ASSUME NEW i \in 1 .. Len(t) PROVE y[i + 1] = t[i] /\ t[i] # Hash
    <3>1. i \in 1 .. L - 1
      BY <2>5
    <3>2. CASE i <= k - 2
      <4>1. i \in 1 .. k - 2 /\ i <= L /\ i \in 1 .. L
        BY <3>1, <3>2, <2>2, <1>3
      <4>2. y[i + 1] = r[i] /\ t[i] = r[i]
        BY <4>1, <2>2, <2>5, <1>3
      <4> QED BY <4>1, <4>2, <1>1, <1>2 DEF IsText
    <3>3. CASE ~(i <= k - 2)
      <4>1. i \in k - 1 .. L - 1 /\ i + 1 \in k .. L /\ i + 1 \in 1 .. L
        BY <3>1, <3>3, <2>2, <1>3, SMTT(30)
      <4>2. y[i + 1] = r[i + 1]
        BY <4>1, <1>3
      <4>3. t[i] = r[i + 1]
        BY ONLY <4>1, <2>5
      <4> QED BY <4>1, <4>2, <4>3, <1>1, <1>2 DEF IsText
    <3> QED BY <3>2, <3>3
  <2>7. t \in Texts
    BY <2>4, <2>6 DEF Texts
  <2>8. /\ Len(t) + 2 = L + 1 /\ Len(t) + 3 = L + 2 /\ Len(t) + 4 = L + 3
        /\ Len(y) >= Len(t) + 3 /\ Len(y) # Len(t) + 3 /\ ~(k >= L + 2) /\ k <= L + 2
        /\ k # L + 4
    BY <2>2, <2>5, <1>3, SMTT(30)
  <2>9. y[1] = Dollar /\ y[Len(t) + 2] = Hash /\ y[Len(t) + 3] = h /\ y[Len(t) + 4] = l
    BY <2>2, <2>8, <1>3
  <2>10. ~Agree(Sum(t), h, l)
    BY <2>4, <1>2, <1>4, DigitsOfSum
  <2>11. /\ Len(y) >= Len(t) + 4 => ~Agree(Sum(t), h, y[Len(t) + 4])
         /\ Len(y) = Len(t) + 3 /\ r = Kill => t = Kill /\ h \in {54, 98}
    BY ONLY <2>8, <2>9, <2>10
  <2>12. \A i \in 1 .. Len(t) : y[i + 1] = t[i]
    BY <2>6
  <2>13. y \in Seq(0 .. 256) /\ h \in HexDigit
    BY <1>3, <1>4
  <2> QED BY ONLY <2>7, <2>8, <2>9, <2>11, <2>12, <2>13, PacketsTypeOK, a = Len(toBridge),
                  Lead(a), Asking(r, y), AskedWithoutCharacter, SMTT(30)
<1>7. ASSUME k >= L + 2, NEW i \in 1 .. L PROVE y[i + 1] = r[i]
  <2>1. k # 1 /\ i \in 1 .. k - 2 /\ i <= L
    BY <1>3, <1>7
  <2> QED BY <2>1, <1>3
<1>8. CASE k = L + 2
  <2>1. k >= L + 2 /\ k <= L + 2 /\ k # 1 /\ k # L + 4
    BY <1>3, <1>8
  <2>2. y[1] = Dollar /\ y[L + 2] = h /\ y[L + 3] = l
    BY <2>1, <1>3
  <2> QED BY <2>1, <2>2, <1>1, <1>2, <1>3, <1>7, AskedWithoutHash
<1>9. CASE k >= L + 3
  <2>1. PICK d : d = y[L + 3]
    OBVIOUS
  <2>2. k >= L + 2 /\ k # 1 /\ Len(y) >= L + 3 /\ ~(Len(y) >= L + 4)
    BY <1>3, <1>9
  <2>3. d \in {h, l} /\ d \in HexDigit
    BY <2>1, <1>3, <1>4
  <2>4. y[1] = Dollar /\ y[L + 2] = Hash
    <3>1. y[1] = Dollar
      BY <2>2, <1>3
    <3>2. y[L + 2] = Hash
      BY <1>3, <1>9
    <3> QED BY <3>1, <3>2
  <2>5. r = Kill => d \in {54, 98}
    BY <2>3, <1>2, KillSums
  <2> QED BY <2>1, <2>2, <2>3, <2>4, <2>5, <1>2, <1>3, <1>4, <1>7, AskedWithoutCharacter,
             SMTT(30)
<1>10. k = 1 \/ k \in 2 .. L + 1 \/ k = L + 2 \/ k >= L + 3
  BY <1>3
<1> QED BY <1>5, <1>6, <1>8, <1>9, <1>10

(* What GDB sends for a request, whole or damaged.                         *)
LEMMA SentIs ==
    ASSUME NEW r \in Request, NEW y,
           y = Sent(r) \/ \E k \in 1 .. Len(Sent(r)) : y = RemoveAt(Sent(r), k)
    PROVE  /\ y \in Seq(0 .. 256) /\ \A i \in 1 .. Len(y) : y[i] # EndOfFile
           /\ r = Break => y = <<>> \/ y = Break
           /\ r # Break => \/ y = Frame(r)
                           \/ \E k \in 1 .. Len(Frame(r)) : y = RemoveAt(Frame(r), k)
<1>1. r # Break => Sent(r) = Frame(r)
  BY DEF Sent, Break
<1>2. r = Break => Sent(r) = Break
  BY DEF Sent, Break
<1>3. Break \in Seq(0 .. 255) /\ Len(Break) = 1
  BY DEF Break, GDB_RSP_BREAK_CMD
<1>4. Sent(r) \in Seq(0 .. 255)
  <2>1. r # Break => Frame(r) \in Seq(0 .. 255)
    BY RequestIsAsked, FrameOfText DEF Asked, Chars
  <2> QED BY <2>1, <1>1, <1>2, <1>3
<1>5. y \in Seq(0 .. 255)
  <2>1. PICK z : z = Sent(r)
    OBVIOUS
  <2>2. ASSUME NEW k \in 1 .. Len(z), y = RemoveAt(z, k) PROVE y \in Seq(0 .. 255)
    BY <2>1, <2>2, <1>4, Removed
  <2> QED BY <2>1, <2>2, <1>4
<1>6. y \in Seq(0 .. 256) /\ \A i \in 1 .. Len(y) : y[i] # EndOfFile
  <2>1. EndOfFile \notin 0 .. 255
    BY DEF EndOfFile
  <2>2. \A i \in 1 .. Len(y) : y[i] \in 0 .. 255
    BY <1>5, ElementOfSeq
  <2>3. y \in Seq(0 .. 256)
    BY <1>5, CharsOnTheWire DEF Chars
  <2> QED BY ONLY <2>1, <2>2, <2>3
<1>7. r = Break => y = <<>> \/ y = Break
  <2>1. ASSUME r = Break, NEW k \in 1 .. Len(Sent(r)), y = RemoveAt(Sent(r), k) PROVE y = <<>>
    <3>1. PICK z : z = Break
      OBVIOUS
    <3>2. z \in Seq(0 .. 255) /\ Len(z) = 1 /\ Sent(r) = z
      BY <3>1, <2>1, <1>2, <1>3
    <3>3. k \in 1 .. Len(z) /\ y = RemoveAt(z, k)
      BY <3>2, <2>1
    <3>4. Len(y) = Len(z) - 1
      BY <3>2, <3>3, Removed
    <3>5. Len(y) = 0
      BY <3>2, <3>4
    <3> QED BY <1>5, <3>5, EmptySeq
  <2> QED BY <2>1, <1>2
<1> QED BY <1>1, <1>6, <1>7

(* A doomed packet remains so when GDB makes a request.                    *)
LEMMA AskedWhenDoomed ==
    ASSUME PacketsTypeOK, Doomed, gdb = "idle", NEW r \in Request, NEW y, Asking(r, y),
           y = Sent(r) \/ \E k \in 1 .. Len(Sent(r)) : y = RemoveAt(Sent(r), k)
    PROVE  Doomed'
<1>1. /\ Waiting /\ toBridge' = toBridge \o y /\ request' = r /\ MayAsk
      /\ gdb' = (IF r = Break THEN "reply" ELSE "ack")
  BY DEF Asking, Asks, Waiting, Break, MayAsk
<1>2. /\ y \in Seq(0 .. 256)
      /\ r = Break => y = <<>> \/ y = Break
      /\ r # Break => \/ y = Frame(r)
                      \/ \E k \in 1 .. Len(Frame(r)) : y = RemoveAt(Frame(r), k)
  BY SentIs
<1>3. CASE r = Break
  <2>1. ~MayAsk'
    BY <1>1, <1>3 DEF MayAsk
  <2>2. y # <<>> => y[1] \notin HexDigit
    <3>1. GDB_RSP_BREAK_CMD \notin HexDigit
      BY HexDigitIs
    <3> QED BY <3>1, <1>2, <1>3 DEF Break
  <2>3. \A i \in 1 .. Len(y) : y[i] = Hash => y[1] = Dollar
    <3>1. y = Break => \A i \in 1 .. Len(y) : y[i] # Hash
      BY DEF Break, GDB_RSP_BREAK_CMD, Hash
    <3>2. y = <<>> => \A i \in 1 .. Len(y) : y[i] # Hash
      OBVIOUS
    <3> QED BY <3>1, <3>2, <1>2, <1>3
  <2> QED BY <2>1, <2>2, <2>3, <1>1, <1>2, DoomedStays
<1>4. ASSUME y[1] = Dollar, y # <<>> PROVE Doomed'
  <2>1. Dollar \notin HexDigit
    BY HexDigitIs
  <2> QED BY <2>1, <1>1, <1>2, <1>4, DoomedStays
<1>5. CASE r # Break
  <2>1. IsText(r) /\ r[1] \notin {66, 98}
    BY <1>5, RequestIsAsked DEF Asked
  <2>2. CASE y = Frame(r)
    <3>1. y[1] = Dollar /\ Len(y) = Len(r) + 4 /\ Len(r) \in Nat
      BY <2>1, <2>2, FrameOfText
    <3>2. Len(y) # 0
      BY <3>1
    <3>3. y # <<>>
      BY <3>2
    <3> QED BY <3>1, <3>3, <1>4
  <2>3. ASSUME NEW k \in 1 .. Len(Frame(r)), y = RemoveAt(Frame(r), k) PROVE Doomed'
    <3>1. /\ Len(r) \in Nat \ {0} /\ Len(y) = Len(r) + 3 /\ (k # 1 => y[1] = Dollar)
          /\ k = 1 => \A i \in 1 .. Len(r) : y[i] = r[i]
          /\ y[Len(r) + 1] = Hash \/ k >= Len(r) + 2
          /\ k <= Len(r) + 2 => y[Len(r) + 2] = HighDigit(r)
          /\ y[Len(r) + 3] = IF k = Len(r) + 4 THEN HighDigit(r) ELSE LowDigit(r)
      BY <2>1, <2>3, LeftOfFrame
    <3>2. Len(y) # 0
      BY <3>1
    <3>3. y # <<>>
      BY <3>2
    <3>4. CASE k # 1
      BY <3>1, <3>3, <3>4, <1>4
    <3>5. CASE k = 1
      <4>1. ~(k >= Len(r) + 2) /\ k <= Len(r) + 2 /\ k # Len(r) + 4
        BY <3>1, <3>5
      <4>2. /\ Len(y) = Len(r) + 3 /\ \A i \in 1 .. Len(r) : y[i] = r[i]
            /\ y[Len(r) + 1] = Hash /\ y[Len(r) + 2] = HighDigit(r)
            /\ y[Len(r) + 3] = LowDigit(r)
        BY <4>1, <3>1, <3>5
      <4> QED BY <4>2, <2>1, <1>1, <1>2, DoomedIsNotCompleted
    <3> QED BY <3>4, <3>5
  <2> QED BY <2>2, <2>3, <1>2, <1>5
<1> QED BY <1>3, <1>5

(* GDB makes a request.                                                    *)
LEMMA AskingKeepsWhereabouts ==
    ASSUME PacketsTypeOK, Whereabouts, NEW r \in Request, GdbSends(r) \/ GdbSendsDamaged(r)
    PROVE  Whereabouts'
<1>1. gdb = "idle" /\ UNCHANGED pc
  BY DEF GdbSends, GdbSendsDamaged, Asks
<1>2. SUFFICES ASSUME Open PROVE Calm' \/ Coming' \/ Serving' \/ Doomed'
  BY <1>1 DEF Whereabouts, Open
<1>3. PICK y : /\ Asking(r, y)
               /\ \/ y = Sent(r) /\ damaged' = FALSE
                  \/ \E k \in 1 .. Len(Sent(r)) : y = RemoveAt(Sent(r), k)
  BY DEF GdbSends, GdbSendsDamaged, Asking
<1>4. CASE Doomed
  BY <1>1, <1>3, <1>4, AskedWhenDoomed
<1>5. CASE Calm
  <2>1. PICK a \in 0 .. Len(toBridge) : Lead(a) /\ a = Len(toBridge)
    BY <1>1, <1>5 DEF Calm
  <2>2. CASE y = Sent(r) /\ damaged' = FALSE
    BY <2>1, <2>2, <1>3, AskedWhole
  <2>3. ASSUME NEW k \in 1 .. Len(Sent(r)), y = RemoveAt(Sent(r), k) PROVE Calm' \/ Doomed'
    <3>1. CASE r # Break
      <4>1. Sent(r) = Frame(r) /\ Asked(r)
        BY <3>1, RequestIsAsked DEF Sent, Break
      <4>2. k \in 1 .. Len(Frame(r)) /\ y = RemoveAt(Frame(r), k)
        BY <4>1, <2>3
      <4> QED BY <4>1, <4>2, <2>1, <1>3, AskedDamaged
    <3>2. CASE r = Break
      <4>1. y = <<>> \/ y = Break
        BY <3>2, <2>3, SentIs
      <4>2. y # Break
        <5>1. PICK z : z = Break
          OBVIOUS
        <5>2. z \in Seq(0 .. 255) /\ Len(z) = 1 /\ Sent(r) = z
          BY <5>1, <3>2 DEF Break, GDB_RSP_BREAK_CMD, Sent
        <5>3. k \in 1 .. Len(z) /\ y = RemoveAt(z, k)
          BY <5>2, <2>3
        <5>4. Len(y) = Len(z) - 1
          BY <5>2, <5>3, Removed
        <5>5. Len(y) # 1
          BY <5>2, <5>4
        <5> QED BY <5>1, <5>2, <5>5
      <4>3. /\ Waiting /\ toBridge' = toBridge \o y /\ request' = r /\ gdb' = "reply"
        BY <1>3, <3>2 DEF Asking, Asks, Waiting, Break
      <4>4. toBridge' = toBridge
        BY <4>1, <4>2, <4>3, ConcatEmptySeq DEF PacketsTypeOK
      <4>5. Len(toBridge) \in Nat
        BY LenProperties DEF PacketsTypeOK
      <4>6. IsExtended(toBridge', toBridge)
        BY <4>4, <4>5 DEF IsExtended
      <4>7. Lead(a)'
        BY <4>3, <4>6, <2>1, LeadStays
      <4>8. a \in 0 .. Len(toBridge') /\ \A i \in a + 1 .. Len(toBridge') : FALSE
        BY <4>4, <4>5, <2>1
      <4> QED BY <4>3, <4>7, <4>8, <3>2 DEF Calm
    <3> QED BY <3>1, <3>2
  <2> QED BY <2>2, <2>3, <1>3
<1>6. ~Coming /\ ~Serving
  BY <1>1 DEF Coming, Serving
<1> QED BY <1>2, <1>4, <1>5, <1>6 DEF Whereabouts

(* Elements of a wire and of what is added to it.                          *)
LEMMA AllOfConcat ==
    ASSUME NEW S, NEW w \in Seq(S), NEW y \in Seq(S), NEW e,
           \A i \in 1 .. Len(w) : w[i] # e, \A i \in 1 .. Len(y) : y[i] # e
    PROVE  \A i \in 1 .. Len(w \o y) : (w \o y)[i] # e
<1>1. /\ Len(w) \in Nat /\ Len(y) \in Nat /\ Len(w \o y) = Len(w) + Len(y)
      /\ \A i \in 1 .. Len(w) : (w \o y)[i] = w[i]
      /\ \A i \in 1 .. Len(y) : (w \o y)[Len(w) + i] = y[i]
  BY ConcatExtends DEF IsExtended
<1>2. PICK v, K, M : v = w \o y /\ K = Len(w) /\ M = Len(y)
  OBVIOUS
<1>3. ASSUME NEW i \in 1 .. K + M PROVE v[i] # e
  <2>1. CASE i <= K
    <3>1. i \in 1 .. K
      BY <2>1, <1>1, <1>2
    <3> QED BY <3>1, <1>1, <1>2
  <2>2. CASE ~(i <= K)
    <3>1. i - K \in 1 .. M /\ K + (i - K) = i
      BY <2>2, <1>1, <1>2
    <3>2. v[K + (i - K)] = y[i - K]
      BY <3>1, <1>1, <1>2
    <3> QED BY <3>1, <3>2, <1>2
  <2> QED BY <2>1, <2>2
<1> QED BY <1>1, <1>2, <1>3

(* And what is left of the invariant.                                      *)
LEMMA AskingKeepsInv ==
    ASSUME PacketsTypeOK, PacketsInv, NEW r \in Request, GdbSends(r) \/ GdbSendsDamaged(r)
    PROVE  PacketsInv'
<1>1. PICK y : /\ Asking(r, y)
               /\ y = Sent(r) \/ \E k \in 1 .. Len(Sent(r)) : y = RemoveAt(Sent(r), k)
  BY DEF GdbSends, GdbSendsDamaged, Asking
<1>2. /\ toBridge' = toBridge \o y /\ request' = r /\ answered' = 0 /\ gdb = "idle"
      /\ gdb' = (IF r = Break THEN "reply" ELSE "ack")
      /\ UNCHANGED <<pc, buf, checksum, toGdb>>
  BY <1>1 DEF Asking, Asks, Break, receiver
<1>3. Requesting'
  <2>1. r # <<>> /\ Break # Kill
    BY RequestIs DEF Break, Kill, KillRequest, GDB_RSP_BREAK_CMD
  <2> QED BY <2>1, <1>2 DEF Requesting
<1>4. Replies'
  <2>1. \A j \in 1 .. Len(toGdb) : ~(toGdb[j] # <<Plus>>)
    BY <1>2 DEF PacketsInv, Replies
  <2> QED BY <2>1, <1>2 DEF Replies
<1>5. Ends'
  <2>1. \A i \in 1 .. Len(toBridge) : toBridge[i] # EndOfFile
    BY <1>2 DEF PacketsInv, Ends
  <2>2. y \in Seq(0 .. 256) /\ \A i \in 1 .. Len(y) : y[i] # EndOfFile
    BY <1>1, SentIs
  <2>3. PICK w : w = toBridge /\ w \in Seq(0 .. 256)
    BY DEF PacketsTypeOK
  <2>4. \A i \in 1 .. Len(w \o y) : (w \o y)[i] # EndOfFile
    BY <2>1, <2>2, <2>3, AllOfConcat
  <2> QED BY <2>3, <2>4, <1>2 DEF Ends
<1>6. Closed'
  <2>1. Open
    BY <1>2 DEF PacketsInv, Closed
  <2> QED BY <2>1, <1>2 DEF Closed, Open
<1>7. Checked'
  BY <1>2 DEF PacketsInv, Checked
<1>8. OneReplyPerRequest'
  BY <1>2 DEF OneReplyPerRequest
<1>9. Whereabouts'
  BY AskingKeepsWhereabouts DEF PacketsInv
<1> QED BY <1>3, <1>4, <1>5, <1>6, <1>7, <1>8, <1>9 DEF PacketsInv

(* An acknowledgement of the last request: kill requests are over by then, *)
(* all others now wait for their reply.                                    *)
LEMMA WhoIsKill ==
    ASSUME PacketsTypeOK, request # <<>>
    PROVE  /\ Head(request) = KillRequest <=> request = Kill
           /\ request # Break => Asked(request)
           /\ request \in Request
<1>1. request \in Request
  BY LastRequestIs
<1>2. Head(request) = request[1]
  BY <1>1, RequestIs
<1>3. request = Kill => request[1] = KillRequest
  BY DEF Kill
<1>4. request = Break => request[1] # KillRequest
  BY DEF Break, KillRequest, GDB_RSP_BREAK_CMD
<1>5. request # Kill /\ request # Break => request[1] # KillRequest
  BY <1>1, RequestIs
<1> QED BY <1>1, <1>2, <1>3, <1>4, <1>5, RequestIsAsked

(* GDB reads an acknowledgement.                                           *)
LEMMA AckKeepsInv ==
    ASSUME PacketsTypeOK, PacketsInv, GdbGetsAck
    PROVE  PacketsInv'
<1>1. /\ gdb \in {"ack", "reply"} /\ toGdb # <<>> /\ toGdb' = Tail(toGdb)
      /\ gdb' = (IF Head(request) = KillRequest THEN "idle" ELSE "reply")
      /\ UNCHANGED <<pc, receiver, toBridge, request, damaged, history>>
  BY DEF GdbGetsAck
<1>2. /\ gdb' = (IF request = Kill THEN "idle" ELSE "reply")
      /\ request # <<>> /\ (gdb = "ack" => request # Break) /\ (gdb = "reply" => request # Kill)
  <2>1. request # <<>> /\ (gdb = "ack" => request # Break) /\ (gdb = "reply" => request # Kill)
    BY <1>1 DEF PacketsInv, Requesting
  <2> QED BY <2>1, <1>1, WhoIsKill
<1>3. Requesting'
  BY <1>1, <1>2 DEF Requesting
<1>4. Serving => Serving'
  <2>1. SUFFICES ASSUME Serving PROVE Serving'
    OBVIOUS
  <2>2. request # Kill
    BY <2>1 DEF Serving
  <2>3. gdb # "absent" /\ gdb' = "reply"
    BY <2>2, <1>1, <1>2
  <2> QED BY <2>1, <2>3, <1>1 DEF Serving, After, receiver, history
<1>5. Replies'
  <2>1. PICK s, t : s = toGdb /\ t = toGdb'
    OBVIOUS
  <2>2. IsTail(t, s)
    BY <2>1, <1>1, TailIsTail DEF PacketsTypeOK
  <2>3. ASSUME NEW j \in 1 .. Len(t), t[j] # <<Plus>>
        PROVE  j = Len(t) /\ Serving' /\ pc' \in Acking /\ gdb' = "reply"
    <3>1. j + 1 \in 1 .. Len(s) /\ s[j + 1] # <<Plus>>
      <4>1. Len(s) \in Nat \ {0} /\ Len(t) = Len(s) - 1
        BY <2>2 DEF IsTail
      <4>2. j + 1 \in 1 .. Len(s) /\ j \in 1 .. Len(s) - 1
        BY ONLY <4>1, j \in 1 .. Len(t)
      <4> QED BY <4>2, <2>2, <2>3 DEF IsTail
    <3>2. j + 1 = Len(s) /\ Serving /\ pc \in Acking
      BY <3>1, <2>1, <1>1 DEF PacketsInv, Replies
    <3>3. j = Len(t)
      BY <3>2, <2>2 DEF IsTail
    <3>4. request # Kill
      BY <3>2 DEF Serving
    <3> QED BY <3>2, <3>3, <3>4, <1>1, <1>2, <1>4
  <2> QED BY <2>1, <2>3, <1>1 DEF Replies
<1>6. Ends' /\ Closed' /\ Checked'
  <2>1. gdb # "absent"
    BY <1>1
  <2> QED BY <2>1, <1>1 DEF PacketsInv, Ends, Closed, Checked, Open, receiver
<1>7. OneReplyPerRequest'
  BY <1>1 DEF PacketsInv, OneReplyPerRequest, history
<1>8. Calm => Calm'
  <2>1. SUFFICES ASSUME Calm PROVE Calm'
    OBVIOUS
  <2>2. PICK a \in 0 .. Len(toBridge) :
          /\ Lead(a)
          /\ \A i \in a + 1 .. Len(toBridge) : toBridge[i] \in {Minus, EndOfFile}
          /\ gdb = "ack" => a = Len(toBridge) /\ request = Kill
          /\ gdb = "reply" => request = Break
    BY <2>1 DEF Calm
  <2>3. Lead(a)'
    BY <2>2, <1>1 DEF Lead, Ready, AwaitsKill, Idling, receiver
  <2>4. gdb' = "idle" => a = Len(toBridge)
    BY <2>2, <1>1, <1>2
  <2>5. gdb' = "reply" => request = Break
    BY <2>2, <1>1, <1>2
  <2>6. gdb' # "ack"
    BY <1>2
  <2> QED BY <2>2, <2>3, <2>4, <2>5, <2>6, <1>1 DEF Calm
<1>9. Coming => Coming'
  <2>1. SUFFICES ASSUME Coming PROVE Coming'
    OBVIOUS
  <2>2. gdb' = "reply"
    BY <2>1, <1>2 DEF Coming
  <2>3. \A a \in Int : Lead(a) => Lead(a)'
    BY <1>1 DEF Lead, Ready, AwaitsKill, Idling, receiver
  <2>4. \A a \in Int : BreakComing(a) => BreakComing(a)'
    BY <2>3, <1>1 DEF BreakComing, After
  <2>5. \A a \in Int : PacketComing(a, request) => PacketComing(a, request)'
    BY <2>3, <1>1 DEF PacketComing, After, Reached, TextReached, receiver
  <2> QED BY <2>1, <2>2, <2>4, <2>5, <1>1 DEF Coming, history
<1>10. Doomed => Doomed'
  <2>1. SUFFICES ASSUME Doomed PROVE Doomed'
    OBVIOUS
  <2>2. MayAsk' => MayAsk
    BY <1>1, <1>2 DEF MayAsk
  <2>3. PICK y : y = <<>>
    OBVIOUS
  <2>4. y \in Seq(0 .. 256) /\ toBridge' = toBridge \o y
    BY <2>3, <1>1, ConcatEmptySeq DEF PacketsTypeOK
  <2>5. \A i \in 1 .. Len(y) : FALSE
    BY <2>3
  <2> QED BY <2>1, <2>2, <2>3, <2>4, <2>5, <1>1, DoomedStays DEF Waiting
<1>11. Whereabouts'
  BY <1>1, <1>4, <1>8, <1>9, <1>10 DEF PacketsInv, Whereabouts, Open
<1> QED BY <1>3, <1>5, <1>6, <1>7, <1>11 DEF PacketsInv

(* GDB reads a reply: the one that the bridge waits with for its           *)
(* acknowledgement.                                                        *)
LEMMA ReplyKeepsInv ==
    ASSUME PacketsTypeOK, PacketsInv, GdbGetsReply
    PROVE  PacketsInv'
<1>1. /\ gdb \in {"ack", "reply"} /\ toGdb # <<>> /\ Head(toGdb) # <<Plus>>
      /\ toGdb' = Tail(toGdb) /\ toBridge' = Append(toBridge, Plus)
      /\ gdb' = (IF gdb = "reply" THEN "idle" ELSE gdb)
      /\ UNCHANGED <<pc, receiver, request, damaged, history>>
  BY DEF GdbGetsReply
<1>2. Serving /\ pc \in Acking /\ gdb = "reply" /\ toGdb' = <<>>
  <2>1. PICK s, t : s = toGdb /\ t = toGdb'
    OBVIOUS
  <2>2. s \in Seq(Seq(0 .. 255)) /\ s # <<>> /\ t = Tail(s) /\ s[1] # <<Plus>>
    BY <2>1, <1>1, TailIsTail DEF PacketsTypeOK
  <2>3. Len(s) \in Nat \ {0} /\ Len(t) = Len(s) - 1 /\ t \in Seq(Seq(0 .. 255))
    BY <2>2, TailIsTail DEF IsTail
  <2>4. 1 \in 1 .. Len(s)
    BY <2>3
  <2>5. 1 = Len(s) /\ Serving /\ pc \in Acking /\ (gdb = "ack" => 1 > 1)
    BY <2>1, <2>2, <2>4, <1>1 DEF PacketsInv, Replies
  <2>6. gdb # "ack"
    BY <2>5
  <2>7. Len(t) = 0
    <3>1. 1 = Len(s)
      BY <2>5
    <3>2. Len(t) = Len(s) - 1
      BY <2>3
    <3> QED BY ONLY <3>1, <3>2
  <2>8. t = <<>>
    <3>1. PICK S : S = Seq(0 .. 255)
      OBVIOUS
    <3>2. t \in Seq(S)
      BY <2>3, <3>1
    <3> QED BY ONLY <3>2, <2>7, EmptySeq
  <2> QED BY <2>1, <2>5, <2>6, <2>8, <1>1
<1>3. gdb' = "idle"
  BY <1>1, <1>2
<1>4. Requesting' /\ Closed' /\ Checked'
  <2>1. Open
    BY <1>2 DEF Acking, Open
  <2> QED BY <2>1, <1>1, <1>3 DEF PacketsInv, Requesting, Closed, Checked, Open, receiver
<1>5. Replies'
  <2>1. \A j \in 1 .. Len(<<>>) : FALSE
    OBVIOUS
  <2> QED BY <2>1, <1>2 DEF Replies
<1>6. PICK w, y : w = toBridge /\ y = <<Plus>>
  OBVIOUS
<1>7. /\ w \in Seq(0 .. 256) /\ y \in Seq(0 .. 256) /\ Len(y) = 1 /\ y[1] = Plus
      /\ toBridge' = w \o y
  <2>1. w \in Seq(0 .. 256) /\ Plus \in 0 .. 256
    BY <1>6 DEF PacketsTypeOK, Plus
  <2>2. Append(w, Plus) = w \o <<Plus>>
    BY <2>1, AppendIsConcat
  <2>3. y \in Seq(0 .. 256) /\ Len(y) = 1 /\ y[1] = Plus
    BY <2>1, <1>6
  <2> QED BY <2>1, <2>2, <2>3, <1>1, <1>6
<1>8. Ends' /\ \A i \in 1 .. Len(w) : w[i] # EndOfFile
  <2>1. \A i \in 1 .. Len(w) : w[i] # EndOfFile
    BY <1>1, <1>6 DEF PacketsInv, Ends
  <2>2. \A i \in 1 .. Len(y) : y[i] # EndOfFile
    <3>1. \A i \in 1 .. 1 : i = 1
      OBVIOUS
    <3>2. Plus # EndOfFile
      BY DEF Plus, EndOfFile
    <3> QED BY <3>1, <3>2, <1>7
  <2>3. \A i \in 1 .. Len(w \o y) : (w \o y)[i] # EndOfFile
    BY <2>1, <2>2, <1>7, AllOfConcat
  <2> QED BY <2>1, <2>3, <1>7 DEF Ends
<1>9. OneReplyPerRequest'
  BY <1>1, <1>3 DEF PacketsInv, OneReplyPerRequest, history
<1>10. CASE w # <<>>
  <2>1. Len(w) \in Nat /\ Len(w) # 0 /\ 1 \in 1 .. Len(w) /\ 1 <= Len(w)
    BY <1>7, <1>10, EmptySeq, LenProperties
  <2>2. w[1] # Plus /\ (IsMonitor(request) => w[1] = EndOfFile)
    BY <2>1, <1>2, <1>6 DEF Serving, After
  <2>3. ~IsMonitor(request)
    BY <2>1, <2>2, <1>8
  <2>4. pc = "acking"
    BY <2>3, <1>2 DEF Serving, Acking
  <2>5. toBridge' # <<>> /\ toBridge'[1] = w[1]
    <3>1. Len(w \o y) = Len(w) + Len(y) /\ Len(w \o y) \in Nat
          /\ \A i \in 1 .. Len(w) : (w \o y)[i] = w[i]
      BY <1>7, ConcatExtends, ZenonT(60) DEF IsExtended
    <3>2. Len(w \o y) # 0
      BY <3>1, <2>1, <1>7
    <3>3. w \o y # <<>>
      BY <3>2
    <3> QED BY <3>1, <3>3, <2>1, <1>7
  <2>6. DoomedAcking'
    BY <2>2, <2>4, <2>5, <1>1 DEF DoomedAcking
  <2>7. Whereabouts'
    BY <2>6 DEF Doomed, Whereabouts
  <2> QED BY <2>7, <1>4, <1>5, <1>8, <1>9 DEF PacketsInv
<1>11. CASE w = <<>>
  <2>1. toBridge' = <<Plus>>
    BY <1>6, <1>7, <1>11, ConcatEmptySeq
  <2>2. Len(<<Plus>>) = 1 /\ <<Plus>>[1] = Plus
    OBVIOUS
  <2>3. Kills(<<Plus>>, 1, 1)
    <3>1. \A i \in 1 .. 1 : i = 1
      OBVIOUS
    <3>2. \A i \in 1 + 1 .. 1 - 1 : FALSE
      OBVIOUS
    <3> QED BY <3>1, <3>2, <2>2 DEF Kills, Noise
  <2>4. Ready(Plus, 1, 1)'
    BY <1>1, <1>2 DEF Ready
  <2>5. PICK v, a, c : v = toBridge' /\ a = 1 /\ c = Plus
    OBVIOUS
  <2>6. Lead(a)'
    <3>1. a \in Nat /\ a \in 0 .. a /\ c = v[1] /\ Kills(v, a, a) /\ Ready(c, a, a)'
      BY <2>1, <2>2, <2>3, <2>4, <2>5
    <3> QED BY <3>1, <2>5, LeadAgain
  <2>7. a \in 0 .. Len(toBridge') /\ a = Len(toBridge')
        /\ \A i \in a + 1 .. Len(toBridge') : FALSE
    BY <2>1, <2>2, <2>5
  <2>8. Calm'
    BY <2>6, <2>7, <1>3 DEF Calm
  <2>9. Whereabouts'
    BY <2>8 DEF Whereabouts
  <2> QED BY <2>9, <1>4, <1>5, <1>8, <1>9 DEF PacketsInv
<1> QED BY <1>10, <1>11

(* What GDB says again, or that it goes: no acknowledgement, and after a   *)
(* command nothing but its end.                                            *)
LEMMA AfterMore ==
    ASSUME PacketsTypeOK, UNCHANGED request, NEW y \in Seq(0 .. 256), toBridge' = toBridge \o y,
           Len(y) # 0, y[1] # Plus, IsMonitor(request) => y[1] = EndOfFile,
           NEW n \in 1 .. Len(toBridge) + 1, After(toBridge, n)
    PROVE  After(toBridge, n)'
<1>1. PICK w, v : w = toBridge /\ v = toBridge' /\ v = w \o y /\ w \in Seq(0 .. 256)
  <2>1. toBridge \in Seq(0 .. 256)
    BY DEF PacketsTypeOK
  <2> QED BY <2>1
<1>2. /\ Len(w) \in Nat /\ Len(y) \in Nat /\ Len(v) = Len(w) + Len(y)
      /\ \A i \in 1 .. Len(w) : v[i] = w[i]
      /\ \A i \in 1 .. Len(y) : v[Len(w) + i] = y[i]
  BY <1>1, ConcatExtends DEF IsExtended
<1>3. CASE n <= Len(w)
  <2>1. n \in 1 .. Len(w)
    BY <1>1, <1>2, <1>3
  <2>2. v[n] # Plus /\ (IsMonitor(request) => v[n] = EndOfFile)
    BY <2>1, <1>1, <1>2, <1>3 DEF After
  <2> QED BY <2>2, <1>1 DEF After
<1>4. CASE ~(n <= Len(w))
  <2>1. n = Len(w) + 1 /\ 1 \in 1 .. Len(y)
    BY <1>1, <1>2, <1>4
  <2>2. v[n] = y[1]
    BY <2>1, <1>2
  <2> QED BY <2>2, <1>1 DEF After
<1> QED BY <1>3, <1>4

(* The packet of the last request, or its execution, stays what it is.     *)
LEMMA MoreWhenComing ==
    ASSUME PacketsTypeOK, Waiting, UNCHANGED <<request, damaged, history>>, gdb' # "idle",
           NEW y \in Seq(0 .. 256), toBridge' = toBridge \o y,
           Len(y) # 0, y[1] # Plus, IsMonitor(request) => y[1] = EndOfFile, Coming
    PROVE  Coming'
<1>1. PICK w, v, r : w = toBridge /\ v = toBridge' /\ r = request
  OBVIOUS
<1>2. IsExtended(v, w) /\ r \in Chars /\ Len(r) \in Nat
  <2>1. w \in Seq(0 .. 256) /\ v = w \o y
    BY <1>1 DEF PacketsTypeOK
  <2>2. r \in Chars
    BY <1>1, WhoIsKill, RequestIs DEF Coming
  <2> QED BY <2>1, <2>2, ConcatExtends, LenProperties DEF Chars
<1>3. ASSUME NEW a \in Int, BreakComing(a) PROVE BreakComing(a)'
  <2>1. /\ request = Break /\ Lead(a) /\ a < Len(w)
        /\ w[a + 1] = GDB_RSP_BREAK_CMD /\ After(toBridge, a + 2)
    BY <1>1, <1>3 DEF BreakComing
  <2>2. a \in 0 .. Len(w)
    BY <2>1, <1>1 DEF Lead, Kills
  <2>3. a + 1 \in 1 .. Len(w) /\ a + 2 \in 1 .. Len(w) + 1 /\ a < Len(v)
    BY <2>1, <2>2, <1>2 DEF IsExtended
  <2>4. PICK n : n = a + 2
    OBVIOUS
  <2>5. After(toBridge, n)'
    BY <2>1, <2>3, <2>4, <1>1, AfterMore
  <2>6. v[a + 1] = w[a + 1]
    BY <2>3, <1>2 DEF IsExtended
  <2>7. Lead(a)'
    BY <2>1, <1>1, <1>2, LeadStays
  <2> QED BY <2>1, <2>3, <2>4, <2>5, <2>6, <2>7, <1>1 DEF BreakComing
<1>4. ASSUME NEW a \in Int, PacketComing(a, r) PROVE PacketComing(a, r)'
  <2>1. PICK L, d : L = Len(r) /\ d = HighDigit(r)
    OBVIOUS
  <2>2. /\ request = r /\ r # Break /\ Reached(a, r, d) /\ PacketOn(w, a, r, d)
        /\ a + L + 4 <= Len(w) /\ w[a + L + 4] = LowDigit(r)
        /\ After(toBridge, a + L + 5)
    BY <2>1, <1>1, <1>4 DEF PacketComing
  <2>3. a >= -(L + 3)
    <3>1. a >= 0 \/ -a <= L + 1 \/ a = -(L + 2) \/ a = -(L + 3)
      BY <2>1, <2>2 DEF Reached, TextReached
    <3> QED BY ONLY <3>1, <1>2, <2>1, a \in Int
  <2>4. Len(w) \in Nat /\ Len(v) \in Nat /\ Len(w) <= Len(v) /\ L \in Nat
    BY <2>1, <1>2 DEF IsExtended
  <2>5. a + L + 4 \in 1 .. Len(w) /\ a + L + 5 \in 1 .. Len(w) + 1 /\ a + L + 4 <= Len(v)
    BY <2>2, <2>3, <2>4
  <2>6. PICK n : n = a + L + 5
    OBVIOUS
  <2>7. After(toBridge, n)'
    BY <2>2, <2>5, <2>6, <1>1, AfterMore
  <2>8. v[a + L + 4] = w[a + L + 4]
    BY <2>5, <1>2 DEF IsExtended
  <2>9. Reached(a, r, d)' /\ PacketOn(v, a, r, d)
    BY <2>2, <1>1, <1>2, ReachedStays, PacketStays
  <2> QED BY <2>1, <2>2, <2>5, <2>6, <2>7, <2>8, <2>9, <1>1 DEF PacketComing
<1>5. r' = r /\ request' = r
  BY <1>1
<1> QED BY <1>1, <1>3, <1>4, <1>5 DEF Coming, history


(* Nothing that begins with what it does completes a doomed packet.        *)
LEMMA MoreWhenDoomed ==
    ASSUME PacketsTypeOK, Waiting, Doomed, NEW y \in Seq(0 .. 256), toBridge' = toBridge \o y,
           Len(y) # 0, y[1] \notin HexDigit, y[1] = Dollar \/ ~MayAsk',
           y[1] = Dollar \/ \A i \in 1 .. Len(y) : y[i] # Hash
    PROVE  Doomed'
<1>1. y # <<>>
  OBVIOUS
<1> QED BY <1>1, DoomedStays

(* The last request is being served.                                       *)
LEMMA MoreWhenServing ==
    ASSUME PacketsTypeOK, Waiting, UNCHANGED <<request, damaged, history>>,
           NEW y \in Seq(0 .. 256), toBridge' = toBridge \o y,
           Len(y) # 0, y[1] # Plus, IsMonitor(request) => y[1] = EndOfFile,
           UNCHANGED <<gdb, toGdb>> \/ gdb' = "absent", Serving
    PROVE  Serving'
<1>1. After(toBridge, 1)
  BY DEF Serving
<1>2. PICK n : n = 1
  OBVIOUS
<1>3. n \in 1 .. Len(toBridge) + 1 /\ After(toBridge, n)
  <2>1. Len(toBridge) \in Nat
    BY LenProperties DEF PacketsTypeOK
  <2> QED BY <2>1, <1>1, <1>2
<1>4. After(toBridge, n)'
  BY <1>3, AfterMore
<1>5. After(toBridge, 1)'
  BY <1>2, <1>4
<1>6. gdb' # "absent" => UNCHANGED <<gdb, toGdb>>
  OBVIOUS
<1>7. gdb # "absent" \/ gdb' = "absent"
  BY DEF Serving
<1> QED BY <1>5 DEF Serving, Waiting, receiver, history

(* GDB times out.                                                          *)
LEMMA TimeoutKeepsWhereabouts ==
    ASSUME PacketsTypeOK, PacketsInv, GdbTimesOut, ~IsMonitor(request)
    PROVE  Whereabouts'
<1>1. /\ gdb \in {"ack", "reply"}
      /\ UNCHANGED <<pc, receiver, toGdb, gdb, request, damaged, history>>
      /\ toBridge' = toBridge \o (IF gdb = "ack" THEN Frame(request) ELSE <<Minus>>)
      /\ Waiting
  BY DEF GdbTimesOut, Waiting
<1>2. request # <<>> /\ (gdb = "ack" => request # Break) /\ (gdb = "reply" => request # Kill)
  BY <1>1 DEF PacketsInv, Requesting
<1>3. PICK y : y = IF gdb = "ack" THEN Frame(request) ELSE <<Minus>>
  OBVIOUS
<1>4. gdb = "reply" => /\ y \in Seq(0 .. 256) /\ Len(y) = 1 /\ y[1] = Minus
                       /\ \A i \in 1 .. Len(y) : y[i] = Minus
  BY <1>3 DEF Minus
<1>5. gdb = "ack" => y \in Seq(0 .. 256) /\ Len(y) # 0 /\ y[1] = Dollar
  <2>1. SUFFICES ASSUME gdb = "ack" PROVE y \in Seq(0 .. 256) /\ Len(y) # 0 /\ y[1] = Dollar
    OBVIOUS
  <2>2. IsText(request)
    BY <2>1, <1>2, WhoIsKill DEF Asked
  <2>3. y \in Chars /\ Len(y) = Len(request) + 4 /\ Len(request) \in Nat /\ y[1] = Dollar
    BY <2>1, <2>2, <1>3, FrameOfText
  <2> QED BY <2>3, CharsOnTheWire
<1>6. /\ toBridge' = toBridge \o y /\ y \in Seq(0 .. 256) /\ Len(y) # 0
      /\ y[1] = Dollar \/ y[1] = Minus
  <2>1. toBridge' = toBridge \o y
    BY <1>1, <1>3
  <2>2. CASE gdb = "ack"
    BY <2>1, <2>2, <1>5
  <2>3. CASE gdb = "reply"
    <3>1. Len(y) # 0
      BY <2>3, <1>4
    <3> QED BY <2>1, <2>3, <3>1, <1>4
  <2>4. gdb = "ack" \/ gdb = "reply"
    BY <1>1
  <2> QED BY <2>2, <2>3, <2>4
<1>7. y[1] # Plus /\ y[1] \notin HexDigit
  <2>1. Dollar # Plus /\ Dollar \notin HexDigit /\ Minus # Plus /\ Minus \notin HexDigit
    BY HexDigitIs DEF Plus, Dollar, Minus
  <2>2. y[1] = Dollar \/ y[1] = Minus
    BY <1>6
  <2> QED BY ONLY <2>1, <2>2
<1>8. CASE Calm
  <2>1. PICK a \in 0 .. Len(toBridge) :
          /\ Lead(a)
          /\ \A i \in a + 1 .. Len(toBridge) : toBridge[i] \in {Minus, EndOfFile}
          /\ gdb = "ack" => a = Len(toBridge) /\ request = Kill
          /\ gdb = "reply" => request = Break
    BY <1>8 DEF Calm
  <2>2. CASE gdb = "ack"
    <3>1. toBridge' = toBridge \o Frame(Kill) /\ a = Len(toBridge)
      BY <2>1, <2>2, <1>3, <1>6
    <3>2. Lead(a + 5)' /\ a + 5 = Len(toBridge')
      BY <3>1, <2>1, <1>1, LeadGrows
    <3>3. PICK e : e = a + 5
      OBVIOUS
    <3>4. Lead(e)' /\ e = Len(toBridge') /\ e \in 0 .. Len(toBridge')
          /\ \A i \in e + 1 .. Len(toBridge') : toBridge'[i] \in {Minus, EndOfFile}
      <4>1. a \in Nat
        BY <3>1, LenProperties DEF PacketsTypeOK
      <4> QED BY <4>1, <3>2, <3>3
    <3>5. Calm'
      BY <3>4, <2>1, <2>2, <1>1 DEF Calm
    <3> QED BY <3>5 DEF Whereabouts
  <2>3. CASE gdb = "reply"
    <3>1. PICK w, v : w = toBridge /\ v = toBridge'
      OBVIOUS
    <3>2. /\ IsExtended(v, w) /\ Len(v) = Len(w) + 1 /\ Len(w) \in Nat
          /\ v[Len(w) + 1] = Minus
      <4>1. w \in Seq(0 .. 256) /\ v = w \o y
        BY <3>1, <1>6 DEF PacketsTypeOK
      <4>2. y \in Seq(0 .. 256) /\ Len(y) = 1 /\ y[1] = Minus
        BY <2>3, <1>4
      <4>3. /\ IsExtended(w \o y, w) /\ Len(w \o y) = Len(w) + Len(y) /\ Len(w) \in Nat
            /\ \A i \in 1 .. Len(y) : (w \o y)[Len(w) + i] = y[i]
        <5>1. PICK S : S = 0 .. 256
          OBVIOUS
        <5>2. w \in Seq(S) /\ y \in Seq(S)
          BY <5>1, <4>1, <4>2
        <5> QED BY ONLY <5>2, ConcatExtends
      <4>4. 1 \in 1 .. Len(y)
        BY ONLY <4>2
      <4> QED BY ONLY <4>1, <4>2, <4>3, <4>4
    <3>3. Lead(a)'
      BY <3>1, <3>2, <2>1, <1>1, LeadStays
    <3>4. a \in 0 .. Len(v)
      BY <3>1, <3>2
    <3>5. \A i \in a + 1 .. Len(v) : v[i] \in {Minus, EndOfFile}
      <4>1. ASSUME NEW i \in a + 1 .. Len(v) PROVE v[i] \in {Minus, EndOfFile}
        <5>1. CASE i = Len(w) + 1
          BY <5>1, <3>2
        <5>2. CASE i # Len(w) + 1
          <6>1. i \in 1 .. Len(w) /\ i \in a + 1 .. Len(w)
            BY <5>2, <3>1, <3>2
          <6> QED BY <6>1, <3>1, <3>2, <2>1 DEF IsExtended
        <5> QED BY <5>1, <5>2
      <4> QED BY <4>1
    <3>6. Calm'
      BY <3>1, <3>3, <3>4, <3>5, <2>1, <2>3, <1>1 DEF Calm
    <3> QED BY <3>6 DEF Whereabouts
  <2> QED BY <2>2, <2>3, <1>1
<1>9. CASE Coming
  <2>1. Coming'
    BY <1>1, <1>6, <1>7, <1>9, MoreWhenComing
  <2> QED BY <2>1 DEF Whereabouts
<1>10. CASE Serving
  <2>1. Serving'
    BY <1>1, <1>6, <1>7, <1>10, MoreWhenServing
  <2> QED BY <2>1 DEF Whereabouts
<1>11. CASE Doomed
  <2>1. y[1] = Dollar \/ ~MayAsk'
    BY <1>1, <1>5 DEF MayAsk
  <2>2. y[1] = Dollar \/ \A i \in 1 .. Len(y) : y[i] # Hash
    <3>1. Minus # Hash
      BY DEF Minus, Hash
    <3> QED BY <3>1, <1>1, <1>4, <1>5
  <2>3. Doomed'
    BY <2>1, <2>2, <1>1, <1>6, <1>7, <1>11, MoreWhenDoomed
  <2> QED BY <2>3 DEF Whereabouts
<1>12. Open
  BY <1>1 DEF PacketsInv, Closed
<1> QED BY <1>8, <1>9, <1>10, <1>11, <1>12 DEF PacketsInv, Whereabouts

(* What GDB says again when it times out.                                  *)
LEMMA TimeoutSays ==
    ASSUME PacketsTypeOK, Requesting, GdbTimesOut
    PROVE  \E y \in Seq(0 .. 256) :
              /\ toBridge' = toBridge \o y /\ Len(y) # 0 /\ y[1] # Plus
              /\ \A i \in 1 .. Len(y) : y[i] # EndOfFile
<1>1. PICK y : y = IF gdb = "ack" THEN Frame(request) ELSE <<Minus>>
  OBVIOUS
<1>2. gdb \in {"ack", "reply"} /\ toBridge' = toBridge \o y
  BY <1>1 DEF GdbTimesOut
<1>3. CASE gdb = "reply"
  <2>1. y \in Seq(0 .. 256) /\ Len(y) = 1 /\ \A i \in 1 .. Len(y) : y[i] = Minus
    BY <1>1, <1>3 DEF Minus
  <2>2. Minus # Plus /\ Minus # EndOfFile
    BY DEF Minus, Plus, EndOfFile
  <2>3. y[1] = Minus /\ Len(y) # 0
    BY ONLY <2>1
  <2> QED BY <2>1, <2>2, <2>3, <1>2
<1>4. CASE gdb = "ack"
  <2>1. IsText(request)
    BY <1>4, WhoIsKill DEF Requesting, Asked
  <2>2. y \in Seq(0 .. 255) /\ Len(y) = Len(request) + 4 /\ Len(request) \in Nat /\ y[1] = Dollar
    BY <2>1, <1>1, <1>4, FrameOfText DEF Chars
  <2>3. Dollar # Plus /\ EndOfFile \notin 0 .. 255
    BY DEF Dollar, Plus, EndOfFile
  <2>4. \A i \in 1 .. Len(y) : y[i] # EndOfFile
    BY <2>2, <2>3, ElementOfSeq
  <2>5. y \in Seq(0 .. 256)
    BY <2>2, CharsOnTheWire DEF Chars
  <2>6. y[1] # Plus
    BY <2>2, <2>3
  <2>7. Len(y) # 0
    BY <2>2
  <2> QED BY <2>4, <2>5, <2>6, <2>7, <1>2
<1> QED BY <1>2, <1>3, <1>4

(* GDB times out.                                                          *)
LEMMA TimeoutKeepsInv ==
    ASSUME PacketsTypeOK, PacketsInv, GdbTimesOut, ~IsMonitor(request)
    PROVE  PacketsInv'
<1>1. /\ gdb \in {"ack", "reply"}
      /\ UNCHANGED <<pc, receiver, toGdb, gdb, request, damaged, history>>
      /\ Waiting
  BY DEF GdbTimesOut, Waiting
<1>2. Requesting /\ Replies /\ Ends /\ Closed /\ Checked /\ OneReplyPerRequest
  BY DEF PacketsInv
<1>3. PICK y \in Seq(0 .. 256) :
          /\ toBridge' = toBridge \o y /\ Len(y) # 0 /\ y[1] # Plus
          /\ \A i \in 1 .. Len(y) : y[i] # EndOfFile
  BY <1>2, TimeoutSays
<1>4. Requesting' /\ Closed' /\ Checked' /\ OneReplyPerRequest'
  <2>1. Open
    BY <1>1, <1>2 DEF Closed
  <2> QED BY <2>1, <1>1, <1>2
      DEF Requesting, Closed, Checked, OneReplyPerRequest, Open, receiver, history
<1>5. Serving => Serving'
  BY <1>1, <1>3, MoreWhenServing
<1>6. Replies'
  BY <1>1, <1>2, <1>5 DEF Replies
<1>7. Ends'
  <2>1. PICK w : w = toBridge /\ w \in Seq(0 .. 256)
    BY DEF PacketsTypeOK
  <2>2. \A i \in 1 .. Len(w) : w[i] # EndOfFile
    BY <2>1, <1>1, <1>2 DEF Ends
  <2>3. \A i \in 1 .. Len(w \o y) : (w \o y)[i] # EndOfFile
    BY <2>1, <2>2, <1>3, AllOfConcat
  <2> QED BY <2>1, <2>3, <1>3 DEF Ends
<1>8. Whereabouts'
  BY TimeoutKeepsWhereabouts
<1> QED BY <1>4, <1>6, <1>7, <1>8 DEF PacketsInv

(* GDB goes away.                                                          *)
LEMMA LeavingKeepsInv ==
    ASSUME PacketsTypeOK, PacketsInv, GdbLeaves
    PROVE  PacketsInv'
<1>1. /\ gdb # "absent" /\ gdb' = "absent" /\ toBridge' = Append(toBridge, EndOfFile)
      /\ UNCHANGED <<pc, receiver, request, damaged, history>> /\ Waiting
  BY DEF GdbLeaves, Waiting
<1>2. PICK w, v, y : w = toBridge /\ v = toBridge' /\ y = <<EndOfFile>>
  OBVIOUS
<1>3. /\ w \in Seq(0 .. 256) /\ y \in Seq(0 .. 256) /\ Len(y) = 1 /\ y[1] = EndOfFile
      /\ v = w \o y
  <2>1. w \in Seq(0 .. 256) /\ EndOfFile \in 0 .. 256
    BY <1>2 DEF PacketsTypeOK, EndOfFile
  <2>2. Append(w, EndOfFile) = w \o <<EndOfFile>>
    BY <2>1, AppendIsConcat
  <2>3. y \in Seq(0 .. 256) /\ Len(y) = 1 /\ y[1] = EndOfFile
    BY <2>1, <1>2
  <2> QED BY <2>1, <2>2, <2>3, <1>1, <1>2
<1>4. Len(y) # 0 /\ y[1] # Plus /\ y[1] \notin HexDigit /\ y[1] = EndOfFile
      /\ \A i \in 1 .. Len(y) : y[i] # Hash
  <2>1. \A i \in 1 .. Len(y) : y[i] = EndOfFile
    BY <1>3
  <2>2. EndOfFile # Plus /\ EndOfFile # Hash
    BY DEF EndOfFile, Plus, Hash
  <2>3. EndOfFile \notin HexDigit
    BY HexDigitIs
  <2> QED BY <2>1, <2>2, <2>3, <1>3
<1>5. /\ IsExtended(v, w) /\ Len(w) \in Nat /\ Len(v) = Len(w) + 1 /\ v[Len(w) + 1] = EndOfFile
  <2>1. /\ IsExtended(w \o y, w) /\ Len(w \o y) = Len(w) + Len(y) /\ Len(w) \in Nat
        /\ \A i \in 1 .. Len(y) : (w \o y)[Len(w) + i] = y[i]
    <3>1. PICK S : S = 0 .. 256
      OBVIOUS
    <3>2. w \in Seq(S) /\ y \in Seq(S)
      BY <3>1, <1>3
    <3> QED BY ONLY <3>2, ConcatExtends
  <2>2. 1 \in 1 .. Len(y)
    BY <1>3
  <2> QED BY <2>1, <2>2, <1>3
<1>6. Requesting' /\ Replies' /\ Ends' /\ OneReplyPerRequest'
  BY <1>1 DEF Requesting, Replies, Ends, OneReplyPerRequest
<1>7. Open
  BY <1>1 DEF PacketsInv, Closed
<1>8. Closed' /\ Checked'
  BY <1>1, <1>7 DEF PacketsInv, Closed, Checked, Open, receiver
<1>9. Calm => Calm'
  <2>1. SUFFICES ASSUME Calm PROVE Calm'
    OBVIOUS
  <2>2. PICK a \in 0 .. Len(w) :
          Lead(a) /\ \A i \in a + 1 .. Len(w) : w[i] \in {Minus, EndOfFile}
    BY <2>1, <1>2 DEF Calm
  <2>3. Lead(a)'
    BY <2>2, <1>1, <1>2, <1>5, LeadStays
  <2>4. a \in 0 .. Len(v)
    BY <1>5
  <2>5. ASSUME NEW i \in a + 1 .. Len(v) PROVE v[i] \in {Minus, EndOfFile}
    <3>1. CASE i = Len(w) + 1
      BY <3>1, <1>5
    <3>2. CASE i # Len(w) + 1
      <4>1. i \in 1 .. Len(w) /\ i \in a + 1 .. Len(w)
        BY <3>2, <1>5
      <4> QED BY <4>1, <2>2, <1>5 DEF IsExtended
    <3> QED BY <3>1, <3>2
  <2>6. gdb' \notin {"idle", "ack", "reply"}
    BY <1>1
  <2> QED BY <2>3, <2>4, <2>5, <2>6, <1>2 DEF Calm
<1>10. Coming => Coming'
  BY <1>1, <1>2, <1>3, <1>4, MoreWhenComing
<1>11. Serving => Serving'
  BY <1>1, <1>2, <1>3, <1>4, MoreWhenServing
<1>12. Doomed => Doomed'
  <2>1. ~MayAsk'
    BY <1>1 DEF MayAsk
  <2> QED BY <2>1, <1>1, <1>2, <1>3, <1>4, MoreWhenDoomed
<1>13. Whereabouts'
  BY <1>1, <1>9, <1>10, <1>11, <1>12 DEF PacketsInv, Whereabouts, Open
<1> QED BY <1>6, <1>8, <1>13 DEF PacketsInv

(* GDB does anything.                                                      *)
LEMMA GdbKeepsInv ==
    ASSUME PatientMonitor, TypeOK, PacketsInv, GdbStep
    PROVE  PacketsInv'
<1>1. PacketsTypeOK
  BY DEF TypeOK
<1>2. CASE asked < MaxRequests
           /\ \E r \in GdbRequest[asked + 1] : GdbSends(r) \/ GdbSendsDamaged(r)
  <2>1. PICK r \in GdbRequest[asked + 1] : GdbSends(r) \/ GdbSendsDamaged(r)
    BY <1>2
  <2>2. asked + 1 \in 1 .. MaxRequests
    BY <1>1, <1>2, RspPacketsAssumption DEF PacketsTypeOK
  <2>3. r \in Request
    BY <2>2 DEF Request
  <2> QED BY <2>1, <2>3, <1>1, AskingKeepsInv
<1>3. CASE GdbGetsAck
  BY <1>1, <1>3, AckKeepsInv
<1>4. CASE GdbGetsReply
  BY <1>1, <1>4, ReplyKeepsInv
<1>5. CASE GdbTimesOut
  <2>1. timeouts' = timeouts + 1 /\ timeouts \in Nat
    BY <1>1, <1>5 DEF GdbTimesOut, PacketsTypeOK
  <2>2. timeouts' # timeouts
    BY <2>1
  <2>3. ~IsMonitor(request)
    BY <2>2 DEF GdbStep, MayTimeOut, IsMonitor
  <2> QED BY <2>3, <1>1, <1>5, TimeoutKeepsInv
<1>6. CASE GdbLeaves
  BY <1>1, <1>6, LeavingKeepsInv
<1> QED BY <1>2, <1>3, <1>4, <1>5, <1>6 DEF GdbStep, Gdb

(* Nothing happens to the packets.                                         *)
packets == <<pc, receiver, reply, wires, client, history>>

(* Nor to the invariant.                                                   *)
LEMMA NothingKeepsInv ==
    ASSUME PacketsInv, UNCHANGED packets
    PROVE  PacketsInv'
<1>1. /\ UNCHANGED <<pc, is_first_packet, buf, checksum, digit, toBridge, toGdb, gdb, request>>
      /\ UNCHANGED <<damaged, started, answered>>
  BY DEF packets, receiver, wires, client, history
<1>2. Requesting' /\ Ends' /\ Closed' /\ Checked' /\ OneReplyPerRequest'
  BY <1>1 DEF PacketsInv, Requesting, Ends, Closed, Checked, Open, OneReplyPerRequest
<1>3. Serving => Serving'
  BY <1>1 DEF Serving, After
<1>4. Replies'
  BY <1>1, <1>3 DEF PacketsInv, Replies
<1>5. ASSUME NEW a PROVE Lead(a) => Lead(a)'
  BY <1>1 DEF Lead, Ready, AwaitsKill, Idling
<1>6. Calm => Calm'
  BY <1>1, <1>5 DEF Calm
<1>7. ASSUME NEW a, NEW t PROVE TextReached(a, t) => TextReached(a, t)'
  BY <1>1, <1>5 DEF TextReached
<1>8. ASSUME NEW a, NEW t, NEW d PROVE Reached(a, t, d) => Reached(a, t, d)'
  BY <1>1, <1>7 DEF Reached
<1>9. Coming => Coming'
  <2>1. \A a \in Int : BreakComing(a) => BreakComing(a)'
    BY <1>1, <1>5 DEF BreakComing, After
  <2>2. \A a \in Int : PacketComing(a, request) => PacketComing(a, request)'
    BY <1>1, <1>8 DEF PacketComing, After
  <2> QED BY <2>1, <2>2, <1>1 DEF Coming
<1>10. Doomed => Doomed'
  <2>1. DoomedAcking => DoomedAcking'
    BY <1>1 DEF DoomedAcking
  <2>2. \A a \in Int : DoomedStart(a) => DoomedStart(a)'
    BY <1>1, <1>5 DEF DoomedStart
  <2>3. \A a \in Int : Endless(a) => Endless(a)'
    BY <1>1, <1>5 DEF Endless, MayAsk
  <2>4. \A a \in Int : OpenKillComing(a) => OpenKillComing(a)'
    BY <1>1, <1>7 DEF OpenKillComing
  <2>5. \A a \in Int : \A t \in Texts : \A d \in HexDigit :
            WrongPacket(a, t, d) => WrongPacket(a, t, d)'
    BY <1>1, <1>8 DEF WrongPacket, MayAsk
  <2> QED BY <2>1, <2>2, <2>3, <2>4, <2>5 DEF Doomed
<1>11. Whereabouts'
  BY <1>1, <1>3, <1>6, <1>9, <1>10 DEF PacketsInv, Whereabouts, Open
<1> QED BY <1>2, <1>4, <1>11 DEF PacketsInv

(* Where the bridge is when something comes first, or is being read.       *)
LEMMA LeadWhere ==
    ASSUME NEW a, Lead(a)
    PROVE  /\ pc # "access" /\ (pc = "handling" => buf = Kill)
           /\ pc \in Acking => toBridge[1] = Plus
<1>1. PICK b, c : b \in 0 .. a /\ c = toBridge[1] /\ Kills(toBridge, b, a) /\ Ready(c, b, a)
  BY LeadParts
<1>2. b > 0 \/ (b = 0 /\ a > 0) \/ a = 0
  <2>1. a \in 0 .. Len(toBridge) /\ b \in 0 .. a
    BY <1>1 DEF Kills
  <2> QED BY <2>1
<1>3. Idling => pc \notin {"access"} \cup Acking /\ (pc = "handling" => buf = Kill)
  BY DEF Idling, Starting, Acking
<1>4. AwaitsKill(c) => pc \notin {"access"} \cup Acking /\ (pc = "handling" => buf = Kill)
  BY DEF AwaitsKill, Starting, Acking
<1>5. b > 0 => \/ pc \in Starting
               \/ pc \in Acking /\ c = Plus
  BY <1>1 DEF Ready
<1>6. b = 0 /\ a > 0 => AwaitsKill(c)
  BY <1>1 DEF Ready
<1>7. a = 0 => Idling
  BY <1>1 DEF Ready
<1> QED BY <1>1, <1>2, <1>3, <1>4, <1>5, <1>6, <1>7 DEF Starting, Acking

\* The same of packets.
LEMMA ReachedWhere ==
    ASSUME NEW a, NEW t, NEW d, Reached(a, t, d)
    PROVE  /\ pc # "access" /\ (pc = "handling" => buf = Kill)
           /\ pc \in Acking => toBridge[1] = Plus
<1>1. Lead(a) \/ pc \in {"body", "sum1", "sum2"}
  BY DEF Reached, TextReached
<1> QED BY <1>1, LeadWhere DEF Acking

\* And of the packets that are doomed.
LEMMA DoomedWhere ==
    ASSUME Doomed
    PROVE  /\ pc # "access" /\ (pc = "handling" => buf = Kill)
           /\ pc = "acking_monitor" => toBridge[1] = Plus
<1> DEFINE Where == /\ pc # "access" /\ (pc = "handling" => buf = Kill)
                    /\ pc = "acking_monitor" => toBridge[1] = Plus
<1>1. DoomedAcking => Where
  BY DEF DoomedAcking
<1>2. ASSUME NEW a \in Int, DoomedStart(a) PROVE Where
  BY <1>2, LeadWhere DEF DoomedStart, Acking
<1>3. ASSUME NEW a \in Int, Endless(a) PROVE Where
  <2>1. Lead(a) \/ pc = "body"
    BY <1>3 DEF Endless
  <2> QED BY <2>1, LeadWhere DEF Acking
<1>4. ASSUME NEW a \in Int, OpenKillComing(a) PROVE Where
  <2>1. Lead(a) \/ pc = "body"
    BY <1>4 DEF OpenKillComing, TextReached
  <2> QED BY <2>1, LeadWhere DEF Acking
<1>5. ASSUME NEW a \in Int, NEW t \in Texts, NEW d \in HexDigit, WrongPacket(a, t, d) PROVE Where
  <2>1. Reached(a, t, d)
    BY <1>5 DEF WrongPacket
  <2> QED BY <2>1, ReachedWhere DEF Acking
<1> HIDE DEF Where
<1>6. Where
  BY <1>1, <1>2, <1>3, <1>4, <1>5 DEF Doomed
<1> QED BY <1>6 DEF Where

(* What a handler gets is the last request, but for requests to kill the   *)
(* program; and what is refused as the acknowledgement of a command's      *)
(* reply is the end of the connection.                                     *)
LEMMA OnlyServing ==
    ASSUME PacketsInv,
           \/ (pc = "handling" /\ buf # Kill) \/ pc = "access"
           \/ pc = "acking_monitor" /\ toBridge[1] # Plus
    PROVE  Serving
<1>1. ~Calm
  BY LeadWhere DEF Calm, Acking
<1>2. ~Coming
  <2>1. \A a \in Int : ~BreakComing(a)
    BY LeadWhere DEF BreakComing, Acking
  <2>2. \A a \in Int : ~PacketComing(a, request)
    BY ReachedWhere DEF PacketComing, Acking
  <2> QED BY <2>1, <2>2 DEF Coming
<1>3. ~Doomed
  BY DoomedWhere
<1>4. Open
  BY DEF Open
<1> QED BY <1>1, <1>2, <1>3, <1>4 DEF PacketsInv, Whereabouts

(* A handler replies.                                                      *)
LEMMA ReplyingKeepsInv ==
    ASSUME PacketsTypeOK, PacketsInv, pc \in {"handling", "access"}, Serving,
           NEW payload, NEW next \in Acking, PutPacket(payload, next), UNCHANGED toBridge,
           next = "acking_monitor" => IsMonitor(request)
    PROVE  PacketsInv'
<1>1. /\ toGdb' = Append(toGdb, Frame(payload)) /\ answered' = answered + 1 /\ pc' = next
      /\ UNCHANGED <<buf, checksum, toBridge, gdb, request, damaged, started>>
  BY DEF PutPacket, receiver, client
<1>2. Requesting /\ Replies /\ Ends /\ Closed /\ Checked /\ gdb # "idle"
      /\ (gdb # "absent" => answered = 0) /\ (gdb = "ack" => toGdb # <<>>)
  BY DEF PacketsInv, Serving
<1>3. pc' \in Acking /\ Open'
  BY <1>1 DEF Acking, Open
<1>4. gdb' # "absent" => answered' = 1
  BY <1>1, <1>2
<1>5. OneReplyPerRequest'
  BY <1>4 DEF OneReplyPerRequest
<1>6. Requesting' /\ Ends' /\ Closed' /\ Checked'
  BY <1>1, <1>2, <1>3 DEF Requesting, Ends, Closed, Checked, Acking
<1>7. Serving'
  BY <1>1, <1>3, <1>4 DEF Serving, After, Acking
<1>8. Replies'
  <2>1. SUFFICES ASSUME gdb # "absent"
                 PROVE  Replies'
    BY <1>1 DEF Replies
  <2>2. gdb \in {"ack", "reply"}
    BY <2>1, <1>2 DEF PacketsTypeOK
  <2>3. PICK s, f : s = toGdb /\ f = Frame(payload)
    OBVIOUS
  <2>4. \A j \in 1 .. Len(s) : s[j] = <<Plus>>
    <3>1. pc \notin Acking
      BY DEF Acking
    <3> QED BY <3>1, <2>1, <2>3, <1>2 DEF Replies
  <2>5. Len(s) \in Nat /\ Len(Append(s, f)) = Len(s) + 1
        /\ \A j \in 1 .. Len(s) : Append(s, f)[j] = s[j]
    <3>1. PICK S : S = Seq(0 .. 255) \cup {f}
      OBVIOUS
    <3>2. s \in Seq(S) /\ f \in S
      <4>1. s \in Seq(Seq(0 .. 255)) /\ Seq(0 .. 255) \subseteq S
        BY <2>3, <3>1 DEF PacketsTypeOK
      <4> QED BY <4>1, <3>1, SeqMonotonic
    <3> QED BY ONLY <3>2, AppendProperties, LenProperties
  <2>6. gdb = "ack" => Len(s) # 0
    <3>1. PICK S : S = Seq(0 .. 255)
      OBVIOUS
    <3>2. s \in Seq(S)
      BY <2>3, <3>1 DEF PacketsTypeOK
    <3>3. Len(s) = 0 => s = <<>>
      BY ONLY <3>2, EmptySeq
    <3> QED BY <3>3, <2>3, <1>2
  <2>7. ASSUME NEW j \in 1 .. Len(s) + 1, Append(s, f)[j] # <<Plus>>
        PROVE  j = Len(s) + 1 /\ (gdb = "ack" => j > 1)
    <3>1. j = Len(s) + 1
      <4>1. j \notin 1 .. Len(s)
        BY <2>4, <2>5, <2>7
      <4> QED BY <4>1, <2>5
    <3>2. Len(s) # 0 => j > 1
      BY <3>1, <2>5
    <3> QED BY <3>1, <3>2, <2>6
  <2> QED BY <2>2, <2>3, <2>5, <2>7, <1>1, <1>3, <1>7 DEF Replies
<1> QED BY <1>5, <1>6, <1>7, <1>8 DEF PacketsInv, Whereabouts

(* A "monitor" command that a handler takes for one is the last request.   *)
LEMMA MonitorIsLast ==
    ASSUME PacketsTypeOK, NEW c, Monitors(c)
    PROVE  pc = "handling" /\ IsMonitor(buf) /\ Head(buf) # KillRequest
<1>1. PICK b, p, q : b = buf /\ p = <<Query, Rcmd, c>> /\ q = <<Query, Rcmd>>
  OBVIOUS
<1>2. /\ b \in Seq(0 .. 255) /\ Len(p) = 3 /\ Len(q) = 2 /\ Len(b) \in Nat
      /\ p[1] = Query /\ p[2] = Rcmd /\ q[1] = Query /\ q[2] = Rcmd
  BY <1>1, LenProperties DEF PacketsTypeOK
<1>3. Len(p) <= Len(b) /\ SubSeq(p, 1, 3) = SubSeq(b, 1, 3)
  BY <1>1, <1>2 DEF Monitors, IsPrefix
<1>4. PICK S : S = {p[i] : i \in 1 .. 3} \cup (0 .. 255)
  OBVIOUS
<1>5. \A i \in 1 .. 3 : p[i] \in S /\ b[i] \in S
  <2>1. ASSUME NEW i \in 1 .. 3 PROVE b[i] \in 0 .. 255
    <3>1. i \in 1 .. Len(b) /\ b \in Seq(0 .. 255)
      BY <1>2, <1>3
    <3> QED BY ONLY <3>1, ElementOfSeq
  <2> QED BY <2>1, <1>4
<1>6. \A i \in 1 .. 3 : p[i] = b[i]
  <2>1. 1 \in Int /\ 3 \in Int
    OBVIOUS
  <2>2. \A i \in 1 .. 3 - 1 + 1 : SubSeq(p, 1, 3)[i] = p[1 + i - 1]
    BY ONLY <2>1, <1>5, SubSeqProperties
  <2>3. \A i \in 1 .. 3 - 1 + 1 : SubSeq(b, 1, 3)[i] = b[1 + i - 1]
    BY ONLY <2>1, <1>5, SubSeqProperties
  <2>4. \A i \in 1 .. 3 : i \in 1 .. 3 - 1 + 1 /\ 1 + i - 1 = i
    OBVIOUS
  <2> QED BY <2>2, <2>3, <2>4, <1>3
<1>7. \A i \in 1 .. 2 : q[i] = b[i] /\ q[i] \in S /\ b[i] \in S
  <2>1. \A i \in 1 .. 2 : i \in 1 .. 3 /\ (i = 1 \/ i = 2)
    OBVIOUS
  <2>2. q[1] = p[1] /\ q[2] = p[2]
    BY <1>2
  <2> QED BY <2>1, <2>2, <1>5, <1>6
<1>8. SubSeq(q, 1, 2) = SubSeq(b, 1, 2)
  <2>1. 1 \in Int /\ 2 \in Int
    OBVIOUS
  <2> DEFINE P(u, v) == /\ v \in Seq(S) /\ Len(v) = (IF 1 <= 2 THEN 2 - 1 + 1 ELSE 0)
                        /\ \A i \in 1 .. 2 - 1 + 1 : v[i] = u[1 + i - 1]
  <2>2. P(q, SubSeq(q, 1, 2)) /\ P(b, SubSeq(b, 1, 2))
    BY <2>1, <1>7, SubSeqProperties
  <2>3. PICK x, y : x = SubSeq(q, 1, 2) /\ y = SubSeq(b, 1, 2)
    OBVIOUS
  <2>4. P(q, x) /\ P(b, y)
    BY <2>2, <2>3
  <2>5. /\ x \in Seq(S) /\ y \in Seq(S) /\ Len(x) = 2 /\ Len(y) = 2
        /\ \A i \in 1 .. 2 : x[i] = q[i] /\ y[i] = b[i]
    <3>1. \A i \in 1 .. 2 : i \in 1 .. 2 - 1 + 1 /\ 1 + i - 1 = i
      OBVIOUS
    <3> QED BY <3>1, <2>4
  <2> HIDE DEF P
  <2>6. \A i \in 1 .. Len(x) : x[i] = y[i]
    BY <2>5, <1>7
  <2>7. x = y
    BY ONLY <2>5, <2>6, SeqEqual
  <2> QED BY <2>3, <2>7
<1>9. Len(q) <= Len(b) /\ SubSeq(q, 1, Len(q)) = SubSeq(b, 1, Len(q))
  BY <1>2, <1>3, <1>8
<1>10. Head(b) # KillRequest
  <2>1. Head(b) = b[1]
    BY <1>2, <1>3
  <2>2. b[1] = Query
    BY <1>2, <1>7
  <2> QED BY <2>1, <2>2 DEF Query, KillRequest
<1>11. pc = "handling"
  BY DEF Monitors
<1> QED BY <1>1, <1>9, <1>10, <1>11 DEF IsMonitor, IsPrefix

(* Everybody but kill_request handles something else.                      *)
LEMMA NotKill ==
    ASSUME pc = "handling", Head(buf) # KillRequest
    PROVE  pc = "handling" /\ buf # Kill
BY DEF Kill

(* The connection ends.                                                    *)
LEMMA ClosingKeepsInv ==
    ASSUME ClientClose, pc' \in {"listening", "crashed"}
    PROVE  PacketsInv'
<1>1. gdb' = "absent" /\ toBridge' = <<>> /\ toGdb' = <<>>
  BY DEF ClientClose
<1>2. ~Open'
  BY DEF Open
<1> QED BY <1>1, <1>2 DEF PacketsInv, Requesting, Replies, Ends, Closed, Checked,
           OneReplyPerRequest, Whereabouts

(* Handlers that only reply.                                               *)
LEMMA HandlersReplyOnce ==
    ASSUME TypeOK, PacketsInv, pc = "handling", Head(buf) # KillRequest,
           NEW payload, NEW next \in Acking, PutPacket(payload, next), UNCHANGED toBridge,
           next = "acking_monitor" => IsMonitor(buf)
    PROVE  PacketsInv'
<1>1. Serving
  BY NotKill, OnlyServing
<1>2. buf = request
  BY <1>1 DEF Serving
<1> QED BY <1>1, <1>2, ReplyingKeepsInv DEF TypeOK

(* Memory is read and written.                                             *)
LEMMA AccessesKeepInv ==
    ASSUME TypeOK, PacketsInv,
           rsp_read_mem \/ rsp_write_mem \/ AccessMemory \/ FinishAccess
    PROVE  PacketsInv'
<1>1. CASE rsp_read_mem \/ rsp_write_mem
  <2>1. /\ pc = "handling" /\ pc' = "access" /\ Head(buf) # KillRequest
        /\ UNCHANGED <<receiver, reply, wires, client, history>>
    BY <1>1 DEF rsp_read_mem, rsp_write_mem, Handles, ReadMem, WriteMem, KillRequest
  <2>2. Serving
    BY <2>1, NotKill, OnlyServing
  <2>3. Open
    BY <2>1 DEF Open
  <2>4. Serving'
    BY <2>1, <2>2 DEF Serving, After, receiver, wires, client, history
  <2>5. Whereabouts'
    BY <2>4 DEF Whereabouts
  <2>6. /\ Requesting' /\ Ends' /\ Closed' /\ Checked' /\ OneReplyPerRequest'
    BY <2>1, <2>3 DEF PacketsInv, Requesting, Ends, Closed, Checked, Open,
                      OneReplyPerRequest, receiver, wires, client, history
  <2>7. Replies'
    <3>1. pc \notin Acking
      BY <2>1 DEF Acking
    <3>2. gdb # "absent" => \A j \in 1 .. Len(toGdb) : ~(toGdb[j] # <<Plus>>)
      BY <3>1 DEF PacketsInv, Replies
    <3> QED BY <3>2, <2>1 DEF Replies, wires, client
  <2> QED BY <2>5, <2>6, <2>7 DEF PacketsInv
<1>2. CASE AccessMemory
  <2>1. UNCHANGED packets
    BY <1>2 DEF AccessMemory, packets
  <2> QED BY <2>1, NothingKeepsInv
<1>3. CASE FinishAccess
  <2>1. pc = "access" /\ PutPacket(MemoryReply, "acking") /\ UNCHANGED toBridge
    BY <1>3 DEF FinishAccess, Reply
  <2>2. Serving
    BY <2>1, OnlyServing
  <2>3. PICK payload, next : payload = MemoryReply /\ next = "acking"
    OBVIOUS
  <2>4. PutPacket(payload, next) /\ next \in Acking /\ next # "acking_monitor"
    BY <2>1, <2>3 DEF Acking
  <2> QED BY <2>1, <2>2, <2>4, ReplyingKeepsInv DEF TypeOK
<1> QED BY <1>1, <1>2, <1>3

(* The other handlers.                                                     *)
LEMMA RepliesKeepInv ==
    ASSUME TypeOK, PacketsInv,
           \/ rsp_read_all_regs \/ rsp_write_reg \/ MonitorHelp \/ MonitorReadSpr
           \/ MonitorWriteSpr \/ MonitorReset \/ MonitorError \/ AnswerFixed
    PROVE  PacketsInv'
<1> DEFINE Answers(p, n) == PutPacket(p, n) /\ UNCHANGED toBridge
<1>1. ASSUME \E p : Answers(p, "acking"), pc = "handling", Head(buf) # KillRequest PROVE PacketsInv'
  <2>1. PICK p : Answers(p, "acking")
    BY <1>1
  <2>2. PICK n : n = "acking"
    OBVIOUS
  <2>3. n \in Acking /\ n # "acking_monitor" /\ PutPacket(p, n) /\ UNCHANGED toBridge
    BY <2>1, <2>2 DEF Acking
  <2> HIDE DEF Answers
  <2> QED BY <2>3, <1>1, HandlersReplyOnce
<1>2. ASSUME \E p : Answers(p, "acking_monitor"), NEW c, Monitors(c) PROVE PacketsInv'
  <2>1. PICK p : Answers(p, "acking_monitor")
    BY <1>2
  <2>2. PICK n : n = "acking_monitor"
    OBVIOUS
  <2>3. n \in Acking /\ PutPacket(p, n) /\ UNCHANGED toBridge
    BY <2>1, <2>2 DEF Acking
  <2>4. pc = "handling" /\ IsMonitor(buf) /\ Head(buf) # KillRequest
    BY <1>2, MonitorIsLast DEF TypeOK
  <2> HIDE DEF Answers
  <2> QED BY <2>3, <2>4, HandlersReplyOnce
<1> HIDE DEF Answers
<1>3. CASE rsp_read_all_regs \/ rsp_write_reg \/ MonitorError
  <2>1. /\ \E p : Answers(p, "acking")
        /\ pc = "handling" /\ Head(buf) \in {ReadRegs, WriteReg, Query}
    BY <1>3 DEF rsp_read_all_regs, rsp_write_reg, MonitorError, Reply, Handles, Answers
  <2> QED BY <2>1, <1>1 DEF ReadRegs, WriteReg, Query, KillRequest
<1>4. CASE AnswerFixed
  <2>1. /\ \E p : Answers(p, "acking")
        /\ pc = "handling" /\ IsFixed
    BY <1>4 DEF AnswerFixed, Reply, Answers
  <2>2. Head(buf) \in {GDB_RSP_BREAK_CMD, 63, 33, 72, 68, 88, 118, Query}
    BY <2>1 DEF IsFixed
  <2> QED BY <2>1, <2>2, <1>1 DEF GDB_RSP_BREAK_CMD, Query, KillRequest
<1>5. CASE MonitorHelp \/ MonitorReadSpr \/ MonitorWriteSpr
  <2>1. (\E c : Monitors(c)) /\ \E p : Answers(p, "acking_monitor")
    BY <1>5 DEF MonitorHelp, MonitorReadSpr, MonitorWriteSpr, MonitorReply, Answers
  <2> QED BY <2>1, <1>2
<1>6. CASE MonitorReset
  <2>1. Monitors(122)
    BY <1>6 DEF MonitorReset
  <2>2. (\E p : Answers(p, "acking_monitor")) \/ (\E p : Answers(p, "acking"))
    BY <1>6 DEF MonitorReset, MonitorReply, Reply, Answers
  <2>3. pc = "handling" /\ Head(buf) # KillRequest
    BY <2>1, MonitorIsLast DEF TypeOK
  <2> QED BY <2>1, <2>2, <2>3, <1>1, <1>2
<1> QED BY <1>3, <1>4, <1>5, <1>6

(* A refused acknowledgement of a command's reply: the end of the          *)
(* connection was read, and nobody is there to get the other reply.        *)
LEMMA RefusalKeepsInv ==
    ASSUME TypeOK, PacketsInv, MonitorRefused
    PROVE  PacketsInv'
<1>1. pc = "acking_monitor" /\ toBridge # <<>> /\ Char # Plus /\ PutPacket(ErrorText, "acking")
      /\ toBridge' = (IF Char = EndOfFile THEN toBridge ELSE Tail(toBridge))
  BY DEF MonitorRefused, BadAcknowledgement
<1>2. Char = toBridge[1] /\ Len(toBridge) \in Nat \ {0}
  BY <1>1, FirstIsRead DEF TypeOK
<1>3. Serving /\ IsMonitor(request) /\ After(toBridge, 1)
  <2>1. Serving
    BY <1>1, <1>2, OnlyServing
  <2> QED BY <2>1, <1>1 DEF Serving
<1>4. 1 <= Len(toBridge) /\ 1 \in 1 .. Len(toBridge)
  BY <1>2
<1>5. toBridge[1] = EndOfFile
  BY <1>3, <1>4 DEF After
<1>6. gdb = "absent" /\ toBridge' = toBridge
  BY <1>1, <1>2, <1>4, <1>5 DEF PacketsInv, Ends
<1>7. /\ pc' = "acking"
      /\ UNCHANGED <<buf, checksum, toBridge, gdb, request, damaged, started>>
  BY <1>1, <1>6 DEF PutPacket, receiver, client
<1>8. Serving'
  BY <1>3, <1>6, <1>7 DEF Serving, After
<1>9. Open'
  BY <1>7 DEF Open
<1>10. Requesting' /\ Replies' /\ Ends' /\ Closed' /\ Checked' /\ OneReplyPerRequest'
  BY <1>6, <1>7, <1>9 DEF Requesting, Replies, Ends, Closed, Checked, OneReplyPerRequest
<1> QED BY <1>8, <1>10 DEF PacketsInv, Whereabouts

(* Connections begin, with what older programs may have sent first.        *)
LEMMA ConnectingKeepsInv ==
    ASSUME PacketsInv, Connect
    PROVE  PacketsInv'
<1>1. /\ pc = "listening" /\ pc' = "idle" /\ gdb' = "idle" /\ is_first_packet' = TRUE
      /\ toBridge' \in {<<>>, <<Minus, Plus>>} /\ answered' = 0 /\ UNCHANGED toGdb
  BY DEF Connect, Accept
<1>2. toGdb' = <<>>
  BY <1>1 DEF PacketsInv, Closed, Open
<1>3. /\ Requesting' /\ Closed' /\ Checked' /\ OneReplyPerRequest'
  BY <1>1 DEF Requesting, Closed, Open, Checked, OneReplyPerRequest
<1>4. Replies'
  <2>1. \A j \in 1 .. Len(<<>>) : FALSE
    OBVIOUS
  <2> QED BY <2>1, <1>2 DEF Replies
<1>5. PICK v, a : v = toBridge' /\ a = Len(v)
  OBVIOUS
<1>6. a \in Nat /\ \A i \in 1 .. a : v[i] \in Noise /\ v[i] # EndOfFile
  <2>1. CASE v = <<>>
    <3>1. Len(<<>>) = 0 /\ \A i \in 1 .. 0 : FALSE
      OBVIOUS
    <3> QED BY <3>1, <2>1, <1>5
  <2>2. CASE v = <<Minus, Plus>>
    <3>1. Len(<<Minus, Plus>>) = 2 /\ <<Minus, Plus>>[1] = Minus /\ <<Minus, Plus>>[2] = Plus
          /\ \A i \in 1 .. 2 : i = 1 \/ i = 2
      OBVIOUS
    <3>2. a = 2 /\ v[1] = Minus /\ v[2] = Plus
      BY <3>1, <2>2, <1>5
    <3>3. \A e \in {Minus, Plus} : e \in Noise /\ e # EndOfFile
      BY DEF Noise, Minus, Plus, EndOfFile
    <3> QED BY <3>1, <3>2, <3>3
  <2> QED BY <2>1, <2>2, <1>1, <1>5
<1>7. Ends'
  BY <1>5, <1>6 DEF Ends
<1>8. Kills(v, a, a)
  <2>1. a \in 0 .. Len(v) /\ a \in 0 .. a /\ ~(a < a) /\ \A i \in a + 1 .. a - 1 : FALSE
    BY <1>5, <1>6
  <2> QED BY <2>1, <1>6 DEF Kills
<1>9. PICK c : c = v[1]
  OBVIOUS
<1>10. Ready(c, a, a)'
  <2>1. a > 0 \/ a = 0
    BY <1>6
  <2> QED BY <2>1, <1>1 DEF Ready, Starting, Idling
<1>11. Lead(a)'
  <2>1. a \in 0 .. a
    BY <1>6
  <2> QED BY <2>1, <1>5, <1>6, <1>8, <1>9, <1>10, LeadAgain
<1>12. Calm'
  <2>1. a \in 0 .. Len(v) /\ \A i \in a + 1 .. Len(v) : FALSE
    BY <1>5, <1>6
  <2> QED BY <2>1, <1>1, <1>5, <1>11 DEF Calm
<1> QED BY <1>3, <1>4, <1>7, <1>12 DEF PacketsInv, Whereabouts

(* The bridge does anything.                                               *)
LEMMA BridgeKeepsInv ==
    ASSUME TypeOK, PacketsInv, Bridge
    PROVE  PacketsInv'
<1>1. CASE Receive \/ kill_request
  <2>1. Receiving
    BY <1>1 DEF Receive, Receiving
  <2> QED BY <2>1, ReadingKeepsInv DEF TypeOK
<1>2. CASE rsp_read_mem \/ rsp_write_mem \/ AccessMemory \/ FinishAccess
  BY <1>2, AccessesKeepInv
<1>3. CASE \/ rsp_read_all_regs \/ rsp_write_reg \/ MonitorHelp \/ MonitorReadSpr
           \/ MonitorWriteSpr \/ MonitorReset \/ MonitorError \/ AnswerFixed
  BY <1>3, RepliesKeepInv
<1>4. CASE MonitorRefused
  BY <1>4, RefusalKeepsInv
<1>5. CASE AssertionFails \/ ReplyOverflows \/ Caught \/ PollFails
  <2>1. ClientClose /\ pc' \in {"listening", "crashed"}
    BY <1>5 DEF AssertionFails, ReplyOverflows, Caught, Throw, PollFails
  <2> QED BY <2>1, ClosingKeepsInv
<1> QED BY <1>1, <1>2, <1>3, <1>4, <1>5 DEF Bridge, Handle

(* The invariant is inductive, if GDB is patient with commands.            *)
LEMMA InitPackets == Init => PacketsInv
<1> SUFFICES ASSUME Init PROVE PacketsInv
  OBVIOUS
<1>1. pc = "listening" /\ toBridge = <<>> /\ toGdb = <<>> /\ gdb = "absent" /\ buf = <<>>
  BY DEF Init, PacketsInit
<1>2. ~Open
  BY <1>1 DEF Open
<1> QED BY <1>1, <1>2 DEF PacketsInv, Requesting, Replies, Ends, Closed, Checked,
           OneReplyPerRequest, Whereabouts

\* Every step keeps it.
LEMMA PacketsInvInductive ==
    ASSUME PatientMonitor, TypeOK, PacketsInv, [Next]_vars
    PROVE  PacketsInv'
<1>1. CASE GdbStep
  BY <1>1, GdbKeepsInv
<1>2. CASE Bridge
  BY <1>2, BridgeKeepsInv
<1>3. CASE JtagIsLost \/ UNCHANGED vars
  <2>1. UNCHANGED packets
    BY <1>3 DEF JtagIsLost, vars, packets
  <2> QED BY <2>1, NothingKeepsInv
<1>4. CASE Connect
  BY <1>4, ConnectingKeepsInv
<1>5. CASE Restart
  <2>1. /\ pc = "crashed" /\ pc' = "listening"
        /\ UNCHANGED <<receiver, reply, wires, client, history>>
    BY <1>5 DEF Restart
  <2>2. gdb' = "absent" /\ toBridge' = <<>> /\ toGdb' = <<>> /\ ~Open'
    BY <2>1 DEF PacketsInv, Closed, Open, wires, client
  <2> QED BY <2>1, <2>2 DEF PacketsInv, Requesting, Replies, Ends, Closed, Checked,
             OneReplyPerRequest, Whereabouts
<1> QED BY <1>1, <1>2, <1>3, <1>4, <1>5 DEF Next

(* It says what the handlers get.                                          *)
LEMMA PacketsInvMeans == PacketsInv => OnlyWholeRequests /\ OneReplyPerRequest
<1> SUFFICES ASSUME PacketsInv PROVE OnlyWholeRequests /\ OneReplyPerRequest
  OBVIOUS
<1>1. ASSUME pc \in {"handling", "access"}, buf # <<KillRequest>>
      PROVE  buf = request /\ ~damaged /\ started = 1
  <2>1. Serving
    BY <1>1, OnlyServing DEF Kill
  <2> QED BY <2>1, <1>1 DEF Serving
<1> QED BY <1>1 DEF OnlyWholeRequests, PacketsInv

(* Behaviours of the bridge keep it.                                       *)
LEMMA PacketsAreSafe ==
    ASSUME PatientMonitor
    PROVE  Spec => []PacketsInv
<1>1. Init => TypeOK
  BY InitTypes
<1>2. TypeOK /\ [Next]_vars => TypeOK'
  BY NextKeepsTypes
<1>3. Init => PacketsInv
  BY InitPackets
<1>4. TypeOK /\ PacketsInv /\ [Next]_vars => PacketsInv'
  BY PacketsInvInductive
<1> QED BY <1>1, <1>2, <1>3, <1>4, PTL DEF Spec

(* get_packet_2 hands every request of GDB to its handler whole and once,  *)
(* whatever is lost, cut off, repeated or left over on the wire: for every *)
(* number and contents of the requests and every number of timeouts, if    *)
(* GDB does not time out on a "monitor" command.                           *)
THEOREM OnlyWholeRequestsRun == PatientMonitor => (Spec => []OnlyWholeRequests)
<1>1. SUFFICES ASSUME PatientMonitor PROVE Spec => []OnlyWholeRequests
  OBVIOUS
<1>2. Spec => []PacketsInv
  BY <1>1, PacketsAreSafe
<1>3. PacketsInv => OnlyWholeRequests
  BY PacketsInvMeans
<1> QED BY <1>2, <1>3, PTL

(* rsp_server.cpp: no request gets two replies, from whatever handler, with*)
(* errors, lost acknowledgements and repeated packets, under the same      *)
(* hypothesis.                                                             *)
THEOREM OneReplyPerRequestIsSent == PatientMonitor => (Spec => []OneReplyPerRequest)
<1>1. SUFFICES ASSUME PatientMonitor PROVE Spec => []OneReplyPerRequest
  OBVIOUS
<1>2. Spec => []PacketsInv
  BY <1>1, PacketsAreSafe
<1>3. PacketsInv => OneReplyPerRequest
  BY PacketsInvMeans
<1> QED BY <1>2, <1>3, PTL
=============================================================================

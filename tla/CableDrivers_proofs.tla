-------------------------- MODULE CableDrivers_proofs -----------------------
(***************************************************************************)
(* Every driver keeps the promise of JtagCable, for every set of calls     *)
(* such as chain_commands makes, bytes, words and transfers of every       *)
(* length, and whatever fails. The argument: of the call in progress the   *)
(* chain has seen exactly the bits before bit, and the bits of TDO read so *)
(* far are in their places, unless an error is on record or a transfer has *)
(* failed unseen; and a burst starts with TCK low, whatever happened in    *)
(* the calls before: of usbblaster, which remembers TCK from one call to   *)
(* the next, this holds after every call that reports success.             *)
(***************************************************************************)
EXTENDS CableDrivers, SequenceTheorems, TLAPS

-----------------------------------------------------------------------------
(* Multiplying by a positive number keeps the order, and the sums.         *)
LEMMA MulOrder ==
  ASSUME NEW a \in Int, NEW b \in Int, NEW n \in Nat \ {0}
  PROVE  /\ a * n \in Int
         /\ a <= b => a * n <= b * n
         /\ a < b => a * n + n <= b * n
         /\ (a + b) * n = a * n + b * n
         /\ 0 * n = 0 /\ 1 * n = n
<1>1. a * n \in Int /\ (a + b) * n = a * n + b * n
  BY Z3
<1>2. ASSUME NEW c \in Int, NEW d \in Int, c <= d PROVE c * n <= d * n
  <2>1. (d - c) * n >= 0
    BY <1>2, Z3
  <2> QED BY <2>1, Z3
<1>3. a < b => (a + 1) * n <= b * n
  BY <1>2
<1>4. (a + 1) * n = a * n + n
  BY Z3
<1>5. 0 * n = 0 /\ 1 * n = n
  OBVIOUS
<1> QED BY <1>1, <1>2, <1>3, <1>4, <1>5

(* A number is its quotient times the divisor, and a rest below the        *)
(* divisor.                                                                *)
LEMMA Division ==
  ASSUME NEW x \in Nat, NEW n \in Nat \ {0}
  PROVE  /\ x \div n \in Nat /\ x % n \in 0 .. n - 1
         /\ x = (x \div n) * n + (x % n)
<1>1. x % n \in 0 .. n - 1
  OBVIOUS
<1>2. x = n * (x \div n) + (x % n)
  BY Z3
<1>3. x \div n \in Int
  BY Z3
<1>4. x \div n >= 0
  <2> SUFFICES ASSUME x \div n < 0 PROVE FALSE
    BY <1>3
  <2>1. (x \div n) * n + n <= 0 * n
    BY <1>3, MulOrder
  <2> QED BY <1>1, <1>2, <1>3, <2>1, Z3
<1> QED BY <1>1, <1>2, <1>3, <1>4, Z3

(* The quotient and the rest of q * n + r.                                 *)
LEMMA Quotient ==
  ASSUME NEW n \in Nat \ {0}, NEW q \in Nat, NEW r \in 0 .. n - 1
  PROVE  (q * n + r) \div n = q /\ (q * n + r) % n = r
<1> DEFINE x == q * n + r
           p == x \div n
<1>1. x \in Nat
  BY MulOrder
<1>2. p \in Nat /\ x % n \in 0 .. n - 1 /\ x = p * n + (x % n)
  BY <1>1, Division
<1>3. q * n \in Int /\ p * n \in Int
  BY <1>2, MulOrder
<1>4. ~(p < q)
  <2> SUFFICES ASSUME p < q PROVE FALSE
    OBVIOUS
  <2>1. p * n + n <= q * n
    BY <1>2, MulOrder
  <2> HIDE DEF p
  <2> QED BY <1>2, <1>3, <2>1
<1>5. ~(q < p)
  <2> SUFFICES ASSUME q < p PROVE FALSE
    OBVIOUS
  <2>1. q * n + n <= p * n
    BY <1>2, MulOrder
  <2> HIDE DEF p
  <2> QED BY <1>2, <1>3, <2>1
<1>6. p = q
  BY <1>2, <1>4, <1>5
<1> HIDE DEF p
<1>7. x % n = r
  BY <1>2, <1>3, <1>6
<1> QED BY <1>6, <1>7 DEF p

(* The lesser of two numbers, for ThisTransfer.                            *)
LEMMA MinOfTwo ==
  ASSUME NEW a \in Int, NEW b \in Int
  PROVE  Min({a, b}) = IF a <= b THEN a ELSE b
<1>1. \E x \in {a, b} : \A y \in {a, b} : x =< y
  OBVIOUS
<1>2. Min({a, b}) \in {a, b} /\ \A y \in {a, b} : Min({a, b}) =< y
  BY <1>1 DEF Min
<1> QED BY <1>2

(* The bytes that go out in byte-shift mode are whole, do not reach beyond *)
(* the call, leave its TMS to the leftovers, and are the whole call only   *)
(* when there are no leftovers.                                            *)
LEMMA BytesOfCall ==
  ASSUME NEW c \in AnyCall, c.packets # <<>>, ByteBits \in Nat \ {0}, ByteBits > 1,
         \A i \in 1 .. Len(c.packets) : c.packets[i].tms => i = Len(c.packets)
  PROVE  /\ Len(c.packets) \in Nat \ {0}
         /\ Bytes(c) \in Nat /\ Bytes(c) * ByteBits \in Nat
         /\ Bytes(c) * ByteBits <= Len(c.packets)
         /\ ~HasLeftovers(c) => Bytes(c) * ByteBits = Len(c.packets)
         /\ \A i \in 1 .. Bytes(c) * ByteBits : ~c.packets[i].tms
         /\ Len(c.packets) = 1 => Bytes(c) = 0
<1> DEFINE L == Len(c.packets)
           full == L \div ByteBits
<1>1. L \in Nat \ {0} /\ c.packets \in Seq(Wire) /\ c.packets \in [1 .. L -> Wire]
  BY EmptySeq, LenProperties DEF AnyCall
<1>2. full \in Nat /\ L % ByteBits \in 0 .. ByteBits - 1 /\ L = full * ByteBits + (L % ByteBits)
  BY <1>1, Division
<1>3. full * ByteBits \in Int
  BY <1>2, MulOrder
<1>4. L = 1 => full = 0
  <2> SUFFICES ASSUME L = 1, full # 0 PROVE FALSE
    OBVIOUS
  <2>1. 1 * ByteBits <= full * ByteBits
    BY <1>2, MulOrder
  <2> HIDE DEF full
  <2> QED BY <1>2, <1>3, <2>1
<1>5. Bytes(c) = IF L % ByteBits = 0 /\ c.packets[L].tms THEN full - 1 ELSE full
  BY DEF Bytes
<1> HIDE DEF full
<1>6. full = 0 => full * ByteBits = 0
  BY MulOrder
<1>7. full * ByteBits >= 0
  BY <1>2, MulOrder
<1>8. /\ (full - 1) * ByteBits + ByteBits <= full * ByteBits /\ (full - 1) * ByteBits \in Int
      /\ full # 0 => (full - 1) * ByteBits >= 0
  BY <1>2, MulOrder
<1> DEFINE t == full * ByteBits
           u == (full - 1) * ByteBits
           r == L % ByteBits
<1>9. /\ t \in Nat /\ r \in 0 .. ByteBits - 1 /\ L = t + r /\ (full = 0 => t = 0)
      /\ u + ByteBits <= t /\ u \in Int /\ (full # 0 => u >= 0)
  <2>1. t \in Int /\ t >= 0
    BY <1>3, <1>7
  <2>2. r \in 0 .. ByteBits - 1 /\ L = t + r /\ (full = 0 => t = 0)
    BY <1>2, <1>6
  <2>3. u + ByteBits <= t /\ u \in Int /\ (full # 0 => u >= 0)
    BY <1>8
  <2> HIDE DEF t, u, r
  <2> QED BY <2>1, <2>2, <2>3
<1>10. CASE r = 0 /\ c.packets[L].tms
  <2>1. Bytes(c) = full - 1 /\ Bytes(c) * ByteBits = u
    BY <1>5, <1>10
  <2> HIDE DEF t, u, r, L
  <2>2. full # 0 /\ L = t
    BY <1>1, <1>9, <1>10
  <2>3. u \in Nat /\ u < L
    BY <1>1, <1>9, <2>2
  <2>4. \A i \in 1 .. u : ~c.packets[i].tms
    BY <1>1, <2>3 DEF L
  <2>5. full - 1 \in Nat /\ (L = 1 => full - 1 = 0)
    BY <1>2, <1>4, <2>2
  <2> QED BY <1>1, <2>1, <2>3, <2>4, <2>5 DEF HasLeftovers, L
<1>11. CASE ~(r = 0 /\ c.packets[L].tms)
  <2>1. Bytes(c) = full /\ Bytes(c) * ByteBits = t
    BY <1>5, <1>11
  <2> HIDE DEF t, u, r, L
  <2>2. t <= L /\ (t = L => r = 0)
    BY <1>1, <1>9
  <2>3. \A i \in 1 .. t : ~c.packets[i].tms
    BY <1>1, <1>9, <1>11, <2>2 DEF L
  <2> QED BY <1>1, <1>2, <1>4, <1>9, <2>1, <2>2, <2>3 DEF HasLeftovers, L
<1> QED BY <1>10, <1>11

-----------------------------------------------------------------------------
(* A call such as chain_commands makes.                                    *)
ProperCall ==
    {c \in AnyCall :
        /\ c.packets # <<>>
        /\ \A i \in 1 .. Len(c.packets) : c.packets[i].tms => i = Len(c.packets)
        /\ c.read => Bytes(c) <= MaxRead}
(* The bits driver d may shift out for call c.                             *)
Versions(d, c) ==
    {c} \cup IF Table[d].by \notin {"libusb", "libftdi"} /\ Len(c.packets) > WordBits
               THEN {[c EXCEPT !.packets[Len(c.packets)].tdi = 0]} ELSE {}
(* What the chain sees at a rising edge, of a packet of the call: driver d *)
(* may have no TRST.                                                       *)
OnWires(d, p) ==
    [tdi |-> p.tdi, tms |-> p.tms, trst |-> p.trst /\ Table[d].trst]
(* The first n clocks of call c.                                           *)
Clocked(d, c, n) == [i \in 1 .. n |-> OnWires(d, c.packets[i])]
(* The buffer of call c when the first n bits of TDO are in.               *)
Sampled(c, n) == [x \in 1 .. Words(c) * WordBits |-> IF x <= n THEN {x} ELSE {}]
(* The bits the cable has not delivered yet when r bytes are in.           *)
Pending(c, r) == [i \in 1 .. (Bytes(c) - r) * ByteBits |-> r * ByteBits + i]
(* What a burst starts from: a byte goes out with TMS and TRST as they     *)
(* are.                                                                    *)
IsLow(p) == ~p.tck /\ ~p.tms /\ ~p.trst
(* usbblaster believes that TCK is low only when it is.                    *)
Trusted(d, high, p) == Table[d].by = "libusb" /\ ~high => IsLow(p)

(* The stages between calls.                                               *)
Between == {"init", "failed", "idle", "closed"}
(* The stages of a call.                                                   *)
During == {"lower", "burst", "answer", "drop", "raise", "done"}

(* The stage and the position in the call.                                 *)
Shape ==
    /\ driver \in DOMAIN Table
    /\ pins \in Pins /\ edges \in Seq(Wire)
    /\ clock_is_high \in BOOLEAN /\ err \in BOOLEAN /\ reply.err \in BOOLEAN
    /\ unseen \in BOOLEAN /\ stale \in BOOLEAN
    /\ stage \in Between \cup During
    /\ stage \in Between => call = NoCall
    /\ stage \in During =>
         call \in ProperCall /\ asked \in Calls /\ call \in Versions(driver, asked)
    /\ stage \in {"lower", "burst", "answer"} => ByteShift /\ Bytes(call) > 0
    /\ stage = "lower" => ~err
    /\ stage = "lower" \/ (stage = "burst" /\ call.read) => bit = 1
    /\ stage = "burst" => \E k \in 0 .. Bytes(call) - 1 : bit = k * ByteBits + 1
    /\ stage = "answer" => call.read /\ bit = 1 /\ received \in 0 .. Bytes(call)
    /\ stage \in {"drop", "raise"} => bit \in 1 .. Count

(* Something in this call has gone wrong.                                  *)
Amiss == err \/ unseen

(* While nothing has gone wrong: what the chain has seen, and what has     *)
(* been read. The levels at the connector, which outlast the call: for     *)
(* usbblaster, while no error is on record.                                *)
Correct ==
    /\ stage \in Between /\ ~reply.err => Trusted(driver, clock_is_high, pins)
    /\ stage \in During \ {"answer"} /\ ~Amiss =>
         /\ edges = Clocked(driver, call, bit - 1)
         /\ call.read => instream = Sampled(call, bit - 1)
    /\ stage = "lower" => Trusted(driver, clock_is_high, pins) /\ ~unseen
    /\ stage \in {"burst", "answer"} /\ ~err /\ (unseen => Table[driver].by = "libusb") =>
         IsLow(pins)
    /\ stage \in {"lower", "burst"} /\ ~Amiss /\ call.read => answer = <<>> /\ total = 0
    /\ stage = "answer" /\ ~Amiss =>
         /\ edges = Clocked(driver, call, Bytes(call) * ByteBits)
         /\ instream = Sampled(call, received * ByteBits)
         /\ answer = Pending(call, received)
         /\ total = received /\ received % WordBytes = 0
    /\ stage = "raise" /\ ~Amiss => ~pins.tck
    /\ stage = "done" /\ ~err => bit = Count + 1 /\ Trusted(driver, clock_is_high, pins)

(* What every step of a driver keeps.                                      *)
CableInv == Shape /\ Correct

(* A step in the middle of a call, as JtagCable sees it.                   *)
Onward == /\ UNCHANGED <<driver, asked, call, reply>> /\ Promise!IsPrefix(edges, edges')
          /\ unseen => unseen'

-----------------------------------------------------------------------------
(* Each driver's TRST line is there or not.                                *)
LEMMA TableTrst ==
  ASSUME NEW d \in DOMAIN Table
  PROVE  Table[d].trst \in BOOLEAN
<1>1. d \in {"xpc3", "bb2", "xess", "vpi", "rtl_sim", "usbblaster", "ft245"}
  BY DEF Table
<1>2. CASE d = "xpc3"
  BY <1>2 DEF Table, Xpc3
<1>3. CASE d = "bb2"
  BY <1>3 DEF Table, Bb2
<1>4. CASE d = "xess"
  BY <1>4 DEF Table, Xess
<1>5. CASE d = "vpi"
  BY <1>5 DEF Table, Vpi
<1>6. CASE d = "rtl_sim"
  BY <1>6 DEF Table, RtlSim
<1>7. CASE d = "usbblaster"
  BY <1>7 DEF Table, UsbBlaster
<1>8. CASE d = "ft245"
  BY <1>8 DEF Table, Ft245
<1> QED BY <1>1, <1>2, <1>3, <1>4, <1>5, <1>6, <1>7, <1>8

(* How the drivers reach their cables; byte-shift mode is for those        *)
(* without TRST.                                                           *)
LEMMA TableTypes ==
  ASSUME driver \in DOMAIN Table
  PROVE  /\ Table[driver].trst \in BOOLEAN
         /\ Table[driver].by \in {"port", "socket", "file", "libusb", "libftdi"}
         /\ ByteShift => ~Table[driver].trst
         /\ ByteShift <=> Table[driver].by \in {"libusb", "libftdi"}
<1>1. driver \in {"xpc3", "bb2", "xess", "vpi", "rtl_sim", "usbblaster", "ft245"}
  BY DEF Table
<1>2. CASE driver = "xpc3"
  BY <1>2 DEF Table, Xpc3, ByteShift, By
<1>3. CASE driver = "bb2"
  BY <1>3 DEF Table, Bb2, ByteShift, By
<1>4. CASE driver = "xess"
  BY <1>4 DEF Table, Xess, ByteShift, By
<1>5. CASE driver = "vpi"
  BY <1>5 DEF Table, Vpi, ByteShift, By
<1>6. CASE driver = "rtl_sim"
  BY <1>6 DEF Table, RtlSim, ByteShift, By
<1>7. CASE driver = "usbblaster"
  BY <1>7 DEF Table, UsbBlaster, ByteShift, By
<1>8. CASE driver = "ft245"
  BY <1>8 DEF Table, Ft245, ByteShift, By
<1> QED BY <1>1, <1>2, <1>3, <1>4, <1>5, <1>6, <1>7, <1>8

(* The chain sees more and more clocks.                                    *)
LEMMA PrefixFacts ==
  ASSUME edges \in Seq(Wire)
  PROVE  /\ Promise!IsPrefix(edges, edges)
         /\ \A w \in Wire : /\ Append(edges, w) \in Seq(Wire)
                            /\ Promise!IsPrefix(edges, Append(edges, w))
         /\ \A t \in Seq(Wire) : /\ edges \o t \in Seq(Wire)
                                 /\ Promise!IsPrefix(edges, edges \o t)
<1>1. ASSUME NEW t \in Seq(Wire)
      PROVE  edges \o t \in Seq(Wire) /\ Promise!IsPrefix(edges, edges \o t)
  <2>1. /\ edges \o t \in Seq(Wire) /\ Len(edges \o t) = Len(edges) + Len(t)
        /\ \A i \in 1 .. Len(edges) + Len(t) :
              (edges \o t)[i] = IF i <= Len(edges) THEN edges[i] ELSE t[i - Len(edges)]
    BY <1>1, ConcatProperties
  <2> DEFINE a == SubSeq(edges, 1, Len(edges))
             b == SubSeq(edges \o t, 1, Len(edges))
  <2>2. Len(edges) \in Nat /\ Len(t) \in Nat
    BY <1>1, LenProperties
  <2>3. \A i \in 1 .. Len(edges) : edges[i] \in Wire /\ (edges \o t)[i] = edges[i]
    BY <2>1, <2>2, ElementOfSeq
  <2>4. a \in Seq(Wire) /\ Len(a) = Len(edges) /\ \A i \in 1 .. Len(edges) : a[i] = edges[i]
    BY <2>2, <2>3, SubSeqProperties
  <2>5. b \in Seq(Wire) /\ Len(b) = Len(edges) /\ \A i \in 1 .. Len(edges) : b[i] = edges[i]
    BY <2>2, <2>3, SubSeqProperties
  <2> HIDE DEF a, b
  <2>6. a = b
    BY <2>4, <2>5, SeqEqual
  <2> QED BY <2>1, <2>2, <2>6 DEF a, b, Promise!IsPrefix
<1>2. ASSUME NEW w \in Wire
      PROVE  /\ Append(edges, w) \in Seq(Wire) /\ <<w>> \in Seq(Wire)
             /\ Append(edges, w) = edges \o <<w>>
  OBVIOUS
<1>3. Promise!IsPrefix(edges, edges)
  BY LenProperties DEF Promise!IsPrefix
<1> QED BY <1>1, <1>2, <1>3

(* A rising edge adds one clock, anything else adds none.                  *)
LEMMA ApplyFacts ==
  ASSUME Shape, NEW p \in Pins, Apply(p)
  PROVE  /\ pins' = p /\ edges' \in Seq(Wire) /\ Promise!IsPrefix(edges, edges')
         /\ edges' = IF p.tck /\ ~pins.tck THEN Append(edges, OnWires(driver, p)) ELSE edges
<1>1. OnWires(driver, p) = Wired(p) /\ OnWires(driver, p) \in Wire
  BY TableTypes DEF OnWires, Wired, Wire, Pins, Shape
<1> QED BY <1>1, PrefixFacts DEF Apply, Shape

(* Setting the pins: they are set, or usbblaster has an error on record, or *)
(* another driver has not looked.                                          *)
LEMMA OutFacts ==
  ASSUME Shape, NEW p \in Pins, Out(p)
  PROVE  /\ clock_is_high' \in BOOLEAN /\ err' \in BOOLEAN
         /\ unseen' \in BOOLEAN /\ stale' \in BOOLEAN /\ (unseen => unseen')
         /\ \/ /\ Apply(p) /\ UNCHANGED <<err, unseen>>
               /\ By("libusb") => clock_is_high' = p.tck
            \/ Lost /\ err' /\ By("libusb") /\ UNCHANGED unseen
            \/ Lost /\ unseen' /\ ~By("libusb") /\ UNCHANGED err
<1>1. /\ p.tck \in BOOLEAN /\ clock_is_high \in BOOLEAN /\ err \in BOOLEAN
      /\ unseen \in BOOLEAN /\ stale \in BOOLEAN
  BY DEF Shape, Pins
<1>2. CASE By("port")
  <2>1. PortOut(p) /\ ~By("libusb")
    BY <1>2 DEF Out, By
  <2>2. CASE Apply(p) /\ UNCHANGED <<unseen, stale, err, clock_is_high>>
    BY <1>1, <2>1, <2>2
  <2>3. CASE Lost /\ unseen' = TRUE /\ UNCHANGED <<stale, err, clock_is_high>>
    BY <1>1, <2>1, <2>3
  <2> QED BY <2>1, <2>2, <2>3 DEF PortOut, Unseen
<1>3. CASE By("socket")
  <2>1. SocketOut(p) /\ ~By("libusb")
    BY <1>3 DEF Out, By
  <2> QED BY <1>1, <2>1 DEF SocketOut, NothingUnseen
<1>4. CASE By("file")
  <2>1. FileOut(p) /\ ~By("libusb")
    BY <1>4 DEF Out, By
  <2> QED BY <1>1, <2>1 DEF FileOut, NothingUnseen
<1>5. CASE By("libusb")
  <2>1. BlasterOut(p)
    BY <1>5 DEF Out, By
  <2> QED BY <1>1, <1>5, <2>1 DEF BlasterOut, CannotOpen, NothingUnseen
<1>6. CASE By("libftdi")
  <2>1. Ft245Out(p) /\ ~By("libusb")
    BY <1>6 DEF Out, By
  <2>2. CASE Apply(p) /\ UNCHANGED <<unseen, stale, err, clock_is_high>>
    BY <1>1, <2>1, <2>2
  <2>3. CASE Lost /\ unseen' = TRUE /\ UNCHANGED <<stale, err, clock_is_high>>
    BY <1>1, <2>1, <2>3
  <2> QED BY <2>1, <2>2, <2>3 DEF Ft245Out, Unseen
<1> QED BY <1>2, <1>3, <1>4, <1>5, <1>6, TableTypes DEF By, Shape

(* Sampling TDO and setting the pins, likewise; usbblaster too may go on   *)
(* without an answer, but its clock is as it believes.                     *)
LEMMA InOutFacts ==
  ASSUME Shape, NEW p \in Pins, InOut(p)
  PROVE  /\ clock_is_high' \in BOOLEAN /\ err' \in BOOLEAN
         /\ unseen' \in BOOLEAN /\ stale' \in BOOLEAN /\ (unseen => unseen')
         /\ \/ /\ Apply(p) /\ Put(bit, {Tdo}) /\ UNCHANGED <<err, unseen>>
               /\ By("libusb") => clock_is_high' = p.tck
            \/ err' /\ (Apply(p) \/ Lost)
            \/ /\ unseen' /\ (Apply(p) \/ Lost) /\ UNCHANGED err
               /\ By("libusb") => clock_is_high' = p.tck
<1>1. /\ p.tck \in BOOLEAN /\ clock_is_high \in BOOLEAN /\ err \in BOOLEAN
      /\ unseen \in BOOLEAN /\ stale \in BOOLEAN
  BY DEF Shape, Pins
<1>2. CASE By("port")
  <2>1. PortInOut(p) /\ ~By("libusb")
    BY <1>2 DEF InOut, By
  <2>2. CASE Apply(p) /\ Put(bit, {Tdo}) /\ UNCHANGED <<unseen, stale, err, clock_is_high>>
    BY <1>1, <2>1, <2>2
  <2>3. CASE (Apply(p) \/ Lost) /\ unseen' = TRUE /\ UNCHANGED <<stale, err, clock_is_high>>
    BY <1>1, <2>1, <2>3
  <2> QED BY <2>1, <2>2, <2>3 DEF PortInOut, Unseen
<1>3. CASE By("socket")
  <2>1. SocketInOut(p) /\ ~By("libusb")
    BY <1>3 DEF InOut, By
  <2> QED BY <1>1, <2>1 DEF SocketInOut, SocketOut, NothingUnseen
<1>4. CASE By("file")
  <2>1. FileInOut(p) /\ ~By("libusb")
    BY <1>4 DEF InOut, By
  <2> QED BY <1>1, <2>1 DEF FileInOut, FileOut, NothingUnseen
<1>5. CASE By("libusb")
  <2>1. BlasterInOut(p)
    BY <1>5 DEF InOut, By
  <2>2. CASE CannotOpen
    BY <1>1, <2>2 DEF CannotOpen, NothingUnseen
  <2>3. CASE Lost /\ err' = TRUE /\ NothingUnseen /\ UNCHANGED clock_is_high
    BY <1>1, <2>3 DEF NothingUnseen
  <2>4. CASE /\ Apply(p) /\ Put(bit, {Tdo}) /\ clock_is_high' = p.tck
             /\ NothingUnseen /\ UNCHANGED err
    BY <1>1, <2>4 DEF NothingUnseen
  <2>5. CASE /\ Apply(p) /\ clock_is_high' = p.tck /\ stale' \in BOOLEAN
             /\ err' = TRUE /\ UNCHANGED unseen
    BY <1>1, <2>5
  <2>6. CASE /\ Apply(p) /\ clock_is_high' = p.tck /\ stale' \in BOOLEAN
             /\ unseen' = TRUE /\ UNCHANGED err
    BY <1>1, <2>6
  <2>7. MayComeLate => stale' \in BOOLEAN
    BY <1>1 DEF MayComeLate
  <2> QED BY <2>1, <2>2, <2>3, <2>4, <2>5, <2>6, <2>7 DEF BlasterInOut, Unseen
<1>6. CASE By("libftdi")
  <2>1. Ft245InOut(p) /\ ~By("libusb")
    BY <1>6 DEF InOut, By
  <2>2. CASE /\ Apply(p) /\ Put(bit, {Tdo}) /\ NothingUnseen
             /\ UNCHANGED <<err, clock_is_high>>
    BY <1>1, <2>1, <2>2 DEF NothingUnseen
  <2>3. CASE /\ Apply(p) \/ Lost
             /\ unseen' = TRUE /\ stale' \in BOOLEAN /\ UNCHANGED <<err, clock_is_high>>
    BY <1>1, <2>1, <2>3
  <2>4. MayComeLate => stale' \in BOOLEAN
    BY <1>1 DEF MayComeLate
  <2> QED BY <2>1, <2>2, <2>3, <2>4 DEF Ft245InOut, Unseen
<1> QED BY <1>2, <1>3, <1>4, <1>5, <1>6, TableTypes DEF By, Shape

-----------------------------------------------------------------------------
(* What the steps need of a call.                                          *)
LEMMA CallFacts ==
  ASSUME CallsOfChainCommands, NEW c \in ProperCall
  PROVE  /\ c \in AnyCall /\ c # NoCall /\ c.read \in BOOLEAN
         /\ Len(c.packets) \in Nat \ {0}
         /\ \A i \in 1 .. Len(c.packets) : c.packets[i] \in Wire
         /\ Bytes(c) \in Nat /\ Bytes(c) * ByteBits \in Nat
         /\ Bytes(c) * ByteBits <= Len(c.packets)
         /\ ~HasLeftovers(c) => Bytes(c) * ByteBits = Len(c.packets)
         /\ HasLeftovers(c) => Bytes(c) * ByteBits < Len(c.packets)
         /\ \A i \in 1 .. Bytes(c) * ByteBits : ~c.packets[i].tms
         /\ Len(c.packets) = 1 => Bytes(c) = 0
         /\ c.read => Bytes(c) <= MaxRead
         /\ Words(c) * WordBits \in Nat /\ Len(c.packets) <= Words(c) * WordBits
<1>1. c \in AnyCall /\ c # NoCall /\ c.packets # <<>> /\ (c.read => Bytes(c) <= MaxRead)
      /\ \A i \in 1 .. Len(c.packets) : c.packets[i].tms => i = Len(c.packets)
  BY NoCallAssumption DEF ProperCall
<1>2. ByteBits \in Nat \ {0} /\ WordBytes \in Nat \ {0} /\ ByteBits > 1
  BY CableAssumption
<1>3. \A i \in 1 .. Len(c.packets) : c.packets[i] \in Wire
  BY <1>1, ElementOfSeq DEF AnyCall
<1>4. /\ Len(c.packets) \in Nat \ {0}
      /\ Bytes(c) \in Nat /\ Bytes(c) * ByteBits \in Nat
      /\ Bytes(c) * ByteBits <= Len(c.packets)
      /\ ~HasLeftovers(c) => Bytes(c) * ByteBits = Len(c.packets)
      /\ \A i \in 1 .. Bytes(c) * ByteBits : ~c.packets[i].tms
      /\ Len(c.packets) = 1 => Bytes(c) = 0
  <2>1. c \in AnyCall /\ c.packets # <<>>
    BY <1>1
  <2>2. \A i \in 1 .. Len(c.packets) : c.packets[i].tms => i = Len(c.packets)
    BY <1>1
  <2> QED BY ONLY <1>2, <2>1, <2>2, BytesOfCall
<1>5. WordBits \in Nat \ {0}
  <2>1. 1 * WordBytes <= ByteBits * WordBytes /\ ByteBits * WordBytes \in Int
    BY <1>2, MulOrder
  <2> QED BY <1>2, <2>1, MulOrder DEF WordBits
<1>6. Words(c) * WordBits \in Nat /\ Len(c.packets) <= Words(c) * WordBits
  <2> DEFINE x == Len(c.packets) + WordBits - 1
  <2>1. x \in Nat /\ Words(c) = x \div WordBits
    BY <1>4, <1>5 DEF Words
  <2>6. x = Len(c.packets) + WordBits - 1
    OBVIOUS
  <2> HIDE DEF x
  <2>2. /\ Words(c) \in Nat /\ x % WordBits \in 0 .. WordBits - 1
        /\ x = Words(c) * WordBits + (x % WordBits)
    BY <1>5, <2>1, Division
  <2>3. Words(c) * WordBits \in Int
    BY <1>5, <2>2, MulOrder
  <2> DEFINE y == Words(c) * WordBits
  <2>4. y \in Int /\ x = y + (x % WordBits)
    BY <2>2, <2>3
  <2> HIDE DEF y
  <2>5. y >= Len(c.packets) /\ y \in Nat
    <3> DEFINE l == Len(c.packets)
               r == x % WordBits
    <3>1. /\ x = l + WordBits - 1 /\ x = y + r /\ r \in 0 .. WordBits - 1
          /\ l \in Nat \ {0} /\ WordBits \in Nat \ {0} /\ y \in Int
      BY <1>4, <1>5, <2>2, <2>4, <2>6
    <3> HIDE DEF l, r
    <3>2. y >= l /\ y \in Nat
      BY <3>1
    <3> QED BY <3>2 DEF l
  <2> QED BY <2>5 DEF y
<1>7. HasLeftovers(c) => Bytes(c) * ByteBits < Len(c.packets)
  <2> DEFINE t == Bytes(c) * ByteBits
  <2> HIDE DEF t
  <2>1. HasLeftovers(c) <=> Len(c.packets) > t
    BY DEF HasLeftovers, t
  <2>2. t \in Nat
    BY <1>4 DEF t
  <2>3. HasLeftovers(c) => t < Len(c.packets)
    BY <1>4, <2>1, <2>2
  <2> QED BY <2>3 DEF t
<1> QED BY <1>1, <1>3, <1>4, <1>6, <1>7 DEF AnyCall

(* One more clock, or a burst of them, after the first n.                  *)
LEMMA ClockedFacts ==
  ASSUME CallsOfChainCommands, NEW c \in ProperCall, NEW d \in DOMAIN Table,
         NEW n \in 0 .. Len(c.packets)
  PROVE  /\ \A i \in 1 .. Len(c.packets) : OnWires(d, c.packets[i]) \in Wire
         /\ Clocked(d, c, n) \in Seq(Wire) /\ Len(Clocked(d, c, n)) = n
         /\ n < Len(c.packets) =>
              Append(Clocked(d, c, n), OnWires(d, c.packets[n + 1])) = Clocked(d, c, n + 1)
         /\ \A m \in 0 .. Len(c.packets) - n :
              Clocked(d, c, n) \o [i \in 1 .. m |-> OnWires(d, c.packets[n + i])]
                = Clocked(d, c, n + m)
         /\ Clocked(d, c, 0) = <<>>
<1> DEFINE L == Len(c.packets)
           w(i) == OnWires(d, c.packets[i])
<1>1. L \in Nat /\ \A i \in 1 .. L : c.packets[i] \in Wire
  BY CallFacts
<1>2. \A i \in 1 .. L : w(i) \in Wire
  BY <1>1, TableTrst DEF OnWires, Wire
<1>3. \A k \in 0 .. L : Clocked(d, c, k) = [i \in 1 .. k |-> w(i)]
  BY DEF Clocked
<1> HIDE DEF w, L
<1>4. ASSUME NEW k \in 0 .. L
      PROVE  /\ Clocked(d, c, k) \in Seq(Wire) /\ Len(Clocked(d, c, k)) = k
             /\ \A i \in 1 .. k : Clocked(d, c, k)[i] = w(i)
  BY <1>1, <1>2, <1>3
<1>5. ASSUME NEW m \in 0 .. L - n
      PROVE  Clocked(d, c, n) \o [i \in 1 .. m |-> w(n + i)] = Clocked(d, c, n + m)
  <2> DEFINE t == [i \in 1 .. m |-> w(n + i)]
  <2>1. m \in Nat /\ n \in Nat /\ n + m \in 0 .. L /\ \A i \in 1 .. m : n + i \in 1 .. L
    BY <1>1 DEF L
  <2>2. t \in Seq(Wire) /\ Len(t) = m /\ \A i \in 1 .. m : t[i] = w(n + i)
    BY <1>2, <2>1
  <2> HIDE DEF t
  <2> DEFINE s == Clocked(d, c, n)
             u == s \o t
  <2>3. s \in Seq(Wire) /\ Len(s) = n /\ \A i \in 1 .. n : s[i] = w(i)
    BY <1>4 DEF L
  <2> HIDE DEF s
  <2>4. /\ u \in Seq(Wire) /\ Len(u) = n + m
        /\ \A i \in 1 .. n + m : u[i] = IF i <= n THEN s[i] ELSE t[i - n]
    BY <2>2, <2>3, ConcatProperties
  <2>5. \A i \in 1 .. n + m : u[i] = w(i)
    <3> TAKE i \in 1 .. n + m
    <3>1. CASE i <= n
      BY <2>1, <2>3, <2>4, <3>1
    <3>2. CASE ~(i <= n)
      <4>1. i - n \in 1 .. m /\ n + (i - n) = i
        BY <2>1, <3>2
      <4> QED BY <2>2, <2>4, <3>2, <4>1
    <3> QED BY <3>1, <3>2
  <2> HIDE DEF u
  <2>6. u = Clocked(d, c, n + m)
    <3>1. /\ Clocked(d, c, n + m) \in Seq(Wire) /\ Len(Clocked(d, c, n + m)) = n + m
          /\ \A i \in 1 .. n + m : Clocked(d, c, n + m)[i] = w(i)
      BY <1>4, <2>1
    <3> QED BY <2>4, <2>5, <3>1, SeqEqual
  <2> QED BY <2>6 DEF s, t, u
<1>6. ASSUME n < L
      PROVE  Append(Clocked(d, c, n), w(n + 1)) = Clocked(d, c, n + 1)
  <2> DEFINE t == [i \in 1 .. 1 |-> w(n + i)]
  <2>1. t = <<w(n + 1)>> /\ 1 \in 0 .. L - n
    BY <1>1, <1>6 DEF L
  <2>2. Clocked(d, c, n) \o t = Clocked(d, c, n + 1)
    BY <1>5, <2>1
  <2> HIDE DEF t
  <2>3. n + 1 \in 1 .. L /\ w(n + 1) \in Wire /\ Clocked(d, c, n) \in Seq(Wire)
    BY <1>1, <1>2, <1>4, <1>6 DEF L
  <2>4. Append(Clocked(d, c, n), w(n + 1)) = Clocked(d, c, n) \o <<w(n + 1)>>
    BY <2>3
  <2> QED BY <2>1, <2>2, <2>4
<1>7. Clocked(d, c, 0) = <<>>
  BY <1>1, <1>3
<1> QED BY <1>2, <1>4, <1>5, <1>6, <1>7 DEF w, L
-----------------------------------------------------------------------------
(* The next bit goes into its place.                                       *)
LEMMA SampledFacts ==
  ASSUME CallsOfChainCommands, NEW c \in ProperCall, NEW n \in 1 .. Len(c.packets)
  PROVE  [Sampled(c, n - 1) EXCEPT ![n] = @ \cup {n}] = Sampled(c, n)
<1> DEFINE W == Words(c) * WordBits
<1>1. W \in Nat /\ n \in 1 .. W /\ n \in Nat \ {0}
  BY CallFacts
<1> HIDE DEF W
<1>2. /\ Sampled(c, n - 1) = [x \in 1 .. W |-> IF x <= n - 1 THEN {x} ELSE {}]
      /\ Sampled(c, n) = [x \in 1 .. W |-> IF x <= n THEN {x} ELSE {}]
  BY DEF Sampled, W
<1> DEFINE f == [x \in 1 .. W |-> IF x <= n - 1 THEN {x} ELSE {}]
           g == [x \in 1 .. W |-> IF x <= n THEN {x} ELSE {}]
           h == [f EXCEPT ![n] = @ \cup {n}]
<1>3. h = [x \in 1 .. W |-> IF x = n THEN f[n] \cup {n} ELSE f[x]]
  BY <1>1
<1>4. f[n] = {}
  BY <1>1
<1>5. ASSUME NEW x \in 1 .. W PROVE (IF x = n THEN f[n] \cup {n} ELSE f[x]) = g[x]
  <2>1. x \in Nat /\ (x <= n <=> x <= n - 1 \/ x = n)
    BY <1>1
  <2>2. CASE x = n
    BY <1>4, <2>1, <2>2
  <2>3. CASE x # n
    BY <2>1, <2>3
  <2> QED BY <2>2, <2>3
<1>6. h = g
  BY <1>3, <1>5
<1> QED BY <1>2, <1>6

(* A byte of an answer takes its lane from its position in the answer:     *)
(* that is its position in the stream when the answer begins at a word.    *)
LEMMA LaneFacts ==
  ASSUME total \in Nat, total % WordBytes = 0, NEW i \in Nat
  PROVE  Lane(i) = total + i
<1>1. WordBytes \in Nat \ {0}
  BY CableAssumption
<1> DEFINE a == total \div WordBytes
           b == i \div WordBytes
           r == i % WordBytes
<1>2. a \in Nat /\ total = a * WordBytes + (total % WordBytes)
  BY <1>1, Division
<1>3. b \in Nat /\ r \in 0 .. WordBytes - 1 /\ i = b * WordBytes + r
  BY <1>1, Division
<1>4. /\ a * WordBytes \in Int /\ b * WordBytes \in Int
      /\ (a + b) * WordBytes = a * WordBytes + b * WordBytes
  BY <1>1, <1>2, <1>3, MulOrder
<1> HIDE DEF a, b, r
<1>5. total + i = (a + b) * WordBytes + r
  <2> DEFINE u == a * WordBytes
             v == b * WordBytes
             w == (a + b) * WordBytes
  <2>1. u \in Int /\ v \in Int /\ w = u + v /\ total = u + 0 /\ i = v + r /\ r \in Int
    BY <1>2, <1>3, <1>4
  <2> HIDE DEF u, v, w
  <2>2. total + i = w + r
    BY <2>1
  <2> QED BY <2>2 DEF w
<1>6. (total + i) \div WordBytes = a + b
  <2>1. a + b \in Nat /\ r \in 0 .. WordBytes - 1
    BY <1>2, <1>3
  <2>2. ((a + b) * WordBytes + r) \div WordBytes = a + b
    BY <1>1, <2>1, Quotient
  <2> QED BY <1>5, <2>2
<1> QED BY <1>5, <1>6 DEF Lane, r

(* The bits to come, in order.                                             *)
LEMMA PendingFacts ==
  ASSUME CallsOfChainCommands, NEW c \in ProperCall, NEW r \in 0 .. Bytes(c)
  PROVE  /\ Pending(c, r) \in Seq(Nat) /\ Len(Pending(c, r)) = (Bytes(c) - r) * ByteBits
         /\ \A i \in 1 .. Len(Pending(c, r)) : Pending(c, r)[i] = r * ByteBits + i
         /\ (Bytes(c) - r) * ByteBits \in Nat /\ r * ByteBits \in Nat
<1>1. ByteBits \in Nat \ {0} /\ Bytes(c) \in Nat /\ r \in Nat /\ Bytes(c) - r \in Nat
  BY CableAssumption, CallFacts
<1> DEFINE t == (Bytes(c) - r) * ByteBits
           s == r * ByteBits
<1>2. t \in Nat /\ s \in Nat
  <2>1. /\ 0 * ByteBits = 0 /\ s \in Int /\ t \in Int
        /\ 0 * ByteBits <= t /\ 0 * ByteBits <= s
    BY <1>1, MulOrder
  <2> HIDE DEF s, t
  <2> QED BY <2>1
<1>3. Pending(c, r) = [i \in 1 .. t |-> s + i]
  BY DEF Pending
<1> HIDE DEF s, t
<1>4. /\ Pending(c, r) \in Seq(Nat) /\ Len(Pending(c, r)) = t
      /\ \A i \in 1 .. t : Pending(c, r)[i] = s + i
  BY <1>2, <1>3
<1> QED BY <1>2, <1>4 DEF s, t

(* The bits to come once n more bytes are in.                              *)
LEMMA PendingStep ==
  ASSUME CallsOfChainCommands, NEW c \in ProperCall, NEW r \in 0 .. Bytes(c),
         NEW n \in 0 .. Bytes(c) - r
  PROVE  SubSeq(Pending(c, r), n * ByteBits + 1, Len(Pending(c, r))) = Pending(c, r + n)
<1>1. ByteBits \in Nat \ {0} /\ Bytes(c) \in Nat /\ r \in Nat /\ n \in Nat
      /\ r + n \in 0 .. Bytes(c)
  BY CableAssumption, CallFacts
<1> DEFINE L == (Bytes(c) - r) * ByteBits
           M == (Bytes(c) - (r + n)) * ByteBits
           s == r * ByteBits
           v == n * ByteBits
           z == (r + n) * ByteBits
           P == Pending(c, r)
           Q == Pending(c, r + n)
           S == SubSeq(P, v + 1, L)
<1>2. P \in Seq(Nat) /\ Len(P) = L /\ (\A i \in 1 .. L : P[i] = s + i) /\ L \in Nat /\ s \in Nat
  BY PendingFacts
<1>3. Q \in Seq(Nat) /\ Len(Q) = M /\ (\A i \in 1 .. M : Q[i] = z + i) /\ M \in Nat
  BY <1>1, PendingFacts
<1>4. L = v + M /\ v \in Nat /\ z = s + v
  <2>1. z = s + v /\ v \in Int /\ 0 * ByteBits <= v /\ 0 * ByteBits = 0
    BY <1>1, MulOrder
  <2>2. (n + (Bytes(c) - (r + n))) * ByteBits = v + M
    BY <1>1, MulOrder
  <2>3. n + (Bytes(c) - (r + n)) = Bytes(c) - r
    BY <1>1
  <2>4. L = v + M
    BY <2>2, <2>3
  <2> HIDE DEF v, z, L, M, s
  <2> QED BY <2>1, <2>4
<1> HIDE DEF L, M, s, v, z, P, Q
<1>5. S \in Seq(Nat) /\ Len(S) = M /\ \A i \in 1 .. M : S[i] = P[v + i]
  <2>1. v + 1 \in Int /\ L \in Int /\ \A i \in v + 1 .. L : P[i] \in Nat
    BY <1>2, <1>4
  <2>2. /\ S \in Seq(Nat)
        /\ Len(S) = IF v + 1 <= L THEN L - (v + 1) + 1 ELSE 0
        /\ \A i \in 1 .. L - (v + 1) + 1 : S[i] = P[v + 1 + i - 1]
    BY <2>1, <1>2, <1>4, SubSeqProperties
  <2> HIDE DEF S
  <2>3. Len(S) = M /\ L - (v + 1) + 1 = M
    BY <1>3, <1>4, <2>2
  <2>4. \A i \in 1 .. M : v + 1 + i - 1 = v + i
    BY <1>3, <1>4
  <2> QED BY <2>2, <2>3, <2>4
<1> HIDE DEF S
<1>6. \A i \in 1 .. M : S[i] = Q[i]
  <2> TAKE i \in 1 .. M
  <2>1. v + i \in 1 .. L /\ s + (v + i) = z + i
    BY <1>2, <1>3, <1>4
  <2> QED BY <1>2, <1>3, <1>5, <2>1
<1>7. S = Q
  BY <1>3, <1>5, <1>6, SeqEqual
<1> QED BY <1>2, <1>7 DEF S, P, Q, v

(* n more bytes end up in their places.                                    *)
LEMMA PlaceFacts ==
  ASSUME CallsOfChainCommands, NEW c \in ProperCall, NEW r \in 0 .. Bytes(c),
         NEW n \in 0 .. Bytes(c) - r,
         instream = Sampled(c, r * ByteBits), answer = Pending(c, r),
         total = r, r % WordBytes = 0, Place(n)
  PROVE  instream' = Sampled(c, (r + n) * ByteBits)
<1>1. ByteBits \in Nat \ {0} /\ Bytes(c) \in Nat /\ r \in Nat /\ n \in Nat
  BY CableAssumption, CallFacts
<1> DEFINE W == Words(c) * WordBits
           s == r * ByteBits
           z == (r + n) * ByteBits
           Bits(x) == {q \in (0 .. n - 1) \X (1 .. ByteBits) : Lane(q[1]) * ByteBits + q[2] = x}
           Got(x) == {answer[q[1] * ByteBits + q[2]] : q \in Bits(x)}
<1>2. instream = [x \in 1 .. W |-> IF x <= s THEN {x} ELSE {}]
  BY DEF Sampled
<1>3. instream' = [x \in 1 .. W |-> instream[x] \cup Got(x)]
  BY <1>2 DEF Place
<1>4. s \in Nat /\ z \in Int /\ s <= z
  <2>1. s \in Int /\ z \in Int /\ 0 * ByteBits <= s /\ 0 * ByteBits = 0 /\ s <= z
    BY <1>1, MulOrder
  <2> HIDE DEF s, z
  <2> QED BY <2>1
<1>5. ASSUME NEW q1 \in 0 .. n - 1, NEW q2 \in 1 .. ByteBits
      PROVE  /\ Lane(q1) * ByteBits + q2 = s + q1 * ByteBits + q2
             /\ q1 * ByteBits \in Nat
             /\ s + q1 * ByteBits + q2 <= z
             /\ answer[q1 * ByteBits + q2] = s + q1 * ByteBits + q2
  <2> DEFINE v == q1 * ByteBits
             L == (Bytes(c) - r) * ByteBits
             y == (r + q1) * ByteBits
  <2>1. Lane(q1) = r + q1
    BY <1>1, LaneFacts
  <2>2. y = s + v /\ v \in Int /\ 0 * ByteBits <= v /\ 0 * ByteBits = 0
    BY <1>1, MulOrder
  <2>3. y + ByteBits <= z /\ v + ByteBits <= L /\ y \in Int /\ L \in Int
    BY <1>1, MulOrder
  <2>4. Len(answer) = L /\ \A i \in 1 .. L : answer[i] = s + i
    BY PendingFacts
  <2>5. Lane(q1) * ByteBits = y
    BY <2>1
  <2> HIDE DEF v, L, y, s, z
  <2>6. v \in Nat /\ s + v + q2 <= z /\ v + q2 \in 1 .. L /\ s + (v + q2) = s + v + q2
    BY <1>1, <1>4, <2>2, <2>3
  <2>7. Lane(q1) * ByteBits + q2 = s + v + q2
    BY <2>2, <2>5
  <2> QED BY <2>4, <2>6, <2>7 DEF v
<1>6. ASSUME NEW x \in 1 .. W, s < x, x <= z
      PROVE  \E q1 \in 0 .. n - 1, q2 \in 1 .. ByteBits : s + q1 * ByteBits + q2 = x
  <2> DEFINE m == x - s - 1
             q == m \div ByteBits
             v == q * ByteBits
             t == n * ByteBits
  <2>1. W \in Nat /\ x \in Nat /\ m \in Nat
    BY <1>4, <1>6, CallFacts
  <2> HIDE DEF m
  <2>2. q \in Nat /\ m % ByteBits \in 0 .. ByteBits - 1 /\ m = v + (m % ByteBits)
    BY <1>1, <2>1, Division
  <2>3. v \in Int /\ t \in Int /\ z = s + t /\ (n <= q => t <= v)
    BY <1>1, <2>2, MulOrder
  <2> HIDE DEF q, v, t, s, z
  <2>4. m < t
    BY <1>4, <1>6, <2>1, <2>3 DEF m
  <2>5. q < n
    BY <1>1, <2>1, <2>2, <2>3, <2>4
  <2>6. q \in 0 .. n - 1 /\ (m % ByteBits) + 1 \in 1 .. ByteBits
    BY <1>1, <2>2, <2>5
  <2>7. s + v + ((m % ByteBits) + 1) = x
    BY <1>1, <1>4, <2>1, <2>2, <2>3 DEF m
  <2> QED BY <2>6, <2>7 DEF v
<1>7. ASSUME NEW x \in 1 .. W
      PROVE  Got(x) = IF s < x /\ x <= z THEN {x} ELSE {}
  <2>1. ASSUME NEW g \in Got(x) PROVE g = x /\ s < x /\ x <= z
    <3>1. PICK q \in Bits(x) : g = answer[q[1] * ByteBits + q[2]]
      BY <2>1
    <3>2. q[1] \in 0 .. n - 1 /\ q[2] \in 1 .. ByteBits /\ Lane(q[1]) * ByteBits + q[2] = x
      BY <3>1
    <3> DEFINE v == q[1] * ByteBits
    <3>3. x = s + v + q[2] /\ v \in Nat /\ x <= z /\ g = x
      BY <1>5, <3>1, <3>2
    <3> HIDE DEF v, s, z
    <3> QED BY <1>1, <1>4, <3>2, <3>3
  <2>2. ASSUME s < x, x <= z PROVE x \in Got(x)
    <3>1. PICK q1 \in 0 .. n - 1, q2 \in 1 .. ByteBits : s + q1 * ByteBits + q2 = x
      BY <1>6, <2>2
    <3>2. Lane(q1) * ByteBits + q2 = x /\ answer[q1 * ByteBits + q2] = x
      BY <1>5, <3>1
    <3>3. <<q1, q2>> \in Bits(x)
      BY <3>2
    <3> HIDE DEF Bits
    <3> QED BY <3>2, <3>3
  <2> HIDE DEF Got
  <2> QED BY <2>1, <2>2
<1> HIDE DEF Got
<1>8. \A x \in 1 .. W : instream[x] \cup Got(x) = IF x <= z THEN {x} ELSE {}
  <2> TAKE x \in 1 .. W
  <2>1. x \in Int /\ instream[x] = IF x <= s THEN {x} ELSE {}
    <3>1. W \in Nat
      BY CallFacts
    <3> HIDE DEF W, s
    <3>2. x \in Int
      BY <3>1
    <3>3. instream[x] = IF x <= s THEN {x} ELSE {}
      BY <1>2, Zenon
    <3> QED BY <3>2, <3>3
  <2> HIDE DEF s, z, W
  <2>2. x <= s => x <= z /\ ~(s < x)
    BY <1>4, <2>1
  <2>3. ~(x <= s) => s < x
    BY <1>4, <2>1
  <2> QED BY <1>7, <2>1, <2>2, <2>3
<1>9. instream' = [x \in 1 .. W |-> IF x <= z THEN {x} ELSE {}]
  BY <1>3, <1>8
<1> QED BY <1>9 DEF Sampled
-----------------------------------------------------------------------------
(* The call ends with an error.                                            *)
Reports == call' = NoCall /\ reply'.err /\ UNCHANGED <<driver, edges, unseen>>

(* What is shifted out is a call such as chain_commands makes, and the one *)
(* asked for but for one bit of TDI.                                       *)
LEMMA VersionsFacts ==
  ASSUME CallsOfChainCommands, driver \in DOMAIN Table, NEW c \in Calls, NEW v \in Shifted(c)
  PROVE  /\ v \in Versions(driver, c) /\ v \in ProperCall /\ c \in ProperCall
         /\ v.read = c.read /\ Len(v.packets) = Len(c.packets) /\ Bytes(v) = Bytes(c)
<1>1. c \in ProperCall
  BY DEF CallsOfChainCommands, ProperCall
<1>2. Shifted(c) = Versions(driver, c)
  BY TableTypes DEF Shifted, Versions
<1>3. CASE v = c
  BY <1>1, <1>2, <1>3
<1>4. CASE v = [c EXCEPT !.packets[Len(c.packets)].tdi = 0]
  <2> DEFINE L == Len(c.packets)
  <2>1. /\ c \in AnyCall /\ c.packets \in Seq(Wire) /\ L \in Nat \ {0}
        /\ \A i \in 1 .. L : c.packets[i] \in Wire
    BY <1>1, CallFacts DEF AnyCall
  <2> DEFINE w == [c.packets EXCEPT ![L].tdi = 0]
  <2>2. w \in Seq(Wire) /\ Len(w) = L
    <3>1. [c.packets[L] EXCEPT !.tdi = 0] \in Wire
      BY <2>1 DEF Wire
    <3>2. c.packets \in [1 .. L -> Wire]
      BY <2>1, LenProperties
    <3>3. w \in [1 .. L -> Wire]
      BY <3>1, <3>2
    <3> HIDE DEF w
    <3>4. DOMAIN w = 1 .. L /\ w \in Seq(Wire)
      BY <2>1, <3>3
    <3> QED BY <2>1, <3>4, LenProperties
  <2>3. \A i \in 1 .. L : w[i].tms = c.packets[i].tms
    <3>1. c.packets \in [1 .. L -> Wire]
      BY <2>1, LenProperties
    <3> HIDE DEF L
    <3> QED BY <2>1, <3>1 DEF Wire
  <2>4. v = [c EXCEPT !.packets = w]
    BY <1>4
  <2>8. v.packets = w /\ v.read = c.read /\ v \in AnyCall
    <3> HIDE DEF w
    <3> QED BY <2>1, <2>2, <2>4 DEF AnyCall
  <2> HIDE DEF w
  <2>5. Len(v.packets) = L /\ v.packets[L].tms = c.packets[L].tms
    BY <2>1, <2>2, <2>3, <2>8
  <2>6. Bytes(v) = Bytes(c)
    BY <2>5 DEF Bytes
  <2>7. v.packets # <<>> /\ \A i \in 1 .. L : v.packets[i].tms => i = L
    <3>1. \A i \in 1 .. L : c.packets[i].tms => i = L
      BY <1>1 DEF ProperCall
    <3>2. v.packets # <<>>
      BY <2>1, <2>2, <2>8, EmptySeq
    <3> QED BY <2>3, <2>8, <3>1, <3>2
  <2>9. v \in ProperCall
    BY <1>1, <2>5, <2>6, <2>7, <2>8 DEF ProperCall
  <2> QED BY <1>1, <1>2, <2>5, <2>6, <2>8, <2>9
<1> QED BY <1>3, <1>4 DEF Shifted

(* During a call there is a call.                                          *)
LEMMA CallInProgress ==
  ASSUME CallsOfChainCommands, Shape, stage \in During
  PROVE  /\ call \in ProperCall /\ call # NoCall /\ asked \in Calls /\ driver \in DOMAIN Table
         /\ Count = Len(call.packets) /\ Count \in Nat \ {0}
         /\ \A i \in 1 .. Count : call.packets[i] \in Wire
<1>1. call \in ProperCall /\ asked \in Calls /\ driver \in DOMAIN Table
  BY DEF Shape, Between, During
<1> QED BY <1>1, CallFacts DEF Count

(* TCK falls with the next bit: the chain sees nothing.                    *)
LEMMA DropClockStep ==
  ASSUME CallsOfChainCommands, CableInv, DropClock
  PROVE  Shape' /\ Correct' /\ Onward
<1> DEFINE p == Levels(call.packets[bit], FALSE)
<1>1. /\ Shape /\ Correct /\ stage = "drop" /\ stage' = "raise" /\ Out(p)
      /\ UNCHANGED <<driver, asked, call, reply, bit, instream>>
  BY DEF DropClock, CableInv
<1>2. /\ call \in ProperCall /\ driver \in DOMAIN Table /\ call.packets[bit] \in Wire
      /\ bit \in 1 .. Count
  BY <1>1, CallInProgress DEF Shape, During
<1>3. p \in Pins /\ ~p.tck
  BY <1>2, TableTrst DEF Levels, Pins, Wire
<1> HIDE DEF p
<1>4. /\ clock_is_high' \in BOOLEAN /\ err' \in BOOLEAN
      /\ unseen' \in BOOLEAN /\ stale' \in BOOLEAN /\ (unseen => unseen')
      /\ (Apply(p) /\ UNCHANGED <<err, unseen>>) \/ (Lost /\ (err' \/ unseen'))
  BY <1>1, <1>3, OutFacts
<1>5. /\ edges' = edges /\ pins' \in Pins
      /\ ~Amiss' => ~Amiss /\ ~pins'.tck
  BY <1>1, <1>3, <1>4, ApplyFacts DEF Lost, Shape, Amiss
<1>6. Shape'
  BY <1>1, <1>2, <1>4, <1>5 DEF Shape, During, Between, Count
<1>7. Correct'
  BY <1>1, <1>5 DEF Correct, Amiss, During, Between
<1>8. Onward
  BY <1>1, <1>4, <1>5, PrefixFacts DEF Onward, Shape
<1> QED BY <1>6, <1>7, <1>8

(* TCK rises: the chain sees the next bit, and TDO was sampled for it.     *)
LEMMA RaiseClockStep ==
  ASSUME CallsOfChainCommands, CableInv, RaiseClock
  PROVE  Shape' /\ Correct' /\ Onward
<1> DEFINE p == Levels(call.packets[bit], TRUE)
<1>1. /\ Shape /\ Correct /\ stage = "raise" /\ bit' = bit + 1
      /\ stage' = (IF bit = Count THEN "done" ELSE "drop")
      /\ UNCHANGED <<driver, asked, call, reply>>
  BY DEF RaiseClock, CableInv
<1>2. /\ call \in ProperCall /\ driver \in DOMAIN Table /\ call.packets[bit] \in Wire
      /\ bit \in 1 .. Count /\ Count = Len(call.packets) /\ Count \in Nat \ {0}
  BY <1>1, CallInProgress DEF Shape, During
<1>3. p \in Pins /\ p.tck /\ OnWires(driver, p) = OnWires(driver, call.packets[bit])
  BY <1>2, TableTrst DEF Levels, Pins, Wire, OnWires
<1>4. \/ ~call.read /\ Out(p) /\ UNCHANGED instream
      \/ call.read /\ InOut(p)
  BY DEF RaiseClock, WriteBit, ReadWriteBit
<1> HIDE DEF p
<1>5. /\ clock_is_high' \in BOOLEAN /\ err' \in BOOLEAN
      /\ unseen' \in BOOLEAN /\ stale' \in BOOLEAN /\ (unseen => unseen')
      /\ \/ /\ Apply(p) /\ UNCHANGED <<err, unseen>>
            /\ (By("libusb") => clock_is_high')
            /\ call.read => Put(bit, {Tdo})
         \/ err' /\ (Apply(p) \/ Lost)
         \/ /\ unseen' /\ (Apply(p) \/ Lost) /\ UNCHANGED err
            /\ (By("libusb") => clock_is_high')
  BY <1>1, <1>3, <1>4, OutFacts, InOutFacts
<1>6. /\ pins' \in Pins /\ edges' \in Seq(Wire) /\ Promise!IsPrefix(edges, edges')
      /\ Apply(p) => edges' = IF ~pins.tck THEN Append(edges, OnWires(driver, p)) ELSE edges
  BY <1>1, <1>3, <1>5, ApplyFacts, PrefixFacts DEF Lost, Shape
<1>7. Shape'
  <2>1. /\ stage' \in {"drop", "done"} /\ (stage' = "drop" => bit' \in 1 .. Count)
    BY <1>1, <1>2
  <2> QED BY <1>1, <1>2, <1>5, <1>6, <2>1 DEF Shape, During, Between, Count
<1>8. ASSUME ~Amiss'
      PROVE  /\ edges' = Clocked(driver, call, bit)
             /\ call.read => instream' = Sampled(call, bit)
  <2>1. /\ Apply(p) /\ UNCHANGED <<err, unseen>>
        /\ call.read => Put(bit, {Tdo})
    BY <1>5, <1>8 DEF Amiss
  <2>2. /\ edges = Clocked(driver, call, bit - 1) /\ ~pins.tck
        /\ call.read => instream = Sampled(call, bit - 1)
    BY <1>1, <1>8, <2>1 DEF Correct, Amiss, During
  <2>3. bit - 1 \in 0 .. Len(call.packets) /\ (bit - 1) + 1 = bit /\ bit - 1 < Len(call.packets)
    BY <1>2
  <2>4. Append(edges, OnWires(driver, call.packets[bit])) = Clocked(driver, call, bit)
        /\ Len(edges) = bit - 1
    <3> DEFINE n == bit - 1
    <3>1. n \in 0 .. Len(call.packets) /\ n + 1 = bit /\ n < Len(call.packets)
      BY <2>3
    <3>2. edges = Clocked(driver, call, n)
      BY <2>2
    <3> HIDE DEF n
    <3>3. /\ Append(Clocked(driver, call, n), OnWires(driver, call.packets[n + 1]))
              = Clocked(driver, call, n + 1)
          /\ Len(Clocked(driver, call, n)) = n
      BY <1>2, <3>1, ClockedFacts
    <3> QED BY <3>1, <3>2, <3>3 DEF n
  <2>5. Tdo = bit
    BY <2>2, <2>3, <2>4 DEF Tdo
  <2>6. call.read => instream' = Sampled(call, bit)
    BY <1>2, <2>1, <2>2, <2>5, SampledFacts DEF Put
  <2> QED BY <1>3, <1>6, <2>1, <2>2, <2>4, <2>6
<1>9. Correct'
  <2>1. bit' - 1 = bit /\ (stage' = "done" => bit' = Count + 1) /\ stage' \in {"drop", "done"}
    BY <1>1, <1>2
  <2>2. ~err' => Trusted(driver, clock_is_high, pins)'
    BY <1>1, <1>5 DEF Trusted, By
  <2> QED BY <1>1, <1>8, <2>1, <2>2 DEF Correct, Amiss, During, Between, Count
<1>10. Onward
  BY <1>1, <1>5, <1>6 DEF Onward
<1> QED BY <1>7, <1>9, <1>10

(* TCK falls before a burst.                                               *)
LEMMA LowerClockStep ==
  ASSUME CallsOfChainCommands, CableInv, LowerClock
  PROVE  Shape' /\ Correct' /\ Onward
<1> DEFINE p == [tck |-> FALSE, tdi |-> 0, tms |-> FALSE, trst |-> Table[driver].trst]
<1>1. /\ Shape /\ Correct /\ stage = "lower" /\ stage' = "burst" /\ Out(p)
      /\ UNCHANGED <<driver, asked, call, reply, bit, transfer, instream>>
  BY DEF LowerClock, CableInv
<1>2. /\ call \in ProperCall /\ driver \in DOMAIN Table /\ bit = 1 /\ ~err
      /\ ByteShift /\ Bytes(call) > 0 /\ Bytes(call) \in Nat
      /\ ~unseen /\ (call.read => answer = <<>> /\ total = 0)
  BY <1>1, CallInProgress, CallFacts DEF Shape, Correct, Amiss, During
<1>3. p \in Pins /\ ~p.tck /\ IsLow(p)
  BY <1>2, TableTypes DEF Pins, IsLow
<1> HIDE DEF p
<1>4. /\ clock_is_high' \in BOOLEAN /\ err' \in BOOLEAN
      /\ unseen' \in BOOLEAN /\ stale' \in BOOLEAN /\ (unseen => unseen')
      /\ \/ Apply(p) /\ UNCHANGED <<err, unseen>>
         \/ Lost /\ err'
         \/ Lost /\ unseen' /\ ~By("libusb")
  BY <1>1, <1>3, OutFacts
<1>5. /\ edges' = edges /\ pins' \in Pins
      /\ ~err' /\ (unseen' => By("libusb")) => IsLow(pins')
      /\ ~Amiss' => ~Amiss
  BY <1>1, <1>3, <1>4, ApplyFacts DEF Lost, Shape, Amiss
<1>7. \E k \in 0 .. Bytes(call) - 1 : bit = k * ByteBits + 1
  <2>1. ByteBits \in Nat \ {0} /\ 0 \in 0 .. Bytes(call) - 1
    BY <1>2, CableAssumption
  <2>2. 0 * ByteBits = 0
    BY <2>1, MulOrder
  <2>3. bit = 0 * ByteBits + 1
    BY <1>2, <2>2
  <2> QED BY <2>1, <2>3
<1>8. Shape'
  BY <1>1, <1>2, <1>4, <1>5, <1>7 DEF Shape, During, Between, ByteShift, By
<1>9. Correct'
  BY <1>1, <1>2, <1>5 DEF Correct, Amiss, During, Between, transfer, By
<1>10. Onward
  BY <1>1, <1>4, <1>5, PrefixFacts DEF Onward, Shape
<1> QED BY <1>8, <1>9, <1>10

(* TCK is low already.                                                     *)
LEMMA ClockIsLowStep ==
  ASSUME CallsOfChainCommands, CableInv, ClockIsLow, By("libusb")
  PROVE  Shape' /\ Correct' /\ Onward
<1>1. /\ Shape /\ Correct /\ stage = "lower" /\ stage' = "burst" /\ ~clock_is_high
      /\ UNCHANGED <<driver, asked, call, edges, reply, unseen, stale, pins, clock_is_high, bit, answer, total, err,
                     instream>>
  BY DEF ClockIsLow, CableInv, interface, burst, transfer
<1>2. /\ call \in ProperCall /\ bit = 1 /\ ~err
      /\ ByteShift /\ Bytes(call) > 0 /\ Bytes(call) \in Nat
      /\ ~unseen /\ (call.read => answer = <<>> /\ total = 0)
  BY <1>1, CallInProgress, CallFacts DEF Shape, Correct, Amiss, During
<1>3. IsLow(pins)
  BY <1>1 DEF Correct, Amiss, Trusted, By
<1>4. \E k \in 0 .. Bytes(call) - 1 : bit = k * ByteBits + 1
  <2>1. ByteBits \in Nat \ {0} /\ 0 \in 0 .. Bytes(call) - 1
    BY <1>2, CableAssumption
  <2>2. 0 * ByteBits = 0
    BY <2>1, MulOrder
  <2>3. bit = 0 * ByteBits + 1
    BY <1>2, <2>2
  <2> QED BY <2>1, <2>3
<1>5. Shape'
  BY <1>1, <1>2, <1>4 DEF Shape, During, Between, ByteShift, By
<1>6. Correct'
  BY <1>1, <1>2, <1>3 DEF Correct, Amiss, During, Between
<1>7. Onward
  BY <1>1, PrefixFacts DEF Onward, Shape
<1> QED BY <1>5, <1>6, <1>7

(* The driver gives up, and says so.                                       *)
LEMMA GiveUpStep ==
  ASSUME CallsOfChainCommands, CableInv, NEW dev, GiveUp(dev)
  PROVE  Shape' /\ Correct' /\ Reports
<1>1. /\ Shape /\ Correct /\ Answer(TRUE) /\ stale' \in {stale, TRUE}
      /\ UNCHANGED <<driver, edges, pins, clock_is_high, err>>
  BY DEF GiveUp, MayComeLate, CableInv
<1>2. stage' = "idle" /\ call' = NoCall /\ reply'.err = TRUE /\ unseen' = unseen
  BY <1>1 DEF Answer
<1>3. Shape'
  BY <1>1, <1>2 DEF Shape, Between, During
<1>4. Correct'
  BY <1>1, <1>2 DEF Correct, Amiss, Between, During
<1> QED BY <1>1, <1>2, <1>3, <1>4 DEF Reports

(* The device opens or not: the chain sees nothing.                        *)
LEMMA ReopenStep ==
  ASSUME CallsOfChainCommands, CableInv, Reopen
  PROVE  Shape' /\ Correct' /\ (Onward \/ Reports)
<1>1. CASE \E d \in {"closed", "unclaimed"} : GiveUp(d)
  BY <1>1, GiveUpStep
<1>2. CASE UNCHANGED <<driver, stage, setup, interface, pins, clock_is_high, bit,
                       burst, err, instream>>
  <2>1. Shape' /\ Correct'
    BY <1>2 DEF CableInv, Shape, Correct, Amiss, interface, burst, transfer, ByteShift, By, Count
  <2>2. Onward
    BY <1>2, PrefixFacts DEF Onward, interface, CableInv, Shape
  <2> QED BY <2>1, <2>2
<1> QED BY <1>1, <1>2 DEF Reopen

(* The simulator has gone, and the driver says so.                         *)
LEMMA ConnectionLostStep ==
  ASSUME CallsOfChainCommands, CableInv, ConnectionLost
  PROVE  Shape' /\ Correct' /\ Reports
<1>1. /\ Shape /\ Correct /\ Answer(TRUE)
      /\ UNCHANGED <<driver, edges, pins, clock_is_high, stale, err>>
  BY DEF ConnectionLost, CableInv, burst
<1>2. stage' = "idle" /\ call' = NoCall /\ reply'.err = TRUE /\ unseen' = unseen
  BY <1>1 DEF Answer
<1>3. Shape'
  BY <1>1, <1>2 DEF Shape, Between, During
<1>4. Correct'
  BY <1>1, <1>2 DEF Correct, Amiss, Between, During
<1> QED BY <1>1, <1>2, <1>3, <1>4 DEF Reports
-----------------------------------------------------------------------------
(* What comes after the first m bytes: more of them, the leftovers, or the *)
(* end.                                                                    *)
After(m) ==
    LET b == m * ByteBits + 1
    IN  /\ m < Bytes(call) => AfterBurst(b) = "burst"
        /\ m = Bytes(call) =>
             /\ HasLeftovers(call) => AfterBurst(b) = "drop" /\ b \in 1 .. Count
             /\ ~HasLeftovers(call) => AfterBurst(b) = "done" /\ b = Count + 1

(* AfterBurst, with the position it applies to.                            *)
LEMMA AfterFacts ==
  ASSUME CallsOfChainCommands, Shape, stage \in During, NEW m \in 0 .. Bytes(call)
  PROVE  After(m)
<1> DEFINE t == m * ByteBits
<1>1. /\ call \in ProperCall /\ ByteBits \in Nat \ {0} /\ m \in Nat /\ Bytes(call) \in Nat
      /\ Count = Len(call.packets) /\ Count \in Nat
  BY CallInProgress, CableAssumption, CallFacts
<1>2. t \in Nat
  <2>1. t \in Int /\ 0 * ByteBits <= t /\ 0 * ByteBits = 0
    BY <1>1, MulOrder
  <2> HIDE DEF t
  <2> QED BY <2>1
<1>3. t \div ByteBits = m
  <2>1. 0 \in 0 .. ByteBits - 1
    BY <1>1
  <2>2. (m * ByteBits + 0) \div ByteBits = m
    BY <1>1, <2>1, Quotient
  <2>3. t + 0 = t
    BY <1>2
  <2> QED BY <2>2, <2>3
<1>4. m = Bytes(call) => /\ HasLeftovers(call) => t < Count
                         /\ ~HasLeftovers(call) => t = Count
  BY <1>1, CallFacts
<1>5. (t + 1) - 1 = t
  BY <1>2
<1> HIDE DEF t
<1>6. AfterBurst(t + 1) = IF m < Bytes(call) THEN "burst"
                          ELSE IF HasLeftovers(call) THEN "drop" ELSE "done"
  BY <1>3, <1>5 DEF AfterBurst
<1>7. t < Count => t + 1 \in 1 .. Count
  BY <1>1, <1>2
<1>8. /\ m < Bytes(call) => AfterBurst(t + 1) = "burst"
      /\ m = Bytes(call) =>
           /\ HasLeftovers(call) => AfterBurst(t + 1) = "drop" /\ t + 1 \in 1 .. Count
           /\ ~HasLeftovers(call) => AfterBurst(t + 1) = "done" /\ t + 1 = Count + 1
  BY <1>1, <1>4, <1>6, <1>7
<1> QED BY <1>8 DEF After, t

(* A transfer is of at least one byte, of no more than are left, and of    *)
(* all of them when reading.                                               *)
LEMMA TransferFacts ==
  ASSUME CallsOfChainCommands, Shape, stage \in During, NEW k \in 0 .. Bytes(call) - 1,
         bit = k * ByteBits + 1
  PROVE  /\ ThisTransfer \in 1 .. Bytes(call) - k
         /\ call.read /\ k = 0 => ThisTransfer = Bytes(call)
<1>1. /\ ByteBits \in Nat \ {0} /\ k \in Nat /\ Bytes(call) \in Nat
      /\ MaxRead \in Nat \ {0} /\ MaxWrite \in Nat \ {0}
      /\ call.read => Bytes(call) <= MaxRead
  BY CallInProgress, CableAssumption, CallFacts
<1> DEFINE t == k * ByteBits
<1>2. t \in Int /\ t + 0 = t /\ (t + 1) - 1 = t
  <2>1. t \in Int
    BY <1>1, MulOrder
  <2> HIDE DEF t
  <2> QED BY <2>1
<1>3. t \div ByteBits = k
  <2>1. 0 \in 0 .. ByteBits - 1
    BY <1>1
  <2>2. (k * ByteBits + 0) \div ByteBits = k
    BY <1>1, <2>1, Quotient
  <2> QED BY <1>2, <2>2
<1> HIDE DEF t
<1>4. bit - 1 = t
  BY <1>2 DEF t
<1>5. BytesLeft = Bytes(call) - k
  BY <1>3, <1>4 DEF BytesLeft
<1> DEFINE b == BytesLeft
           m == IF call.read THEN MaxRead ELSE MaxWrite
<1>6. b \in Nat \ {0} /\ m \in Nat \ {0} /\ b = Bytes(call) - k
      /\ (call.read => m = MaxRead)
  BY <1>1, <1>5
<1>7. ThisTransfer = IF b <= m THEN b ELSE m
  <2>1. ThisTransfer = Min({b, m})
    BY DEF ThisTransfer
  <2> HIDE DEF b, m
  <2> QED BY <1>6, <2>1, MinOfTwo
<1> HIDE DEF b, m
<1> QED BY <1>1, <1>6, <1>7

(* A burst that starts with TCK low clocks its bits, all of them, and the  *)
(* cable samples TDO for each.                                             *)
LEMMA BurstFacts ==
  ASSUME CallsOfChainCommands, CableInv, stage = "burst", NEW k \in 0 .. Bytes(call) - 1,
         bit = k * ByteBits + 1, NEW n \in 1 .. Bytes(call) - k, Burst(n)
  PROVE  /\ pins' \in Pins /\ edges' \in Seq(Wire) /\ Promise!IsPrefix(edges, edges')
         /\ ~err /\ (unseen => Table[driver].by = "libusb") => IsLow(pins')
         /\ ~Amiss =>
                    /\ edges' = Clocked(driver, call, (k + n) * ByteBits)
                    /\ call.read /\ k = 0 /\ n = Bytes(call) => answer' = Pending(call, 0)
         /\ bit + n * ByteBits = (k + n) * ByteBits + 1
<1> DEFINE t == k * ByteBits
           m == n * ByteBits
           z == (k + n) * ByteBits
           L == Len(call.packets)
           lost == IF pins.tck THEN 1 ELSE 0
           seen(i) == [tdi |-> call.packets[i].tdi, tms |-> pins.tms, trst |-> pins.trst]
           added == [i \in 1 .. m - lost |-> seen(bit + lost + i - 1)]
<1>1. /\ call \in ProperCall /\ driver \in DOMAIN Table /\ ByteBits \in Nat \ {0}
      /\ ByteBits > 1 /\ k \in Nat /\ n \in Nat \ {0} /\ k + n \in 0 .. Bytes(call)
      /\ Bytes(call) \in Nat
  BY CallInProgress, CableAssumption, CallFacts, SMTT(30) DEF CableInv, During
<1>2. /\ t \in Nat /\ m \in Nat /\ m >= ByteBits /\ z = t + m /\ z <= L /\ L \in Nat
      /\ z <= Bytes(call) * ByteBits
  <2>1. z = t + m /\ t \in Int /\ m \in Int /\ z <= Bytes(call) * ByteBits
    BY <1>1, MulOrder
  <2>2. 0 * ByteBits = 0 /\ 0 * ByteBits <= t /\ 1 * ByteBits <= m /\ 1 * ByteBits = ByteBits
    BY <1>1, MulOrder
  <2>3. Bytes(call) * ByteBits \in Nat /\ Bytes(call) * ByteBits <= L /\ L \in Nat
    BY <1>1, CallFacts
  <2> DEFINE w == Bytes(call) * ByteBits
  <2> HIDE DEF z, t, m, w, L
  <2>4. z = t + m /\ t \in Int /\ m \in Int /\ z <= w /\ 0 <= t /\ ByteBits <= m
        /\ w \in Nat /\ w <= L /\ L \in Nat
    BY <2>1, <2>2, <2>3 DEF w
  <2> QED BY <1>1, <2>4 DEF w
<1>3. bit = t + 1
  OBVIOUS
<1>4. bit + n * ByteBits = (k + n) * ByteBits + 1
  <2>1. bit + m = z + 1
    <3> HIDE DEF t, m, z
    <3> QED BY <1>2, <1>3
  <2> QED BY <2>1
<1>5. pins \in Pins /\ pins.tck \in BOOLEAN /\ lost \in {0, 1} /\ edges \in Seq(Wire)
  BY DEF CableInv, Shape, Pins
<1>6. \A i \in 1 .. L : call.packets[i] \in Wire /\ call.packets[i].tdi \in Nat
  BY <1>1, CallFacts DEF Wire
<1>7. /\ edges' = edges \o added
      /\ pins' = [pins EXCEPT !.tck = FALSE, !.tdi = call.packets[bit + m - 1].tdi]
      /\ call.read => answer' = answer \o [i \in 1 .. m |-> Len(edges) + i - lost]
  BY DEF Burst
<1>8. bit + m - 1 \in 1 .. L
  <2> HIDE DEF t, m, z, L
  <2> QED BY <1>1, <1>2, <1>3
<1>9. pins' \in Pins
  BY <1>5, <1>6, <1>7, <1>8 DEF Pins
<1>10. added \in Seq(Wire)
  <2>1. m - lost \in Nat
    <3> HIDE DEF m, lost
    <3> QED BY <1>1, <1>2, <1>5
  <2>2. ASSUME NEW i \in 1 .. m - lost PROVE seen(bit + lost + i - 1) \in Wire
    <3>1. bit + lost + i - 1 \in 1 .. L
      <4> HIDE DEF m, lost, t, z, L
      <4> QED BY <1>1, <1>2, <1>3, <1>5, <2>1, <2>2
    <3>2. \A j \in 1 .. L : seen(j) \in Wire
      BY <1>5, <1>6 DEF Wire, Pins
    <3> QED BY <3>1, <3>2
  <2> HIDE DEF m, lost, seen
  <2> QED BY <2>1, <2>2
<1>11. edges' \in Seq(Wire) /\ Promise!IsPrefix(edges, edges')
  <2> HIDE DEF added
  <2> QED BY <1>5, <1>7, <1>10, PrefixFacts
<1>13. ASSUME IsLow(pins) PROVE IsLow(pins')
  <2> DEFINE x == call.packets[bit + m - 1].tdi
  <2>1. pins' = [pins EXCEPT !.tck = FALSE, !.tdi = x]
    BY <1>7
  <2> HIDE DEF x
  <2> QED BY <1>5, <1>13, <2>1 DEF IsLow, Pins
<1>14. ~err /\ (unseen => Table[driver].by = "libusb") => IsLow(pins')
  BY <1>13 DEF CableInv, Correct, Amiss
<1>12. ASSUME ~Amiss
       PROVE  /\ edges' = Clocked(driver, call, z)
              /\ call.read /\ k = 0 /\ n = Bytes(call) => answer' = Pending(call, 0)
  <2>1. IsLow(pins) /\ edges = Clocked(driver, call, bit - 1)
    BY <1>12 DEF CableInv, Correct, Amiss, During
  <2>7. call.read => answer = <<>>
    BY <1>12 DEF CableInv, Correct, Amiss, During
  <2>8. lost = 0
    BY <2>1 DEF IsLow
  <2>3. bit - 1 = t /\ t \in 0 .. L /\ m \in 0 .. L - t
    <3> HIDE DEF m, t, z, L
    <3> QED BY <1>1, <1>2, <1>3
  <2>4. added = [i \in 1 .. m |-> OnWires(driver, call.packets[t + i])]
    <3>1. \A i \in 1 .. m : bit + lost + i - 1 = t + i /\ t + i \in 1 .. z
      <4> HIDE DEF m, t, z, lost
      <4> QED BY <1>1, <1>2, <1>3, <2>8
    <3>2. m - lost = m
      <4> HIDE DEF m, lost
      <4> QED BY <1>2, <2>8
    <3>3. ~Table[driver].trst
      BY TableTypes DEF CableInv, Shape
    <3>4. ASSUME NEW j \in 1 .. z PROVE seen(j) = OnWires(driver, call.packets[j])
      <4>1. j \in 1 .. Bytes(call) * ByteBits
        <5> DEFINE w == Bytes(call) * ByteBits
        <5>1. z <= w /\ w \in Nat /\ z \in Int
          BY <1>1, <1>2, CallFacts
        <5> HIDE DEF w, z
        <5>2. j \in 1 .. w
          BY <3>4, <5>1
        <5> QED BY <5>2 DEF w
      <4>2. ~call.packets[j].tms /\ call.packets[j] \in Wire
        BY <1>1, <1>2, <1>6, <4>1, CallFacts
      <4>3. ~pins.tms /\ ~pins.trst
        BY <2>1 DEF IsLow
      <4>4. pins.tms = FALSE /\ pins.trst = FALSE /\ call.packets[j].tms = FALSE
        BY <1>5, <4>2, <4>3 DEF Wire, Pins
      <4>5. (call.packets[j].trst /\ Table[driver].trst) = FALSE
        BY <3>3
      <4> QED BY <4>4, <4>5 DEF OnWires
    <3> HIDE DEF m, t, lost, seen
    <3> QED BY <3>1, <3>2, <3>4
  <2>5. edges' = Clocked(driver, call, z)
    <3>1. edges = Clocked(driver, call, t)
      <4> HIDE DEF t
      <4> QED BY <2>1, <2>3
    <3>2. Clocked(driver, call, t) \o [i \in 1 .. m |-> OnWires(driver, call.packets[t + i])]
            = Clocked(driver, call, t + m)
      <4> HIDE DEF m, t
      <4> QED BY <1>1, <2>3, ClockedFacts, ZenonT(60)
    <3> HIDE DEF m, t, z, added
    <3> QED BY <1>2, <1>7, <2>4, <3>1, <3>2
  <2>6. ASSUME call.read, k = 0, n = Bytes(call) PROVE answer' = Pending(call, 0)
    <3> DEFINE a == [i \in 1 .. m |-> Len(edges) + i - lost]
    <3>1. t = 0
      BY <1>1, <2>6, MulOrder
    <3>2. Len(edges) = 0
      <4> HIDE DEF t, m, z
      <4>1. edges = Clocked(driver, call, 0) /\ 0 \in 0 .. Len(call.packets)
        BY <2>1, <2>3, <3>1
      <4> QED BY <1>1, <4>1, ClockedFacts
    <3>3. a = [i \in 1 .. m |-> i]
      <4>1. \A i \in 1 .. m : Len(edges) + i - lost = i
        <5> HIDE DEF m, lost
        <5> QED BY <1>2, <2>8, <3>2
      <4> HIDE DEF m, lost
      <4> QED BY <4>1
    <3>4. Pending(call, 0) = [i \in 1 .. m |-> t + i]
      BY <1>1, <2>6 DEF Pending
    <3>5. Pending(call, 0) = a /\ a \in Seq(Nat)
      <4> HIDE DEF m, t, a
      <4>1. \A i \in 1 .. m : t + i = i
        BY <1>2, <3>1
      <4>2. [i \in 1 .. m |-> t + i] = [i \in 1 .. m |-> i]
        BY <4>1
      <4>3. [i \in 1 .. m |-> i] \in Seq(Nat)
        BY <1>2
      <4> QED BY <3>3, <3>4, <4>2, <4>3
    <3> HIDE DEF a
    <3>6. <<>> \o a = a
      BY <3>5
    <3>7. answer' = answer \o a
      BY <1>7, <2>6 DEF a
    <3> QED BY <2>6, <2>7, <3>5, <3>6, <3>7
  <2> QED BY <2>5, <2>6
<1> QED BY <1>4, <1>9, <1>11, <1>12, <1>14
-----------------------------------------------------------------------------
(* A burst of a write.                                                     *)
LEMMA WriteBurstStep ==
  ASSUME CallsOfChainCommands, CableInv, ~call.read, WriteBurst(ThisTransfer)
  PROVE  Shape' /\ Correct' /\ Onward
<1> DEFINE n == ThisTransfer
<1>1. /\ Shape /\ Correct /\ stage = "burst" /\ Burst(n)
      /\ bit' = bit + n * ByteBits /\ stage' = AfterBurst(bit')
      /\ err' = (err /\ stage' # "drop") /\ unseen' = (unseen \/ (err /\ stage' = "drop"))
      /\ clock_is_high' = ClockNow
      /\ UNCHANGED <<driver, asked, call, reply, received, total, stale, instream>>
  BY DEF WriteBurst, Forgets, CableInv
<1>2. /\ call \in ProperCall /\ driver \in DOMAIN Table /\ Bytes(call) \in Nat /\ ByteShift
      /\ Bytes(call) > 0 /\ err \in BOOLEAN /\ unseen \in BOOLEAN /\ clock_is_high \in BOOLEAN
  BY <1>1, CallInProgress, CallFacts DEF Shape, During
<1>3. PICK k \in 0 .. Bytes(call) - 1 : bit = k * ByteBits + 1
  BY <1>1 DEF Shape
<1>4. n \in 1 .. Bytes(call) - k
  BY <1>1, <1>3, TransferFacts DEF During
<1>5. /\ pins' \in Pins /\ edges' \in Seq(Wire) /\ Promise!IsPrefix(edges, edges')
      /\ ~err /\ (unseen => Table[driver].by = "libusb") => IsLow(pins')
      /\ ~Amiss => edges' = Clocked(driver, call, (k + n) * ByteBits)
      /\ bit + n * ByteBits = (k + n) * ByteBits + 1
  BY <1>1, <1>3, <1>4, BurstFacts
<1> HIDE DEF n
<1> DEFINE m == k + n
           z == m * ByteBits
<1>6. m \in 0 .. Bytes(call) /\ (m < Bytes(call) => m \in 0 .. Bytes(call) - 1)
  BY <1>2, <1>4
<1>7. bit' = m * ByteBits + 1 /\ edges' \in Seq(Wire)
      /\ (~Amiss => edges' = Clocked(driver, call, m * ByteBits))
  BY <1>1, <1>5
<1>8. After(m)
  BY <1>1, <1>6, AfterFacts DEF During
<1>9. /\ m < Bytes(call) => stage' = "burst"
      /\ ~(m < Bytes(call)) => /\ HasLeftovers(call) => stage' = "drop" /\ bit' \in 1 .. Count
                               /\ ~HasLeftovers(call) => stage' = "done" /\ bit' = Count + 1
  BY <1>1, <1>2, <1>6, <1>7, <1>8 DEF After
<1>10. /\ stage' \in {"burst", "drop", "done"} /\ err' \in BOOLEAN /\ unseen' \in BOOLEAN
       /\ unseen => unseen'
       /\ ~Amiss' => ~Amiss
       /\ stage' # "drop" => err' = err /\ unseen' = unseen
  BY <1>1, <1>2, <1>9 DEF Amiss
<1>11. clock_is_high' \in BOOLEAN
  BY <1>1, <1>2 DEF ClockNow
<1>12. z \in Int /\ bit' - 1 = z
  <2>1. z \in Int
    BY <1>2, <1>6, CableAssumption, MulOrder
  <2> HIDE DEF m
  <2>2. bit' = z + 1
    BY <1>7
  <2> HIDE DEF z
  <2> QED BY <2>1, <2>2
<1>13. stage' = "burst" => \E j \in 0 .. Bytes(call) - 1 : bit' = j * ByteBits + 1
  <2> HIDE DEF m
  <2> QED BY <1>6, <1>7, <1>9
<1>14. Shape'
  BY <1>1, <1>2, <1>5, <1>9, <1>10, <1>11, <1>13
     DEF Shape, During, Between, Count, ByteShift, By
<1>15. Correct'
  <2>1. ~Amiss' => edges' = Clocked(driver, call, bit' - 1)
    <3> HIDE DEF m
    <3> QED BY <1>7, <1>10, <1>12
  <2>2. /\ stage' = "burst" /\ ~err' /\ (unseen' => Table[driver].by = "libusb") => IsLow(pins')
        /\ stage' = "done" /\ ~err' => Trusted(driver, clock_is_high, pins)'
    BY <1>1, <1>5, <1>10 DEF Trusted
  <2> HIDE DEF m, z
  <2> QED BY <1>1, <1>9, <1>10, <2>1, <2>2 DEF Correct, Amiss, During, Between, Count
<1>16. Onward
  BY <1>1, <1>5, <1>10 DEF Onward
<1> QED BY <1>14, <1>15, <1>16

(* A burst that cannot be written: the driver says so, or the leftovers    *)
(* forget it.                                                              *)
LEMMA LoseBurstStep ==
  ASSUME CallsOfChainCommands, CableInv, ~call.read, LoseBurst
  PROVE  Shape' /\ Correct' /\ Onward
<1>1. /\ Shape /\ Correct /\ stage = "burst"
      /\ (Lost /\ UNCHANGED answer) \/ \E n \in 1 .. ThisTransfer : Burst(n)
      /\ bit' = Bytes(call) * ByteBits + 1 /\ stage' = AfterBurst(bit')
      /\ err' = (stage' # "drop") /\ unseen' = (unseen \/ stage' = "drop")
      /\ clock_is_high' = ClockNow
      /\ UNCHANGED <<driver, asked, call, reply, stale, instream>>
  BY DEF LoseBurst, CableInv, Forgets
<1>2. /\ call \in ProperCall /\ driver \in DOMAIN Table /\ clock_is_high \in BOOLEAN
      /\ unseen \in BOOLEAN /\ Bytes(call) \in 0 .. Bytes(call)
  <2>1. call \in ProperCall /\ driver \in DOMAIN Table /\ Bytes(call) \in Nat
    BY <1>1, CallInProgress, CallFacts DEF During
  <2> QED BY <1>1, <2>1 DEF Shape
<1>3. After(Bytes(call))
  BY <1>1, <1>2, AfterFacts DEF During
<1>4. \/ stage' = "drop" /\ bit' \in 1 .. Count /\ ~err' /\ unseen'
      \/ stage' = "done" /\ err'
  BY <1>1, <1>2, <1>3 DEF After
<1>5. clock_is_high' \in BOOLEAN /\ err' \in BOOLEAN /\ unseen' \in BOOLEAN
  BY <1>1, <1>2 DEF ClockNow
<1>6. pins' \in Pins /\ edges' \in Seq(Wire) /\ Promise!IsPrefix(edges, edges')
  <2>1. CASE Lost
    BY <1>1, <2>1, PrefixFacts DEF Lost, Shape
  <2>2. ASSUME NEW n \in 1 .. ThisTransfer, Burst(n)
        PROVE  pins' \in Pins /\ edges' \in Seq(Wire) /\ Promise!IsPrefix(edges, edges')
    <3>1. PICK k \in 0 .. Bytes(call) - 1 : bit = k * ByteBits + 1
      BY <1>1 DEF Shape
    <3>2. n \in 1 .. Bytes(call) - k
      <4>1. ThisTransfer \in 1 .. Bytes(call) - k /\ Bytes(call) \in Nat
        BY <1>1, <1>2, <3>1, TransferFacts, CallFacts DEF During
      <4> HIDE DEF ThisTransfer
      <4> QED BY <4>1
    <3> QED BY <1>1, <2>2, <3>1, <3>2, BurstFacts
  <2> QED BY <1>1, <2>1, <2>2
<1>7. Shape'
  BY <1>1, <1>2, <1>4, <1>5, <1>6 DEF Shape, During, Between, Count
<1>8. Correct'
  BY <1>4 DEF Correct, Amiss, During, Between
<1>9. Onward
  BY <1>1, <1>6 DEF Onward
<1> QED BY <1>7, <1>8, <1>9

(* The only burst of a read.                                               *)
LEMMA ReadBurstStep ==
  ASSUME CallsOfChainCommands, CableInv, call.read, ReadBurst(ThisTransfer)
  PROVE  Shape' /\ Correct' /\ Onward
<1> DEFINE n == ThisTransfer
<1>1. /\ Shape /\ Correct /\ stage = "burst" /\ stage' = "answer" /\ Burst(n)
      /\ received' = 0
      /\ UNCHANGED <<driver, asked, call, reply, unseen, stale, clock_is_high, bit, total, err,
                     instream>>
  BY DEF ReadBurst, CableInv
<1>2. /\ call \in ProperCall /\ driver \in DOMAIN Table /\ Bytes(call) \in Nat /\ ByteShift
      /\ Bytes(call) > 0 /\ bit = 1 /\ ByteBits \in Nat \ {0} /\ WordBytes \in Nat \ {0}
  BY <1>1, CallInProgress, CallFacts, CableAssumption DEF Shape, During
<1>3. 0 * ByteBits = 0 /\ bit = 0 * ByteBits + 1 /\ 0 \in 0 .. Bytes(call) - 1
  <2>1. 0 * ByteBits = 0
    BY <1>2, MulOrder
  <2> QED BY <1>2, <2>1
<1>4. n = Bytes(call) /\ n \in 1 .. Bytes(call) - 0
  <2>1. n \in 1 .. Bytes(call) - 0 /\ n = Bytes(call)
    BY <1>1, <1>3, TransferFacts DEF During
  <2> QED BY <2>1
<1>5. /\ pins' \in Pins /\ edges' \in Seq(Wire) /\ Promise!IsPrefix(edges, edges')
      /\ ~err /\ (unseen => Table[driver].by = "libusb") => IsLow(pins')
      /\ ~Amiss => /\ edges' = Clocked(driver, call, (0 + n) * ByteBits)
                   /\ answer' = Pending(call, 0)
  BY <1>1, <1>3, <1>4, BurstFacts
<1> HIDE DEF n
<1>6. 0 + n = Bytes(call)
  BY <1>2, <1>4
<1>7. Shape'
  BY <1>1, <1>2, <1>5 DEF Shape, During, Between, ByteShift, By
<1>8. Correct'
  <2>1. ~Amiss => instream = Sampled(call, 0) /\ total = 0
    <3>1. bit - 1 = 0
      BY <1>2
    <3> QED BY <1>1, <3>1 DEF Correct, Amiss, During
  <2>2. 0 % WordBytes = 0
    BY <1>2
  <2> QED BY <1>1, <1>3, <1>5, <1>6, <2>1, <2>2 DEF Correct, Amiss, During, Between
<1>9. Onward
  BY <1>1, <1>5 DEF Onward
<1> QED BY <1>7, <1>8, <1>9

(* Some bytes of the answer.                                               *)
LEMMA ReadAnswerStep ==
  ASSUME CallsOfChainCommands, CableInv, call.read,
         NEW n \in 0 .. ThisTransfer, ReadAnswer(ThisTransfer, n)
  PROVE  Shape' /\ Correct' /\ Onward
<1>1. /\ Shape /\ Correct /\ stage = "answer" /\ clock_is_high' = ClockNow
      /\ n <= ThisTransfer - received
      /\ answer' = SubSeq(answer, n * ByteBits + 1, Len(answer))
      /\ received' = received + n /\ total' = total + n
      /\ UNCHANGED <<driver, asked, call, edges, reply, pins, err>>
  BY DEF ReadAnswer, CableInv
<1>2. /\ call \in ProperCall /\ driver \in DOMAIN Table /\ Bytes(call) \in Nat /\ ByteShift
      /\ Bytes(call) > 0 /\ bit = 1 /\ ByteBits \in Nat \ {0} /\ clock_is_high \in BOOLEAN
      /\ received \in 0 .. Bytes(call) /\ unseen \in BOOLEAN /\ stale \in BOOLEAN
  BY <1>1, CallInProgress, CallFacts, CableAssumption DEF Shape, During
<1>3. 0 * ByteBits = 0 /\ bit = 0 * ByteBits + 1 /\ 0 \in 0 .. Bytes(call) - 1
  <2>1. 0 * ByteBits = 0
    BY <1>2, MulOrder
  <2> QED BY <1>2, <2>1
<1>4. ThisTransfer = Bytes(call)
  BY <1>1, <1>3, TransferFacts DEF During
<1>5. /\ n \in 0 .. Bytes(call) - received /\ received' \in 0 .. Bytes(call)
      /\ received' = received + n
  BY <1>1, <1>2, <1>4
<1>12. PICK others \in {FALSE, stale} :
         LET over == received' = ThisTransfer \/ retries' = Retries
         IN  /\ IF others THEN UNCHANGED instream ELSE Place(n)
             /\ IF over THEN bit' = bit + ThisTransfer * ByteBits /\ stage' = AfterBurst(bit')
                        ELSE UNCHANGED <<bit, stage>>
             /\ unseen' = \/ unseen \/ others
                          \/ over /\ received' < ThisTransfer
                          \/ ~over /\ received' % WordBytes # 0
  BY DEF ReadAnswer
<1>6. \/ bit' = bit + Bytes(call) * ByteBits /\ stage' = AfterBurst(bit')
         /\ (~unseen' => received' = Bytes(call))
      \/ (~unseen' => received' % WordBytes = 0) /\ UNCHANGED <<bit, stage>>
  BY <1>2, <1>4, <1>5, <1>12
<1>13. /\ unseen' \in BOOLEAN /\ (unseen => unseen')
       /\ ~unseen' => ~unseen /\ Place(n)
  BY <1>2, <1>12
<1>14. stale' \in BOOLEAN
  BY <1>2 DEF ReadAnswer, MayComeLate
<1>15. ~err /\ (unseen' => Table[driver].by = "libusb") => IsLow(pins)
  BY <1>1, <1>13 DEF Correct
<1>7. ~Amiss' => /\ instream' = Sampled(call, received' * ByteBits)
              /\ answer' = Pending(call, received')
              /\ total' = received'
              /\ edges = Clocked(driver, call, Bytes(call) * ByteBits)
  <2> SUFFICES ASSUME ~Amiss'
               PROVE  /\ instream' = Sampled(call, received' * ByteBits)
                      /\ answer' = Pending(call, received')
                      /\ total' = received'
                      /\ edges = Clocked(driver, call, Bytes(call) * ByteBits)
    OBVIOUS
  <2>1. /\ instream = Sampled(call, received * ByteBits) /\ answer = Pending(call, received)
        /\ total = received /\ received % WordBytes = 0 /\ Place(n)
        /\ edges = Clocked(driver, call, Bytes(call) * ByteBits)
    BY <1>1, <1>13 DEF Correct, Amiss
  <2>2. instream' = Sampled(call, (received + n) * ByteBits)
    BY <1>1, <1>2, <1>5, <2>1, PlaceFacts
  <2>3. answer' = Pending(call, received + n)
    BY <1>1, <1>2, <1>5, <2>1, PendingStep
  <2> QED BY <1>1, <2>1, <2>2, <2>3
<1>8. clock_is_high' \in BOOLEAN
  BY <1>1, <1>2 DEF ClockNow
<1>9. Onward
  BY <1>1, <1>13, PrefixFacts DEF Onward, Shape
<1>10. CASE (~unseen' => received' % WordBytes = 0) /\ UNCHANGED <<bit, stage>>
  <2>1. Shape'
    BY <1>1, <1>2, <1>5, <1>8, <1>10, <1>13, <1>14 DEF Shape, During, Between, ByteShift, By
  <2>2. Correct'
    BY <1>1, <1>7, <1>10, <1>15 DEF Correct, Amiss, During, Between
  <2> QED BY <1>9, <2>1, <2>2
<1>11. CASE /\ bit' = bit + Bytes(call) * ByteBits /\ stage' = AfterBurst(bit')
            /\ ~unseen' => received' = Bytes(call)
  <2> DEFINE w == Bytes(call) * ByteBits
  <2>1. w \in Nat
    BY <1>2, CallFacts
  <2>2. bit' = w + 1 /\ bit' - 1 = w
    <3>1. bit' = bit + w
      BY <1>11
    <3> HIDE DEF w
    <3> QED BY <1>2, <2>1, <3>1
  <2>3. After(Bytes(call))
    BY <1>1, <1>2, AfterFacts DEF During
  <2>4. \/ stage' = "drop" /\ bit' \in 1 .. Count
        \/ stage' = "done" /\ bit' = Count + 1
    BY <1>11, <2>2, <2>3 DEF After
  <2>5. Shape'
    BY <1>1, <1>2, <1>8, <1>13, <1>14, <2>4 DEF Shape, During, Between, Count
  <2>6. /\ ~Amiss' => /\ instream' = Sampled(call, bit' - 1)
                      /\ edges = Clocked(driver, call, bit' - 1)
        /\ ~err => Trusted(driver, clock_is_high, pins)'
    <3>1. ~Amiss' => instream' = Sampled(call, w) /\ edges = Clocked(driver, call, w)
      BY <1>7, <1>11 DEF Amiss
    <3>2. IsLow(pins) => IsLow(pins')
      BY <1>1
    <3> HIDE DEF w
    <3> QED BY <1>1, <1>15, <2>2, <3>1, <3>2 DEF Trusted
  <2> HIDE DEF w
  <2>7. Correct'
    BY <1>1, <2>4, <2>6 DEF Correct, Amiss, During, Between, Count
  <2> QED BY <1>9, <2>5, <2>7
<1> QED BY <1>6, <1>10, <1>11
-----------------------------------------------------------------------------
(* A call begins; after an error it is of one bit, which needs no burst.   *)
LEMMA BeginStep ==
  ASSUME CallsOfChainCommands, CableInv, NEW c \in Calls, Begin(c),
         reply.err => Len(c.packets) = 1
  PROVE  /\ Shape' /\ Correct'
         /\ call = NoCall /\ call' \in ProperCall /\ asked' \in Calls
         /\ edges' = <<>> /\ ~unseen' /\ UNCHANGED driver
<1> DEFINE v == call'
<1>1. /\ Shape /\ Correct /\ stage = "idle" /\ asked' = c /\ v \in Shifted(c) /\ edges' = <<>>
      /\ unseen' = FALSE /\ reply' = NoReply
      /\ stage' = (IF ByteShift /\ Bytes(c) > 0 THEN "lower" ELSE "drop")
      /\ bit' = 1 /\ err' = FALSE /\ answer' = <<>> /\ total' = 0
      /\ instream' = [i \in 1 .. Words(c) * WordBits |-> {}]
      /\ UNCHANGED <<driver, pins, clock_is_high, stale>>
  BY DEF Begin, CableInv
<1>2. driver \in DOMAIN Table
  BY <1>1 DEF Shape
<1>3. /\ v \in Versions(driver, c) /\ v \in ProperCall
      /\ Len(v.packets) = Len(c.packets) /\ Bytes(v) = Bytes(c)
  BY <1>1, <1>2, VersionsFacts
<1>4. /\ Len(v.packets) \in Nat \ {0} /\ (Len(v.packets) = 1 => Bytes(v) = 0)
      /\ Words(v) * WordBits \in Nat
  <2> HIDE DEF v
  <2> QED BY <1>3, CallFacts
<1>5. edges' = Clocked(driver, v, 0) /\ edges' \in Seq(Wire)
  <2> HIDE DEF v
  <2>1. 0 \in 0 .. Len(v.packets)
    BY <1>4
  <2> QED BY <1>1, <1>2, <1>3, <2>1, ClockedFacts
<1>6. instream' = Sampled(v, 0)
  <2> HIDE DEF v
  <2> DEFINE W == Words(v) * WordBits
  <2>1. W \in Nat /\ instream' = [x \in 1 .. W |-> {}]
    BY <1>1, <1>3, <1>4 DEF Words
  <2>2. Sampled(v, 0) = [x \in 1 .. W |-> IF x <= 0 THEN {x} ELSE {}]
    BY DEF Sampled
  <2> HIDE DEF W
  <2>3. \A x \in 1 .. W : ~(x <= 0)
    BY <2>1
  <2> QED BY <2>1, <2>2, <2>3
<1>7. bit' - 1 = 0 /\ bit' \in 1 .. Count'
  <2>1. bit' = 1 /\ Len(v.packets) \in Nat \ {0}
    BY <1>1, <1>4
  <2> QED BY <2>1 DEF Count
<1>8. stage' = "lower" => ~reply.err /\ ByteShift /\ Bytes(v) > 0
  <2> HIDE DEF v
  <2> QED BY <1>1, <1>3, <1>4
<1>9. stage' \in {"lower", "drop"}
  BY <1>1
<1>10. Shape'
  <2>1. reply'.err \in BOOLEAN
    BY <1>1 DEF NoReply
  <2>2. v \in ProperCall /\ asked' \in Calls /\ v \in Versions(driver', asked')
    BY <1>1, <1>3
  <2>3. stage' = "lower" => ByteShift' /\ Bytes(v) > 0
    BY <1>1, <1>8 DEF ByteShift, By
  <2> QED BY <1>1, <1>5, <1>7, <1>9, <2>1, <2>2, <2>3 DEF Shape, During, Between
<1>11. stage' = "lower" => Trusted(driver, clock_is_high, pins)
  BY <1>1, <1>8 DEF Correct, Between
<1>12. Correct'
  <2>1. edges' = Clocked(driver', v, bit' - 1) /\ instream' = Sampled(v, bit' - 1)
    BY <1>1, <1>5, <1>6, <1>7
  <2>2. stage' = "lower" => Trusted(driver', clock_is_high', pins')
    BY <1>1, <1>11
  <2> QED BY <1>1, <1>9, <2>1, <2>2 DEF Correct, Amiss, During, Between
<1>13. call = NoCall
  BY <1>1 DEF Shape, Between
<1> QED BY <1>1, <1>3, <1>10, <1>12, <1>13

(* A call returns: without an error the chain has seen its bits and TDO is *)
(* in its places.                                                          *)
LEMMA ReturnStep ==
  ASSUME CallsOfChainCommands, CableInv, Return
  PROVE  /\ Shape' /\ Correct'
         /\ call \in ProperCall /\ call' = NoCall /\ UNCHANGED <<driver, edges, unseen>>
         /\ ~reply'.err /\ ~unseen =>
              /\ edges = Clocked(driver, call, Count)
              /\ reply'.bits = IF call.read THEN [i \in 1 .. Count |-> {i}] ELSE <<>>
<1>1. /\ Shape /\ Correct /\ stage = "done" /\ Answer(err)
      /\ UNCHANGED <<driver, edges, pins, clock_is_high, err, stale>>
  BY DEF Return, CableInv, burst
<1>2. /\ stage' = "idle" /\ call' = NoCall /\ reply'.err = err /\ UNCHANGED unseen
      /\ reply'.bits = IF call.read THEN SubSeq(instream, 1, Count) ELSE <<>>
  BY <1>1 DEF Answer
<1>3. call \in ProperCall /\ Count = Len(call.packets) /\ Count \in Nat \ {0}
  BY <1>1, CallInProgress DEF During
<1>4. Shape'
  BY <1>1, <1>2 DEF Shape, Between, During
<1>5. Correct'
  BY <1>1, <1>2 DEF Correct, Amiss, Between, During
<1>6. ASSUME ~err, ~unseen
      PROVE  /\ edges = Clocked(driver, call, Count)
             /\ call.read => SubSeq(instream, 1, Count) = [i \in 1 .. Count |-> {i}]
  <2>1. bit - 1 = Count
    BY <1>1, <1>3, <1>6 DEF Correct, Amiss
  <2>2. edges = Clocked(driver, call, Count) /\ (call.read => instream = Sampled(call, Count))
    BY <1>1, <1>6, <2>1 DEF Correct, Amiss, During
  <2>3. ASSUME call.read PROVE SubSeq(instream, 1, Count) = [i \in 1 .. Count |-> {i}]
    <3> DEFINE W == Words(call) * WordBits
               S == SubSeq(instream, 1, Count)
               T == [i \in 1 .. Count |-> {i}]
    <3>1. W \in Nat /\ Count <= W
      BY <1>3, CallFacts
    <3>2. instream = [x \in 1 .. W |-> IF x <= Count THEN {x} ELSE {}]
      BY <2>2, <2>3 DEF Sampled
    <3> HIDE DEF W
    <3>3. /\ instream \in Seq(SUBSET Nat) /\ Len(instream) = W
          /\ \A i \in 1 .. Count : instream[i] = {i} /\ instream[i] \in SUBSET Nat
      BY <1>3, <3>1, <3>2
    <3>4. /\ S \in Seq(SUBSET Nat) /\ Len(S) = Count
          /\ \A i \in 1 .. Count : S[i] = instream[i]
      BY <1>3, <3>1, <3>3, SubSeqProperties
    <3>5. T \in Seq(SUBSET Nat) /\ Len(T) = Count /\ \A i \in 1 .. Count : T[i] = {i}
      BY <1>3
    <3> HIDE DEF S, T
    <3>6. S = T
      BY <3>3, <3>4, <3>5, SeqEqual
    <3> QED BY <3>6 DEF S, T
  <2> QED BY <2>2, <2>3
<1> QED BY <1>1, <1>2, <1>3, <1>4, <1>5, <1>6

(* Initialisation and closing are between calls.                           *)
LEMMA InitStepStep ==
  ASSUME CableInv, InitStep \/ CloseCable
  PROVE  Shape' /\ Correct' /\ UNCHANGED <<driver, interface>>
<1>1. /\ Shape /\ Correct /\ stage \in {"init", "idle"}
      /\ stage' \in Between
      /\ UNCHANGED <<driver, interface, pins, clock_is_high, bit, err, stale>>
  BY DEF InitStep, CloseCable, CableInv, Between, burst
<1>2. Shape'
  BY <1>1 DEF Shape, Between, During, interface
<1>3. Correct'
  BY <1>1 DEF Correct, Amiss, Between, During, interface
<1> QED BY <1>1, <1>2, <1>3

(* Every step of a driver but Return keeps the invariant, and goes on or   *)
(* ends with an error.                                                     *)
LEMMA DriverStepFacts ==
  ASSUME CallsOfChainCommands, CableInv, DriverStep
  PROVE  Return \/ (Shape' /\ Correct' /\ (Onward \/ Reports))
<1>1. CASE DropClock
  BY <1>1, DropClockStep
<1>2. CASE RaiseClock
  BY <1>2, RaiseClockStep
<1>3. CASE BlasterWriteStream
  <2>1. By("libusb") /\ ~call.read
    BY <1>3 DEF BlasterWriteStream
  <2>2. CASE LowerClock
    BY <2>2, LowerClockStep
  <2>3. CASE ClockIsLow
    BY <2>1, <2>3, ClockIsLowStep
  <2>4. CASE Reopen
    BY <2>4, ReopenStep
  <2>5. CASE WriteBurst(ThisTransfer)
    BY <2>1, <2>5, WriteBurstStep
  <2>6. CASE LoseBurst
    BY <2>1, <2>6, LoseBurstStep
  <2> QED BY <1>3, <2>2, <2>3, <2>4, <2>5, <2>6 DEF BlasterWriteStream
<1>4. CASE BlasterReadStream
  <2>1. By("libusb") /\ call.read
    BY <1>4 DEF BlasterReadStream
  <2>2. CASE LowerClock
    BY <2>2, LowerClockStep
  <2>3. CASE ClockIsLow
    BY <2>1, <2>3, ClockIsLowStep
  <2>4. CASE Reopen
    BY <2>4, ReopenStep
  <2>5. CASE ReadBurst(ThisTransfer)
    BY <2>1, <2>5, ReadBurstStep
  <2>6. CASE \E n \in 0 .. ThisTransfer : ReadAnswer(ThisTransfer, n)
    BY <2>1, <2>6, ReadAnswerStep
  <2>7. CASE GiveUp("closed")
    BY <2>7, GiveUpStep
  <2> QED BY <1>4, <2>2, <2>3, <2>4, <2>5, <2>6, <2>7 DEF BlasterReadStream
<1>5. CASE Ft245WriteStream
  <2>1. ~call.read
    BY <1>5 DEF Ft245WriteStream
  <2>2. CASE LowerClock
    BY <2>2, LowerClockStep
  <2>3. CASE WriteBurst(ThisTransfer)
    BY <2>1, <2>3, WriteBurstStep
  <2>4. CASE LoseBurst
    BY <2>1, <2>4, LoseBurstStep
  <2> QED BY <1>5, <2>2, <2>3, <2>4 DEF Ft245WriteStream
<1>6. CASE Ft245ReadStream
  <2>1. call.read
    BY <1>6 DEF Ft245ReadStream
  <2>2. CASE LowerClock
    BY <2>2, LowerClockStep
  <2>3. CASE ReadBurst(ThisTransfer)
    BY <2>1, <2>3, ReadBurstStep
  <2>4. CASE \E n \in 0 .. ThisTransfer : ReadAnswer(ThisTransfer, n)
    BY <2>1, <2>4, ReadAnswerStep
  <2>5. CASE GiveUp(device)
    BY <2>5, GiveUpStep
  <2> QED BY <1>6, <2>2, <2>3, <2>4, <2>5 DEF Ft245ReadStream
<1>7. CASE Return
  BY <1>7
<1> QED BY <1>1, <1>2, <1>3, <1>4, <1>5, <1>6, <1>7 DEF DriverStep

(* The invariant holds initially.                                          *)
LEMMA InitCable ==
  ASSUME Init
  PROVE  CableInv
<1>1. driver \in DOMAIN Table
  BY DriversAssumption DEF Init
<1>2. pins \in Pins
  <2>1. pins \in [tck : BOOLEAN, tdi : {0}, tms : BOOLEAN, trst : {FALSE}]
    BY DEF Init
  <2>2. {0} \subseteq Nat /\ {FALSE} \subseteq BOOLEAN
    OBVIOUS
  <2> QED BY <2>1, <2>2 DEF Pins
<1>4. edges \in Seq(Wire)
  BY DEF Init
<1>5. Shape
  <2>1. reply.err \in BOOLEAN
    BY DEF Init, NoReply
  <2> QED BY <1>1, <1>2, <1>4, <2>1 DEF Init, Shape, Between, During
<1>3. Correct
  BY DEF Init, Correct, Amiss, Trusted, Between, During
<1> QED BY <1>3, <1>5 DEF CableInv

(* The invariant holds when nothing happens.                               *)
LEMMA StillCable ==
  ASSUME CableInv, UNCHANGED vars
  PROVE  CableInv'
<1> USE DEF vars, interface, burst, transfer
<1>1. Shape'
  BY DEF CableInv, Shape, ByteShift, By, Count
<1>2. Correct'
  BY DEF CableInv, Correct, Amiss, Count
<1> QED BY <1>1, <1>2 DEF CableInv

(* The invariant holds in every behaviour.                                 *)
THEOREM CallsKeepToTheBits == CallsOfChainCommands /\ Spec => []CableInv
<1> SUFFICES ASSUME CallsOfChainCommands PROVE Spec => []CableInv
  OBVIOUS
<1>1. Init => CableInv
  BY InitCable
<1>2. CableInv /\ [Next]_vars => CableInv'
  <2> SUFFICES ASSUME CableInv, [Next]_vars PROVE CableInv'
    OBVIOUS
  <2>1. CASE InitStep \/ CloseCable
    BY <2>1, InitStepStep DEF CableInv
  <2>2. CASE \E c \in Calls : (reply.err => Len(c.packets) = 1) /\ Begin(c)
    BY <2>2, BeginStep DEF CableInv
  <2>3. CASE DriverStep
    BY <2>3, DriverStepFacts, ReturnStep DEF CableInv
  <2>4. CASE ConnectionLost
    BY <2>4, ConnectionLostStep DEF CableInv
  <2>5. CASE UNCHANGED vars
    BY <2>5, StillCable
  <2> QED BY <2>1, <2>2, <2>3, <2>4, <2>5 DEF Next
<1> QED BY <1>1, <1>2, PTL DEF Spec

-----------------------------------------------------------------------------
(* A driver that forgets an error in a write has bytes and leftovers.      *)
LEMMA ForgetsOnlyLeftovers ==
  ASSUME UnseenFailures, stage' = AfterBurst(bit'), Bytes(call) > 0,
         NEW e \in BOOLEAN, Forgets(e), ByteShift, driver \in DOMAIN Table,
         UNCHANGED <<driver, call>>
  PROVE  UnseenFailures'
<1>1. unseen' => unseen \/ HasLeftovers(call)
  BY DEF Forgets, AfterBurst
<1>2. ~By("socket") /\ ~By("file")
  BY TableTypes DEF By
<1> QED BY <1>1, <1>2 DEF UnseenFailures, By, ByteShift

(* Setting the pins and reading TDO fail unseen only with a parallel port, *)
(* with ft245, and in a read.                                              *)
LEMMA PinsFailSeen ==
  ASSUME UnseenFailures, driver \in DOMAIN Table, NEW p,
         Out(p) \/ (call.read /\ InOut(p)), UNCHANGED <<driver, call>>
  PROVE  UnseenFailures'
<1>1. By("port") \/ By("socket") \/ By("file") \/ By("libusb") \/ By("libftdi")
  BY TableTypes DEF By
<1>2. CASE By("port") \/ By("libftdi")
  BY <1>2 DEF UnseenFailures, By
<1>3. CASE By("socket")
  <2>1. SocketOut(p)
    BY <1>3 DEF Out, InOut, By, SocketInOut
  <2> QED BY <1>3, <2>1 DEF SocketOut, NothingUnseen, UnseenFailures, By
<1>4. CASE By("file")
  <2>1. FileOut(p)
    BY <1>4 DEF Out, InOut, By, FileInOut
  <2> QED BY <1>4, <2>1 DEF FileOut, NothingUnseen, UnseenFailures, By
<1>5. CASE By("libusb") /\ Out(p)
  <2>1. BlasterOut(p)
    BY <1>5 DEF Out, By
  <2> QED BY <1>5, <2>1 DEF BlasterOut, CannotOpen, NothingUnseen, UnseenFailures, By
<1>6. CASE By("libusb") /\ call.read
  BY <1>6 DEF UnseenFailures, By
<1> QED BY <1>1, <1>2, <1>3, <1>4, <1>5, <1>6

(* The failures that go unseen: none with a simulator; with usbblaster     *)
(* those of a read, and of a write whose bytes are followed by leftovers   *)
(* (cable_usbblaster.cpp, where the error of the bytes is forgotten).      *)
THEOREM OnlyTheseGoUnseen == CallsOfChainCommands /\ Spec => []UnseenFailures
<1> SUFFICES ASSUME CallsOfChainCommands PROVE Spec => []UnseenFailures
  OBVIOUS
<1>1. Init => UnseenFailures
  BY DEF Init, UnseenFailures
<1>2. CableInv /\ UnseenFailures /\ [Next]_vars => UnseenFailures'
  <2> SUFFICES ASSUME CableInv, UnseenFailures, [Next]_vars PROVE UnseenFailures'
    OBVIOUS
  <2>1. driver \in DOMAIN Table /\ Shape
    BY DEF CableInv, Shape
  <2>2. ASSUME UNCHANGED <<driver, call, unseen>> PROVE UnseenFailures'
    BY <2>2 DEF UnseenFailures, By
  <2>3. ASSUME call' = NoCall PROVE UnseenFailures'
    BY <2>3 DEF UnseenFailures
  <2>4. CASE DropClock \/ LowerClock
    BY <2>1, <2>4, PinsFailSeen DEF DropClock, LowerClock
  <2>5. CASE RaiseClock
    BY <2>1, <2>5, PinsFailSeen DEF RaiseClock, WriteBit, ReadWriteBit
  <2>6. CASE WriteBurst(ThisTransfer) \/ LoseBurst
    <3>1. PICK e \in BOOLEAN : Forgets(e)
      BY <2>1, <2>6 DEF WriteBurst, LoseBurst, Shape
    <3>2. stage' = AfterBurst(bit') /\ Bytes(call) > 0 /\ ByteShift /\ UNCHANGED <<driver, call>>
      BY <2>1, <2>6 DEF WriteBurst, LoseBurst, Shape
    <3> QED BY <2>1, <3>1, <3>2, ForgetsOnlyLeftovers
  <2>7. CASE ReadBurst(ThisTransfer)
    BY <2>2, <2>7 DEF ReadBurst
  <2>8. ASSUME NEW n, ReadAnswer(ThisTransfer, n), call.read PROVE UnseenFailures'
    <3>1. ByteShift /\ UNCHANGED <<driver, call>>
      BY <2>1, <2>8 DEF ReadAnswer, Shape
    <3>2. ~By("socket") /\ ~By("file")
      BY <2>1, <3>1, TableTypes DEF By
    <3> QED BY <2>8, <3>1, <3>2 DEF UnseenFailures, By
  <2>9. CASE ClockIsLow
    BY <2>2, <2>9 DEF ClockIsLow, interface
  <2>10. ASSUME NEW d, GiveUp(d) PROVE UnseenFailures'
    BY <2>3, <2>10 DEF GiveUp, Answer
  <2>11. CASE Reopen
    BY <2>2, <2>10, <2>11 DEF Reopen, interface
  <2>12. CASE Return \/ ConnectionLost
    BY <2>3, <2>12 DEF Return, ConnectionLost, Answer
  <2>13. CASE InitStep \/ CloseCable \/ UNCHANGED vars
    BY <2>2, <2>13 DEF InitStep, CloseCable, vars, interface
  <2>14. CASE \E c \in Calls : (reply.err => Len(c.packets) = 1) /\ Begin(c)
    BY <2>14 DEF Begin, UnseenFailures
  <2>15. CASE BlasterWriteStream
    BY <2>4, <2>6, <2>9, <2>11, <2>15 DEF BlasterWriteStream
  <2>16. CASE BlasterReadStream
    BY <2>4, <2>7, <2>8, <2>9, <2>10, <2>11, <2>16 DEF BlasterReadStream
  <2>17. CASE Ft245WriteStream
    BY <2>4, <2>6, <2>17 DEF Ft245WriteStream
  <2>18. CASE Ft245ReadStream
    BY <2>4, <2>7, <2>8, <2>10, <2>18 DEF Ft245ReadStream
  <2> QED BY <2>4, <2>5, <2>12, <2>13, <2>14, <2>15, <2>16, <2>17, <2>18 DEF Next, DriverStep
<1>3. Spec => []CableInv
  BY CallsKeepToTheBits
<1> QED BY <1>1, <1>2, <1>3, PTL DEF Spec

-----------------------------------------------------------------------------
(* The call of driver d, as JtagCable sees it, when a is asked for.        *)
Seen(d, a, c) ==
    IF c = NoCall THEN NoCall
    ELSE [read |-> a.read,
          packets |-> [i \in 1 .. Len(c.packets) |->
                         {OnWires(d, v.packets[i]) : v \in Versions(d, a)}]]

(* The substitution of Promise, by its name.                               *)
LEMMA SeenIsMapped ==
  ASSUME driver \in DOMAIN Table
  PROVE  Seen(driver, asked, call) =
           IF call = NoCall THEN NoCall
           ELSE [read |-> asked.read,
                 packets |-> [i \in 1 .. Count |-> {Wired(c.packets[i]) : c \in Shifted(asked)}]]
<1>1. Shifted(asked) = Versions(driver, asked)
  BY TableTypes DEF Shifted, Versions
<1> QED BY <1>1 DEF Seen, Count, Wired, OnWires

(* What JtagCable sees of a call is a call, of as many bits; the bits that *)
(* are shifted out are among those it may see.                             *)
LEMMA SeenFacts ==
  ASSUME CallsOfChainCommands, driver \in DOMAIN Table, NEW a \in Calls, NEW c \in Shifted(a)
  PROVE  /\ Seen(driver, a, c) # NoCall /\ Seen(driver, a, c).read = c.read
         /\ Len(Seen(driver, a, c).packets) = Len(c.packets)
         /\ \A i \in 1 .. Len(c.packets) :
              Clocked(driver, c, Len(c.packets))[i] \in Seen(driver, a, c).packets[i]
         /\ Len(Clocked(driver, c, Len(c.packets))) = Len(c.packets)
<1>1. /\ c \in Versions(driver, a) /\ c \in ProperCall /\ a \in ProperCall
      /\ c.read = a.read /\ Len(c.packets) = Len(a.packets)
  BY VersionsFacts
<1>2. c # NoCall /\ Len(c.packets) \in Nat /\ a.read \in BOOLEAN
  BY <1>1, CallFacts
<1> DEFINE L == Len(c.packets)
           s == [i \in 1 .. L |-> {OnWires(driver, v.packets[i]) : v \in Versions(driver, a)}]
<1>3. \A v \in Versions(driver, a) : \A i \in 1 .. L : OnWires(driver, v.packets[i]) \in Wire
  <2> SUFFICES ASSUME NEW v \in Versions(driver, a), NEW i \in 1 .. L
               PROVE  OnWires(driver, v.packets[i]) \in Wire
    OBVIOUS
  <2>1. v \in Shifted(a)
    BY TableTypes DEF Shifted, Versions
  <2>2. v \in ProperCall /\ Len(v.packets) = L
    BY <1>1, <2>1, VersionsFacts
  <2>3. v.packets[i] \in Wire
    BY <2>2, CallFacts
  <2> QED BY <2>3, TableTypes DEF OnWires, Wire
<1>4. s \in Seq(SUBSET Wire) /\ Len(s) = L
  <2>1. s \in [1 .. L -> SUBSET Wire]
    BY <1>3
  <2> HIDE DEF s, L
  <2>2. L \in Nat
    BY <1>2 DEF L
  <2>3. DOMAIN s = 1 .. L /\ s \in Seq(SUBSET Wire)
    BY <2>1, <2>2
  <2> QED BY <2>2, <2>3, LenProperties
<1>5. Seen(driver, a, c) = [read |-> a.read, packets |-> s]
  BY <1>2 DEF Seen
<1>6. Seen(driver, a, c) \in AnyPromise
  <2> HIDE DEF s
  <2> QED BY <1>2, <1>4, <1>5 DEF AnyPromise
<1>7. \A i \in 1 .. L : OnWires(driver, c.packets[i]) \in s[i]
  BY <1>1
<1>8. \A i \in 1 .. L : Clocked(driver, c, L)[i] = OnWires(driver, c.packets[i])
  BY DEF Clocked
<1>9. Len(Clocked(driver, c, L)) = L
  <2>1. L \in 0 .. Len(c.packets)
    BY <1>2
  <2> HIDE DEF L
  <2> QED BY <1>1, <2>1, ClockedFacts
<1> HIDE DEF s
<1> QED BY <1>1, <1>4, <1>5, <1>6, <1>7, <1>8, <1>9, NoCallAssumption

(* A call of the driver is one of JtagCable.                               *)
LEMMA PromiseBegin ==
  ASSUME CallsOfChainCommands, driver \in DOMAIN Table, driver' = driver,
         call = NoCall, asked' \in Calls, call' \in Shifted(asked'),
         edges' = <<>>, ~unseen', Shifted(asked') = Shifted(asked)'
  PROVE  Promise!Begin
<1>1. Seen(driver, asked', call') # NoCall
  BY SeenFacts
<1>2. driver' \in DOMAIN Table
  OBVIOUS
<1> QED BY <1>1 DEF Promise!Begin, Seen, Count, Wired, OnWires, Versions, Shifted, ByteShift, By

(* A step in the middle of a call is a Clock of JtagCable.                 *)
LEMMA PromiseClock ==
  ASSUME CallsOfChainCommands, CableInv, call # NoCall, Onward
  PROVE  Promise!Clock
<1>1. /\ driver \in DOMAIN Table /\ asked \in Calls /\ call \in Versions(driver, asked)
      /\ driver' \in DOMAIN Table
  BY DEF CableInv, Shape, Onward, Between
<1>2. call \in Shifted(asked)
  BY <1>1, TableTypes DEF Versions, Shifted
<1>3. Seen(driver, asked, call) # NoCall
  BY <1>1, <1>2, SeenFacts
<1>4. (IF call = NoCall THEN NoCall
       ELSE [read |-> asked.read,
             packets |-> [i \in 1 .. Count |-> {Wired(c.packets[i]) : c \in Shifted(asked)}]])
      # NoCall
  BY <1>1, <1>3, SeenIsMapped
<1>5. UNCHANGED (IF call = NoCall THEN NoCall
       ELSE [read |-> asked.read,
             packets |-> [i \in 1 .. Count |-> {Wired(c.packets[i]) : c \in Shifted(asked)}]])
  BY DEF Onward, Count, Wired, Shifted, ByteShift, By
<1> QED BY <1>4, <1>5 DEF Promise!Clock, Onward

(* An end with an error, or after a failure unseen, or with all bits       *)
(* clocked and returned, is a Return of JtagCable.                         *)
LEMMA PromiseReturn ==
  ASSUME CallsOfChainCommands, CableInv, call # NoCall, call' = NoCall,
         UNCHANGED <<edges, unseen>>,
         ~reply'.err /\ ~unseen =>
           /\ edges = Clocked(driver, call, Count)
           /\ reply'.bits = IF call.read THEN [i \in 1 .. Count |-> {i}] ELSE <<>>
  PROVE  Promise!Return
<1>1. driver \in DOMAIN Table /\ asked \in Calls /\ call \in Versions(driver, asked)
  BY DEF CableInv, Shape, Between
<1>2. call \in Shifted(asked)
  BY <1>1, TableTypes DEF Versions, Shifted
<1> DEFINE s == Seen(driver, asked, call)
<1>3. /\ s # NoCall /\ s.read = call.read /\ Len(s.packets) = Count
      /\ \A i \in 1 .. Count : Clocked(driver, call, Count)[i] \in s.packets[i]
      /\ Len(Clocked(driver, call, Count)) = Count
  BY <1>1, <1>2, SeenFacts DEF Count
<1>4. s = IF call = NoCall THEN NoCall
          ELSE [read |-> asked.read,
                packets |-> [i \in 1 .. Count |-> {Wired(c.packets[i]) : c \in Shifted(asked)}]]
  BY <1>1, SeenIsMapped
<1> HIDE DEF s
<1>5. ~reply'.err /\ ~unseen =>
        /\ Promise!Clocked(s) /\ reply'.bits = Promise!Samples(s)
  BY <1>3 DEF Promise!Clocked, Promise!Samples
<1> QED BY <1>3, <1>4, <1>5 DEF Promise!Return

(* What JtagCable does not see.                                            *)
LEMMA PromiseStill ==
  ASSUME UNCHANGED <<driver, interface>>
  PROVE  UNCHANGED Promise!vars
BY DEF Promise!vars, interface, Wired, Count, Shifted, ByteShift, By

(* Every step of a driver is a step of JtagCable.                          *)
LEMMA DriverPromise ==
  ASSUME CallsOfChainCommands, CableInv, DriverStep \/ ConnectionLost
  PROVE  Promise!Next
<1>1. call # NoCall
  <2>1. stage \in During
    BY DEF DriverStep, ConnectionLost, DropClock, RaiseClock, BlasterWriteStream,
           BlasterReadStream, Ft245WriteStream, Ft245ReadStream, Return, LowerClock, ClockIsLow,
           Reopen, WriteBurst, LoseBurst, ReadBurst, ReadAnswer, During
  <2> QED BY <2>1, CallInProgress DEF CableInv
<1>2. CASE Return
  <2>1. /\ call' = NoCall /\ UNCHANGED <<edges, unseen>>
        /\ ~reply'.err /\ ~unseen =>
             /\ edges = Clocked(driver, call, Count)
             /\ reply'.bits = IF call.read THEN [i \in 1 .. Count |-> {i}] ELSE <<>>
    BY <1>2, ReturnStep
  <2>2. Promise!Return
    BY <1>1, <2>1, PromiseReturn
  <2> QED BY <2>2 DEF Promise!Next
<1>3. CASE Reports
  <2>1. Promise!Return
    BY <1>1, <1>3, PromiseReturn DEF Reports
  <2> QED BY <2>1 DEF Promise!Next
<1>4. CASE Onward
  <2>1. Promise!Clock
    BY <1>1, <1>4, PromiseClock
  <2> QED BY <2>1 DEF Promise!Next
<1> QED BY <1>2, <1>3, <1>4, DriverStepFacts, ConnectionLostStep

(* A call that reports success has made exactly one clock for each of its  *)
(* bits, in their order and with TMS where it belongs, and has returned    *)
(* each bit of TDO in its place (the streams of cable_usbblaster.cpp,      *)
(* cable_ft245.cpp and cable_driver_common.cpp), unless a transfer of that *)
(* very call went wrong unseen; TDI is open for the last bit of a stream       *)
(* longer than a word that goes out bit by bit.                            *)
THEOREM DriversKeepThePromise == CallsOfChainCommands /\ Spec => ImplementsJtagCable
<1> SUFFICES ASSUME CallsOfChainCommands PROVE Spec => ImplementsJtagCable
  OBVIOUS
<1>1. Init => Promise!Init
  BY DEF Init, Promise!Init
<1>2. CableInv /\ [Next]_vars => [Promise!Next]_(Promise!vars)
  <2> SUFFICES ASSUME CableInv, [Next]_vars PROVE Promise!Next \/ UNCHANGED Promise!vars
    OBVIOUS
  <2>1. CASE InitStep \/ CloseCable
    BY <2>1, InitStepStep, PromiseStill
  <2>2. CASE \E c \in Calls : (reply.err => Len(c.packets) = 1) /\ Begin(c)
    <3>1. PICK c \in Calls : (reply.err => Len(c.packets) = 1) /\ Begin(c)
      BY <2>2
    <3>2. call = NoCall /\ edges' = <<>> /\ ~unseen' /\ UNCHANGED driver
      BY <3>1, BeginStep
    <3>3. driver \in DOMAIN Table
      BY DEF CableInv, Shape
    <3>4. asked' = c /\ call' \in Shifted(asked') /\ Shifted(asked') = Shifted(asked)'
      BY <3>1, <3>2 DEF Begin, Shifted, ByteShift, By
    <3>5. Promise!Begin
      BY <3>2, <3>3, <3>4, PromiseBegin
    <3> QED BY <3>5 DEF Promise!Next
  <2>3. CASE DriverStep \/ ConnectionLost
    BY <2>3, DriverPromise
  <2>4. CASE UNCHANGED vars
    BY <2>4, PromiseStill DEF vars
  <2> QED BY <2>1, <2>2, <2>3, <2>4 DEF Next
<1>3. Spec => []CableInv
  BY CallsKeepToTheBits
<1> QED BY <1>1, <1>2, <1>3, PTL DEF Spec, ImplementsJtagCable, Promise!Spec
=============================================================================

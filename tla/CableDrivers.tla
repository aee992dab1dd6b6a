---------------------------- MODULE CableDrivers ----------------------------
(***************************************************************************)
(* The JTAG cable drivers of GdbToJtagBridge, down to each transfer with   *)
(* the cable: parallel ports, simulators, and the two drivers of the       *)
(* USB-Blaster.  All of them raise and lower TCK one transfer at a time    *)
(* (cable_driver_common.cpp); the USB-Blaster can also shift whole bytes,  *)
(* but then TMS stays as it is and TCK must be low beforehand.  The data   *)
(* of a stream is the position of each of its bits, and a bit read is the  *)
(* number of the clock TDO was sampled for: what matters is which bit ends *)
(* up where.                                                               *)
(***************************************************************************)
EXTENDS Integers, Sequences, FiniteSets, FiniteSetsExt

CONSTANTS
    Drivers,          \* the cables modelled, by name
    Calls,            \* the calls of chain_commands: [read, packets]
    NoCall,
    ByteBits,         \* 8
    WordBytes,        \* bytes in a uint32_t
    MaxWrite,         \* USBBLASTER_MAX_WRITE
    MaxRead,          \* USBBLASTER_MAX_READ
    Retries           \* empty answers until a driver gives up

ASSUME CableAssumption ==
    /\ {ByteBits, WordBytes, MaxWrite, MaxRead, Retries} \subseteq Nat \ {0}
    /\ ByteBits > 1

VARIABLES
    driver,           \* jtag_cable_in_use
    stage,            \* what the driver does next
    setup,            \* initialisation steps done
    asked,            \* the call as chain_commands makes it
    call,             \* the call with the bits that are shifted out
    edges, reply,     \* see JtagCable
    unseen,           \* history: a transfer of the call has failed, or has
                      \* got an earlier answer, and the call will not say so
    pins,             \* the levels at the JTAG connector
    clock_is_high,    \* usbblaster's idea of TCK
    device,           \* "open", "closed", "unclaimed": h_device
    bit,              \* the next bit of the call
    answer,           \* TDO bits the cable has sampled but not yet delivered
    received,         \* bytes_received, of the burst in progress
    total,            \* total_bytes_received
    stale,            \* bytes of an earlier answer may come first
    retries, err, instream

interface == <<asked, call, edges, reply, unseen>>
transfer == <<answer, received, total, retries>>
burst == <<transfer, stale>>
vars == <<driver, stage, setup, interface, pins, clock_is_high, device, bit,
          burst, err, instream>>

Pins == [tck : BOOLEAN, tdi : Nat, tms : BOOLEAN, trst : BOOLEAN]
WordBits == ByteBits * WordBytes
Count == Len(call.packets)

-----------------------------------------------------------------------------
(* The driver tables: how a cable is reached, whether it has a TRST line,  *)
(* and what its initialisation asks of the system (each step may fail).    *)
Xpc3 == [by |-> "port", trst |-> FALSE]
Bb2  == [by |-> "port", trst |-> FALSE]
Xess == [by |-> "port", trst |-> TRUE]
Vpi  == [by |-> "socket", trst |-> TRUE]
RtlSim == [by |-> "file", trst |-> TRUE]
UsbBlaster == [by |-> "libusb", trst |-> FALSE]
Ft245 == [by |-> "libftdi", trst |-> FALSE]

Table == [xpc3 |-> Xpc3, bb2 |-> Bb2, xess |-> Xess, vpi |-> Vpi,
          rtl_sim |-> RtlSim, usbblaster |-> UsbBlaster, ft245 |-> Ft245]

ASSUME DriversAssumption == Drivers \subseteq DOMAIN Table

By(how) == Table[driver].by = how

PortInit == <<"open", "PPCLAIM", "PPSETMODE">>
SocketInit == <<"socket", "gethostbyname", "connect">>
FileInit == <<"create gdb_in">>
LibusbInit == <<"enumerate", "usb_open", "enumerate after reset",
                "open_cable", "read_firmware_version">>
LibftdiInit == <<"ftdi_init", "ftdi_usb_open", "ftdi_usb_reset",
                 "set latency", "get latency">>
InitSteps == [port |-> PortInit, socket |-> SocketInit, file |-> FileInit,
              libusb |-> LibusbInit, libftdi |-> LibftdiInit][Table[driver].by]

InitStep ==
    /\ stage = "init"
    /\ \/ /\ setup' = setup + 1
          /\ stage' = IF setup' = Len(InitSteps) THEN "idle" ELSE "init"
          /\ device' = IF InitSteps[setup'] \in {"open_cable", "ftdi_usb_open"}
                         THEN "open" ELSE device
       \/ stage' = "failed" /\ UNCHANGED <<setup, device>>
    /\ UNCHANGED <<driver, interface, pins, clock_is_high, bit, burst, err, instream>>

-----------------------------------------------------------------------------
(* The wires.  A rising edge of TCK is what the chain sees; TDO then shows *)
(* the next bit once TCK has fallen.                                       *)
Wired(p) == [tdi |-> p.tdi, tms |-> p.tms, trst |-> p.trst /\ Table[driver].trst]
Levels(p, tck) ==
    [tck |-> tck, tdi |-> p.tdi, tms |-> p.tms, trst |-> p.trst /\ Table[driver].trst]

Apply(p) ==
    /\ pins' = p
    /\ edges' = IF p.tck /\ ~pins.tck THEN Append(edges, Wired(p)) ELSE edges
Lost == UNCHANGED <<pins, edges>>

Tdo == IF pins.tck THEN Len(edges) ELSE Len(edges) + 1
Put(i, bits) == instream' = [instream EXCEPT ![i] = @ \cup bits]

-----------------------------------------------------------------------------
(* out_func: set the pins; inout_func: sample TDO, then set the pins.      *)
NothingUnseen == UNCHANGED <<unseen, stale>>
Unseen == unseen' = TRUE
MayComeLate == stale' \in {stale, TRUE}

(* The kernel may refuse an ioctl: nobody looks.                           *)
PortOut(p) ==
    /\ (Apply(p) /\ UNCHANGED unseen) \/ (Lost /\ Unseen)
    /\ UNCHANGED <<stale, err, device, clock_is_high>>
PortInOut(p) ==
    /\ \/ Apply(p) /\ Put(bit, {Tdo}) /\ UNCHANGED unseen
       \/ Lost /\ Put(bit, {Tdo}) /\ Unseen
       \/ (Apply(p) \/ Lost) /\ UNCHANGED instream /\ Unseen
    /\ UNCHANGED <<stale, err, device, clock_is_high>>

(* A simulator acknowledges each byte before the next one is sent; see     *)
(* ConnectionLost for the failures.                                        *)
SocketOut(p) == Apply(p) /\ NothingUnseen /\ UNCHANGED <<err, device, clock_is_high>>
SocketInOut(p) == Put(bit, {Tdo}) /\ SocketOut(p)
FileOut(p) == Apply(p) /\ NothingUnseen /\ UNCHANGED <<err, device, clock_is_high>>
FileInOut(p) == Put(bit, {Tdo}) /\ FileOut(p)

(* cable_usbblaster_open_cable: a device whose interface was not claimed   *)
(* in time counts as open from then on, and every transfer with it fails.  *)
CannotOpen ==
    /\ device = "closed" /\ device' \in {"closed", "unclaimed"}
    /\ Lost /\ err' = TRUE /\ NothingUnseen /\ UNCHANGED clock_is_high
Opened == IF device = "closed" THEN "open" ELSE device

\* Mutant: the result of the transfer is not looked at.
BlasterOutUnchecked(p) ==
    \/ CannotOpen
    \/ /\ device' = Opened /\ clock_is_high' = p.tck /\ UNCHANGED <<err, stale>>
       /\ (device' = "open" /\ Apply(p) /\ UNCHANGED unseen) \/ (Lost /\ Unseen)
BlasterOut(p) ==
    \/ CannotOpen
    \/ /\ device' = Opened /\ clock_is_high' = p.tck /\ NothingUnseen
       /\ \/ device' = "open" /\ Apply(p) /\ UNCHANGED err
          \/ Lost /\ err' = TRUE

(* Without an answer after all its tries the driver takes a zero, and      *)
(* reports success: the answer may come when the next one is due.          *)
BlasterInOut(p) ==
    \/ CannotOpen /\ UNCHANGED instream
    \/ /\ device' = "closed" /\ Lost /\ err' = TRUE /\ NothingUnseen
       /\ UNCHANGED <<clock_is_high, instream>>
    \/ /\ Opened = "open" /\ Apply(p) /\ clock_is_high' = p.tck
       /\ \/ device' = "open" /\ Put(bit, {Tdo}) /\ NothingUnseen /\ UNCHANGED err
          \/ /\ device' = "closed" /\ err' = TRUE
             /\ MayComeLate /\ UNCHANGED <<instream, unseen>>
          \/ /\ device' = "open" /\ Unseen
             /\ MayComeLate /\ UNCHANGED <<err, instream>>

Ft245Out(p) ==
    /\ (Apply(p) /\ UNCHANGED unseen) \/ (Lost /\ Unseen)
    /\ UNCHANGED <<stale, err, device, clock_is_high>>
\* On an error the byte sent is taken for the byte received.
Ft245InOut(p) ==
    /\ \/ Apply(p) /\ Put(bit, {Tdo}) /\ NothingUnseen
       \/ (Apply(p) \/ Lost) /\ UNCHANGED instream /\ Unseen /\ MayComeLate
    /\ UNCHANGED <<err, device, clock_is_high>>

Out(p) ==
    CASE By("port") -> PortOut(p)
      [] By("socket") -> SocketOut(p)
      [] By("file") -> FileOut(p)
      [] By("libusb") -> BlasterOut(p)
      [] By("libftdi") -> Ft245Out(p)

InOut(p) ==
    CASE By("port") -> PortInOut(p)
      [] By("socket") -> SocketInOut(p)
      [] By("file") -> FileInOut(p)
      [] By("libusb") -> BlasterInOut(p)
      [] By("libftdi") -> Ft245InOut(p)

-----------------------------------------------------------------------------
(* Calls.  The bits at the end that do not fill a byte go out one by one,  *)
(* and so does the byte that ends with TMS set.                            *)
\* Mutant: the byte that ends with TMS set goes out with the others.
BytesWithTms(c) == Len(c.packets) \div ByteBits
Bytes(c) ==
    LET full == Len(c.packets) \div ByteBits
    IN  IF Len(c.packets) % ByteBits = 0 /\ c.packets[Len(c.packets)].tms
          THEN full - 1 ELSE full
HasLeftovers(c) == Len(c.packets) > Bytes(c) * ByteBits
ByteShift == By("libusb") \/ By("libftdi")
Words(c) == (Len(c.packets) + WordBits - 1) \div WordBits

(* What chain_commands asks of a cable: at least one bit, TMS with the     *)
(* last bit only, and no longer a read than one answer of the USB-Blaster. *)
Wire == [tdi : Nat, tms : BOOLEAN, trst : BOOLEAN]
AnyCall == [read : BOOLEAN, packets : Seq(Wire)]
AnyPromise == [read : BOOLEAN, packets : Seq(SUBSET Wire)]   \* see JtagCable

ASSUME NoCallAssumption == NoCall \notin AnyCall /\ NoCall \notin AnyPromise

CallsOfChainCommands ==
    \A c \in Calls :
      /\ c \in AnyCall /\ c.packets # <<>>
      /\ \A i \in 1 .. Len(c.packets) : c.packets[i].tms => i = Len(c.packets)
      /\ c.read => Bytes(c) <= MaxRead

(* The last bit of a stream that goes out bit by bit is shifted down by    *)
(* the length of the stream, not by its place in the word: beyond a word   *)
(* that is undefined, and TDI shows it or something else.                  *)
Shifted(c) ==
    {c} \cup IF ~ByteShift /\ Len(c.packets) > WordBits
               THEN {[c EXCEPT !.packets[Len(c.packets)].tdi = 0]} ELSE {}

NoReply == [err |-> FALSE, bits |-> <<>>]

Begin(c) ==
    /\ stage = "idle"
    /\ asked' = c /\ call' \in Shifted(c)
    /\ edges' = <<>> /\ unseen' = FALSE /\ reply' = NoReply
    /\ stage' = IF ByteShift /\ Bytes(c) > 0 THEN "lower" ELSE "drop"
    /\ bit' = 1 /\ err' = FALSE /\ answer' = <<>>
    /\ received' = 0 /\ total' = 0 /\ retries' = 0
    /\ instream' = [i \in 1 .. Words(c) * WordBits |-> {}]
    /\ UNCHANGED <<driver, setup, pins, clock_is_high, device, stale>>

Answer(e) ==
    /\ stage' = "idle" /\ call' = NoCall /\ UNCHANGED <<asked, unseen>>
    /\ reply' = [err |-> e, bits |-> IF call.read THEN SubSeq(instream, 1, Count) ELSE <<>>]

Return ==
    /\ stage = "done" /\ Answer(err)
    /\ UNCHANGED <<driver, setup, edges, pins, clock_is_high, device, bit, burst,
                   err, instream>>

(* cable_driver_common.cpp: for each bit TCK falls with the new data, and  *)
(* rises again.                                                            *)
DropClock ==
    /\ stage = "drop"
    /\ Out(Levels(call.packets[bit], FALSE))
    /\ stage' = "raise"
    /\ UNCHANGED <<driver, setup, asked, call, reply, bit, transfer, instream>>

WriteBit == ~call.read /\ Out(Levels(call.packets[bit], TRUE)) /\ UNCHANGED instream
ReadWriteBit == call.read /\ InOut(Levels(call.packets[bit], TRUE))

\* Mutant: the loop ends before the last bit, which needs its own code.
RaiseClockButLast ==
    /\ stage = "raise"
    /\ WriteBit \/ ReadWriteBit
    /\ bit' = bit + 1
    /\ stage' = IF bit + 1 >= Count THEN "done" ELSE "drop"
    /\ UNCHANGED <<driver, setup, asked, call, reply, transfer>>
RaiseClock ==
    /\ stage = "raise"
    /\ WriteBit \/ ReadWriteBit
    /\ bit' = bit + 1
    /\ stage' = IF bit = Count THEN "done" ELSE "drop"
    /\ UNCHANGED <<driver, setup, asked, call, reply, transfer>>

(* Writing to the simulator or reading from it throws.                     *)
ConnectionLost ==
    /\ By("socket") /\ stage \in {"drop", "raise"}
    /\ Answer(TRUE)
    /\ UNCHANGED <<driver, setup, edges, pins, clock_is_high, device, bit, burst,
                   err, instream>>

-----------------------------------------------------------------------------
(* Byte-shift mode.  The cable (external) makes ByteBits clocks for each   *)
(* byte, with TMS as it is, and leaves TCK low; it counts on TCK being low *)
(* at the start.                                                           *)
Burst(n) ==
    LET last == bit + n * ByteBits - 1
        lost == IF pins.tck THEN 1 ELSE 0
        seen(i) == [tdi |-> call.packets[i].tdi, tms |-> pins.tms, trst |-> pins.trst]
    IN  /\ edges' = edges \o [i \in 1 .. n * ByteBits - lost |-> seen(bit + lost + i - 1)]
        /\ pins' = [pins EXCEPT !.tck = FALSE, !.tdi = call.packets[last].tdi]
        /\ answer' = IF call.read
                       THEN answer \o [i \in 1 .. n * ByteBits |-> Len(edges) + i - lost]
                       ELSE answer

BytesLeft == Bytes(call) - (bit - 1) \div ByteBits
ThisTransfer == Min({BytesLeft, IF call.read THEN MaxRead ELSE MaxWrite})

\* Once the bytes are out: the leftovers, or the end of the call.
AfterBurst(b) == IF (b - 1) \div ByteBits < Bytes(call) THEN "burst"
                 ELSE IF HasLeftovers(call) THEN "drop" ELSE "done"
ClockNow == IF By("libusb") /\ stage' # "burst" THEN FALSE ELSE clock_is_high

\* The leftovers of a write are a write of their own, with their own error:
\* that of the bytes before them is forgotten.
Forgets(e) == /\ err' = (e /\ stage' # "drop")
              /\ unseen' = (unseen \/ (e /\ stage' = "drop"))

LowerClock ==
    /\ stage = "lower"
    /\ Out([tck |-> FALSE, tdi |-> 0, tms |-> FALSE, trst |-> Table[driver].trst])
    /\ stage' = "burst"
    /\ UNCHANGED <<driver, setup, asked, call, reply, bit, transfer, instream>>

WriteBurst(n) ==
    /\ stage = "burst" /\ Burst(n)
    /\ bit' = bit + n * ByteBits /\ stage' = AfterBurst(bit')
    /\ Forgets(err)
    /\ clock_is_high' = ClockNow
    /\ UNCHANGED <<driver, setup, asked, call, reply, device, received, total, stale,
                   retries, instream>>

\* Mutant: the driver tries again for as long as it takes.
RetryLostBurst ==
    /\ stage = "burst"
    /\ device' = "closed" /\ err' = TRUE
    /\ UNCHANGED <<driver, stage, setup, interface, pins, clock_is_high, bit, burst,
                   instream>>
\* A burst that cannot be written, or not all of it, is the last one.
LoseBurst ==
    /\ stage = "burst"
    /\ (Lost /\ UNCHANGED answer) \/ \E n \in 1 .. ThisTransfer : Burst(n)
    /\ bit' = Bytes(call) * ByteBits + 1 /\ stage' = AfterBurst(bit')
    /\ Forgets(TRUE)
    /\ clock_is_high' = ClockNow
    /\ UNCHANGED <<driver, setup, asked, call, reply, device, received, total, stale,
                   retries, instream>>

ReadBurst(n) ==
    /\ stage = "burst" /\ Burst(n)
    /\ stage' = "answer" /\ received' = 0 /\ retries' = 0
    /\ UNCHANGED <<driver, setup, asked, call, reply, unseen, clock_is_high, device, bit,
                   total, stale, err, instream>>

(* The bytes of one answer take their lane in the word from their position *)
(* in this answer, not from that in the stream.                            *)
Lane(i) == ((total + i) \div WordBytes) * WordBytes + (i % WordBytes)
Place(n) ==
    instream' = [x \in DOMAIN instream |-> instream[x] \cup
                   {answer[q[1] * ByteBits + q[2]] : q \in
                      {q \in (0 .. n - 1) \X (1 .. ByteBits) :
                         Lane(q[1]) * ByteBits + q[2] = x}}]

\* n of the bytes wanted have come, or bytes of an earlier answer.  The driver
\* reports success when it gives up, and does not see that what comes after
\* a part that does not end at a word takes the wrong lanes.
ReadAnswer(wanted, n) ==
    /\ stage = "answer"
    /\ n <= wanted - received /\ n * ByteBits <= Len(answer)
    /\ answer' = SubSeq(answer, n * ByteBits + 1, Len(answer))
    /\ received' = received + n /\ total' = total + n
    /\ retries' = IF n > 0 THEN 0 ELSE retries + 1
    /\ \E others \in {FALSE, stale} :
         LET over == received' = wanted \/ retries' = Retries
         IN  /\ IF others THEN UNCHANGED instream ELSE Place(n)
             /\ IF over THEN bit' = bit + wanted * ByteBits /\ stage' = AfterBurst(bit')
                        ELSE UNCHANGED <<bit, stage>>
             /\ unseen' = \/ unseen \/ others
                          \/ over /\ received' < wanted
                          \/ ~over /\ received' % WordBytes # 0
    /\ IF received' < wanted THEN MayComeLate ELSE UNCHANGED stale
    /\ clock_is_high' = ClockNow
    /\ UNCHANGED <<driver, setup, asked, call, edges, reply, pins, device, err>>

GiveUp(dev) ==
    /\ Answer(TRUE) /\ device' = dev /\ MayComeLate
    /\ UNCHANGED <<driver, setup, edges, pins, clock_is_high, bit, transfer, err, instream>>

-----------------------------------------------------------------------------
(* The two USB-Blaster drivers.                                            *)
ClockIsLow ==
    /\ stage = "lower" /\ ~clock_is_high
    /\ stage' = "burst"
    /\ UNCHANGED <<driver, setup, interface, pins, clock_is_high, device, bit,
                   burst, err, instream>>

Reopen ==
    /\ stage = "burst" /\ device = "closed"
    /\ \/ /\ device' = "open"
          /\ UNCHANGED <<driver, stage, setup, interface, pins, clock_is_high, bit,
                         burst, err, instream>>
       \/ \E d \in {"closed", "unclaimed"} : GiveUp(d)

BlasterWriteStream ==
    /\ By("libusb") /\ call # NoCall /\ ~call.read
    /\ \/ clock_is_high /\ LowerClock
       \/ ClockIsLow
       \/ Reopen
       \/ device = "open" /\ WriteBurst(ThisTransfer)
       \/ device # "closed" /\ LoseBurst

BlasterReadStream ==
    /\ By("libusb") /\ call # NoCall /\ call.read
    /\ \/ clock_is_high /\ LowerClock
       \/ ClockIsLow
       \/ Reopen
       \/ device = "open" /\ ReadBurst(ThisTransfer)
       \/ \E n \in 0 .. ThisTransfer : ReadAnswer(ThisTransfer, n)
       \/ device # "closed" /\ stage \in {"burst", "answer"} /\ GiveUp("closed")

Ft245WriteStream ==
    /\ By("libftdi") /\ call # NoCall /\ ~call.read
    /\ LowerClock \/ WriteBurst(ThisTransfer) \/ LoseBurst

Ft245ReadStream ==
    /\ By("libftdi") /\ call # NoCall /\ call.read
    /\ \/ LowerClock
       \/ ReadBurst(ThisTransfer)
       \/ \E n \in 0 .. ThisTransfer : ReadAnswer(ThisTransfer, n)
       \/ stage \in {"burst", "answer"} /\ GiveUp(device)

-----------------------------------------------------------------------------
(* cable_close: only the connection with a simulator is closed.            *)
CloseCable ==
    /\ stage = "idle"
    /\ stage' = "closed"
    /\ UNCHANGED <<driver, setup, interface, pins, clock_is_high, device, bit,
                   burst, err, instream>>

Init ==
    /\ driver \in Drivers
    /\ stage = "init" /\ setup = 0
    /\ asked = NoCall /\ call = NoCall /\ edges = <<>> /\ unseen = FALSE
    /\ reply = NoReply
    /\ pins \in [tck : BOOLEAN, tdi : {0}, tms : BOOLEAN, trst : {FALSE}]
    /\ clock_is_high = TRUE /\ device = "closed" /\ bit = 1
    /\ answer = <<>> /\ received = 0 /\ total = 0 /\ stale = FALSE /\ retries = 0
    /\ err = FALSE /\ instream = <<>>

DriverStep ==
    \/ DropClock
    \/ RaiseClock
    \/ BlasterWriteStream
    \/ BlasterReadStream
    \/ Ft245WriteStream
    \/ Ft245ReadStream
    \/ Return

\* Every operation of chain_commands starts with single bits, so after an
\* error the next call is one.
Next ==
    \/ InitStep
    \/ \E c \in Calls : (reply.err => Len(c.packets) = 1) /\ Begin(c)
    \/ DriverStep
    \/ ConnectionLost
    \/ CloseCable

Spec == Init /\ [][Next]_vars

\* The program runs on until the call is over; a simulator answers.
FairSpec == Spec /\ WF_vars(DriverStep)

-----------------------------------------------------------------------------
(* A call that reports success has clocked its bits, all of them, in order *)
(* and with TMS where it belongs, and has returned each bit of TDO in its  *)
(* place: whatever the cable, unless a transfer of this very call failed   *)
(* unseen, or was answered with bytes of an earlier one. TDI is open for   *)
(* the last bit of a stream whose shift is undefined.                      *)
Promise == INSTANCE JtagCable WITH
    call <- IF call = NoCall THEN NoCall
            ELSE [read |-> asked.read,
                  packets |-> [i \in 1 .. Count |->
                                 {Wired(c.packets[i]) : c \in Shifted(asked)}]]
ImplementsJtagCable == Promise!Spec

(* No failure goes unseen with a simulator, nor, with usbblaster, in a     *)
(* write that is all single bits or all bytes: it goes unseen when the     *)
(* leftovers of a write forget it, and when an answer does not come.       *)
UnseenFailures ==
    unseen /\ call # NoCall =>
      /\ ~By("socket") /\ ~By("file")
      /\ By("libusb") => call.read \/ (Bytes(call) > 0 /\ HasLeftovers(call))

(* No call hangs: the loops that wait for an answer give up.               *)
CallsReturn == call # NoCall ~> call = NoCall
=============================================================================

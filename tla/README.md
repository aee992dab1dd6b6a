# Formal models of the OR10 system

This directory is the verification project of the OR10 OpenRISC system that
lives in `Scripts/Projects/OpenRISC/OR10` of this repository: a CPU, its bus and
memory, the JTAG debug path, and GdbToJtagBridge, the program that lets GDB
drive it all. TLA+ modules model the parts, TLC checks them on small instances,
and TLAPS proves the central results for every value of the parameters.

The rest of the repository (the `orbuild` scripts, makefile templates and
report tools) is inventoried below and not modelled yet.

## 1. Inventory

Paths are relative to `Scripts/Projects/OpenRISC/OR10` unless they start with
`Scripts/` or are at the root.

| Component | State it keeps | Operations | Interacts with |
|---|---|---|---|
| CPU core, `CPU/or10_top.v` | state machine, PC, SR, EPCR/ESR/EEAR, PIC mask, tick timer, debug unit registers, GPRs | fetch, execute, exceptions, interrupts, sleep, stall, single-step, debug accesses | bus master; interrupt lines; debug strobe/acknowledge |
| TAP submodule, `JTAG/tap_or10.v` | shift registers, command, four-state FSM | IS_CPU_STALLED, NOP, read and write SPR | strobe/acknowledge with the CPU across two clock domains |
| Synchronisers, `Misc/clock_domain_crossing_synchroniser.v` | two flip-flops | shift | between TAP and CPU |
| JTAG TAP, `JTAG/tap_top.v` | 16-state FSM, instruction register | TMS/TDI/TDO | cable on one side, TAP submodule on the other |
| Wishbone switch, `WishboneSwitch/simple_wishbone_switch.v` | lock, consistency-check flags | arbitration, routing | two masters (Ethernet DMA first, CPU second), three slaves |
| RAM, `Memory/*.v` | four byte memories, registered answer | read, write with byte selects, error out of bounds | slave of the switch |
| UART, `UART/*.v` | FIFOs, registers | OpenCores 16550 | slave, interrupt line |
| GDB server, `GdbToJtagBridge/src/rsp_*.cpp` | client socket, run state, step mode, copies of breakpoint registers, poll speed | attach, detach, continue, step, break, poll, breakpoints, memory, registers, monitor commands | GDB over TCP, CPU over SPR accesses |
| SPR and memory access, `dbg_api.cpp` | the local variables of a range access, the address register in the CPU | SPR read, write, write-and-read, stall status, memory ranges of any alignment | CPU over JTAG, one command at a time |
| JTAG commands and start-up, `chain_commands.cpp`, `main.cpp`, `or10_debug_module.h` | discovered ID codes, selected target, opcodes and register lengths | reset the TAPs, enumerate the chain, check and select the target, shift IR and DR | cable API below, dbg_api above |
| Cable drivers, `cable_api.cpp`, `cable_drivers/*.cpp` | device handles, level of TCK, bytes still to come | single bits and streams, with or without TMS on the last bit, with or without reading TDO | parallel ports, USB devices, a simulation over TCP or files |
| RSP packets, `rsp_packet_helpers.cpp`, `rsp_string_helpers.*` | input buffer, checksum, `is_first_packet` | read a packet, send a packet and wait for its acknowledgement, hexadecimal numbers | the client's socket |
| Command line and BSDL files, `main.cpp`, `bsdl*.cpp`, `string_utils.cpp` | options, parsed BSDL entries | parse | start-up |
| Test bench, `TestBench/*` | wiring | clocks, sockets to the simulator | everything |
| `orbuild`, `Scripts/MakeModules`, `Scripts/Tools/RunAndReport.sh`, `GenerateBuildReport.pl` | files on disk | generate a makefile, run and report sub-builds | make |
| `Scripts/Tools/RotateDir.pl` | slot directories | rename, delete, count | file system |
| `Scripts/GitSvnMirror` | git-svn mirrors | update, report | git svn |

What is hard in this system: two clock domains with wires that are not
synchronised and rely on an ordering of events; clients that leave in the
middle; resets of one half; a CPU in which many tasks write the same registers
at one clock edge, the last one winning; interrupts, debugger and single-step
meeting at the same edge; a bus whose masters compete and whose slaves answer
one clock late; ranges of memory that begin and end within a word, over an
interface of whole words that may fail at any of them; a chain of devices told
apart by a stream of bits without framing; USB transfers that come back in parts
or not at all; a program that is killed in the middle of a shift and started
again over the same hardware; and a single-threaded server between a person, a CPU that stops
when it likes, and a socket that carries requests and acknowledgements alike.
`PROJECT.json` lists each of these hazards at its line with the properties that
would catch it.

What makes each part correct:

* debug port: every command takes effect once, its reply is the one of that
  effect, no wire is sampled while it changes, no reply is lost;
* CPU: exceptions are precise, interrupt handlers are not interrupted, a stalled
  CPU is frozen, one step is one instruction, bus requests are stable, interrupts
  and debugger are served;
* bus: every request is performed once and alone, and is answered to its master;
* bridge: what it believes about the CPU is true, GDB hears of every stop, and the
  CPU is let go when GDB leaves;
* requests: GDB's packets run whole and once, each gets one reply, a write stores
  its bytes and no others, and "OK" means that all of them are stored;
* JTAG: what serves serves the right TAP, each call makes the CPU carry out its
  command once and returns that command's answer, no sequence of kills and
  restarts makes the debug submodule latch any other command, and no call abandons
  an operation, since until the CPU notices it may write to the wrong place;
* cables: a call that reports success has clocked its bits once, in order, with
  TMS where it belongs, and returned each bit of TDO in its place.

## 2. Modules

| Module | Models |
|---|---|
| `SprCommands` | the SPR commands of the debug port, the registers they reach, what they read and write |
| `SprPort` | abstract: each command performed in one step between issue and reply |
| `DebugPort`, `MCDebugPort`, `DebugPort_proofs` | TAP submodule, synchronisers and debug states of the CPU |
| `Or1kArch` | abstract: one step per instruction, precise exceptions, interrupts between instructions |
| `Or10Core`, `MCOr10Core` | the CPU state machine, clock by clock |
| `Or10Core_proofs`, `Or10Arch_proofs` | proofs about it: registers and bus, debugger and timer, the refinement of Or1kArch |
| `BusRequests` | masters, requests, memory, the effect and the answer of a request |
| `AtomicBus` | abstract: requests performed one at a time, in one step |
| `WishboneSwitch`, `MCWishboneSwitch`, `WishboneSwitch_proofs` | switch, RAM, slow slaves, unused ports |
| `GdbBridge`, `MCGdbBridge`, `GdbBridge_proofs` | server loop and CPU control of GdbToJtagBridge |
| `RspPackets` | packets, acknowledgements and GDB as their other end, character by character |
| `DbgMemory` | memory ranges over word accesses |
| `RspAccess`, `MCRspAccess`, `RspAccess_proofs` | both, with the handlers for memory, registers, queries and "monitor" commands |
| `RemoteMemory` | abstract: the memory GDB is promised, byte by byte |
| `JtagCable` | abstract: a cable that clocks the bits of a call |
| `CableDrivers`, `MCCables`, `CableDrivers_proofs` | parallel, simulator and USB-Blaster drivers, transfer by transfer |
| `JtagTap` | TAP controller, sequences of clocks |
| `DebugCalls` | abstract: one command to the CPU per call |
| `JtagChain`, `MCJtagChain`, `JtagChain_proofs` | chain, start of the program, SPR commands, kills and restarts |

### DebugPort

`TapTick` is a rising edge of the JTAG clock: the four states of tap_or10.v
(`current_cpu_state`), with the latched command, the strobe, the unsynchronised
request wires (`cpu_request`) and the reply. `CpuTick` is a rising edge of the
Wishbone clock: the debug states of or10_top.v, the unsynchronised answer wires
(`dbg_answer`) and the acknowledge. The clocks have no relation, so their edges
interleave freely; strobe, acknowledge and stall bit pass through two
flip-flops each (`stb_ff`, `ack_ff`, `stalled_ff`). Register values that are
undefined in the Verilog are `X`, and a property that says a wire is stable says
that it is not `X` when read. The rest of the CPU is one state, `RUNNING`.
`Issued` is what the client asks for; `PatientClient = FALSE` lets it leave
Shift-DR and start again at any moment; `ResetWhen` says when the CPU may be
reset. `seen_stalled` is history: the stall bits seen since the last reply.

### Or10Core

One `Clock` action per state and outcome, each a posedge of `wb_clk_i`. A task
`foo` of the Verilog is an operator `Foo(m)` that reads the registers before the
edge (`cpu`) and adds its nonblocking assignments to those after it (`m`), so
"the last assignment wins" is function composition. `pic`, `stb` and `op` are the
inputs. The memory is external: it answers a fetch with any instruction of
`Program`. "alu" stands for all instructions that take one clock and write a
register. Left out because nothing modelled depends on them: contents of GPRs
and memory, EEAR, the latched write address of the debugger, decoding. There is
one watchpoint register. Slaves acknowledge one clock after the request at the
earliest, as the RAM does; an error may come at once; `wb_rty` is treated as
`wb_err`, as the CPU does. What the debugger asks for differs between a stalled
(`DebugOps`) and a running CPU (`RunningOps`), as in GdbToJtagBridge. `handler`
and `done` are history: which handler runs, and how many instructions were
completed since the CPU was resumed.

### WishboneSwitch

The combinational lines of the switch are operators (`MasterToConnectNow`,
`SlaveToConnectNow`, `SelectedAnswer`), the branches of its clocked block are
actions. `Edge(ready)` is what the masters and slaves do at the same edge:
a master keeps its request until it is answered; a slave registers its answer and
does not begin again while it answers (`is_beginning_of_wishbone_operation`);
slaves in `Slow` may insert wait states (an external stand-in for the UART and
the Ethernet controller, which are not modelled); ports in `Unused` refuse at
once, wired as the switch's header recommends.

### GdbBridge

One action per handler. A handler makes several JTAG accesses, yet may be one
step: while the target runs, the CPU can act only before the access that stalls
it, which is the first one, and after the one that resumes it, which is the last.
A CPU that is stalled does not move (`StalledCpuIsFrozen` of Or10Core). The
exception is a lost JTAG connection, which can cut a handler in two: `JtagLost`
leaves any combination of the registers a handler writes, which is more than the
code can produce. `put_packet` waits for GDB's `+` on the same socket that
carries requests and breaks, so that `requests` is one queue and awaiting the
acknowledgement is a state of its own (`in_request`, `in_poll`): which of the two
decides who catches an exception. Registers, memory, queries and monitor
commands are one packet kind that is answered; `bad` is any packet whose handler
throws. GDB itself is external: it sends one command at a time, a break while
the target runs, acknowledges replies, and may disappear. `inserted` is what GDB
believes to be armed. The debug unit's registers are the record `cpu`.

### RspPackets, DbgMemory, RspAccess, RemoteMemory

The path of a request, below the control of the CPU that GdbBridge has.
`RspPackets` is the protocol character by character: the states of
`get_packet_2` (`start`, `body`, `sum1`, `sum2`), `put_packet` with its wait for
one character (`acking`, and `acking_monitor` within a "monitor" command, which
has a handler of its own), `is_first_packet`, and the GDB at the other end, which
times out and repeats itself, leaves, or speaks through a serial line that loses
a character. `DbgMemory` is the two range routines of dbg_api.cpp; an action is
one access over JTAG and the computation up to the next one. `RspAccess` is both
together with the handlers of rsp_or10.cpp for memory, registers, queries and
"monitor" commands: which fields they parse, what they refuse, what they answer
and what a thrown error does. `started` and `answered` are history: the executions
and the replies of the last request. `RemoteMemory` is abstract: GDB's view of the
memory as bytes. `PatientMonitor` says whether GDB also times out while a "monitor"
command is being served (see section 5). A register value or an address is one
hexadecimal digit, of which only the values that the instance has are told apart
(`DataDigit`, `StartAddress`), and the names of "monitor" commands are one letter. A
byte is two digits of `DigitBase` values (16 in the code), a word four bytes. The numbers
of a request are 32 bits wide in the code and wrap in its checks, so a length digit
from `a` to `f` stands for one of the lengths that begin at 2^31, and twice such a
length wraps (`ReadMemIsLegal`, `WriteMemIsLegal`); an address digit from `a` on is one
of the last addresses, from where a range wraps to 0. A reply that outgrows the buffer
it is written into ends the model's program, as what happens then is undefined.
RemoteMemory stores whole words in their order; a failed write has stored the words up
to the one that failed, and no part of another.

### CableDrivers and JtagCable

The driver table says how each of seven cables is reached; a call of
chain_commands.cpp (`Begin`) becomes transfers: `DropClock` and `RaiseClock` per
bit for the bit-banging drivers and for the leftovers of the USB drivers,
`BlasterWriteStream`, `BlasterReadStream` and their ft245 counterparts for bursts
of whole bytes, `ReadAnswer` for the parts in which TDO comes back. The bits of a
stream are their positions, and a bit of TDO is the number of the clock it was
sampled at, so that JtagCable can say that every bit went out once, in order, and
came back in its place. Any transfer may fail, and what each driver makes of that is
part of its action: it reports an error, or nobody looks. The history variable `unseen`
says that a transfer of the call has gone wrong and the call will not say so: an ioctl
or a transfer of ft245 whose result is ignored, an answer that stays out, comes in
parts that do not end at a word, or is that of an earlier transfer (`stale`), the error
of a burst that the leftovers of a write forget. JtagCable promises nothing of such a
call, and everything of all others, those after it included; `UnseenFailures` says which
calls of which drivers they can be. `asked` is the call as it is made and `call` the one
that goes out: they differ in the last bit of TDI of a stream longer than a word that
goes out bit by bit, which is the result of an undefined shift (`Shifted`), and JtagCable
takes either value of that bit.

### JtagTap, JtagChain, DebugCalls

`JtagTap` is the TAP controller and the clock sequences of chain_commands.cpp.
`JtagChain` composes the chain of TAPs (instruction, bypass, ID code registers of
tap_top.v), the debug submodule of tap_or10.v on the JTAG side of the handshake,
and the program: `ResetTap` to `SanityCheck` are the start (main.cpp and
`jtag_enumerate_chain`), `Call` to `Return` one `dbg_cpu0_*` call. `todo` holds the
clocks the program is about to make, `pc` what it does after them; `Clock` makes
one of them, in every TAP at once. `Fail` is an error or the end of the program at
any clock, `Start` a new start over whatever state the hardware is in.
`CpuAnswers` stands for DebugPort. `DebugCalls` is abstract: one command, one
execution, one answer. `debug_cmd` is the opcode of option `-c`, any number of any
length: nothing checks it, so that the program may serve with IDCODE, BYPASS or no
instruction of the TAP selected (`Instruction`). `abandoned` says that an operation was
given up before its answer, by a reset of the TAP or on another way through Update-DR,
and that the CPU may not have noticed (tap_or10.v:32-37); `CpuRealises` is when it does.
What the CPU does in between is not modelled. `NoStrayCommand` says instead that no call
ever opens that window, and allows a call only outside it: `Call` waits for
`CpuRealises`, on the assumption that the start of the next program, which is over a
hundred clocks of the JTAG, lasts longer. A start that takes place while the CPU waits for a
slave that does not answer is outside that assumption. `NoStrayCommand` allows one exception that the hardware has:
if the program is killed at the first clocks of the very first command, the shift
register still holds bits nobody ever set (`X`), and what they are as a command is
open.

`ImplementsDebugCalls` and `Responds` are about the calls of a program that has DEBUG
selected (`Debugged`): with the opcode of another instruction the CPU carries out nothing,
as `ServesTheTarget` and section 5 say.

## 3. Runs

| Run | What it checks | Bounds |
|---|---|---|
| `debug_port` | types, stable request and answer wires, no stale stall bit, refinement of SprPort | one plain SPR, three words, all commands, no reset |
| `debug_port_rough` | with clients that abandon operations and resets while the acknowledge is low, replies still come once the client is patient again | three commands, one for each path through the CPU |
| `or10_exceptions` | types, register file port, refinement of Or1kArch, stable bus | 3 addresses, 20 instructions, interrupts, no debugger |
| `or10_debug` | stalled CPU frozen, single step exact, refinement, with a debugger at work | 7 instructions, 11 debugger operations, watchpoint |
| `or10_tick` | no match of the tick timer is lost in any of its modes, interrupts and debugger are served | timer of 2 values, sleep, divisions, slow loads |
| `wishbone_switch` | types, slaves answer only when asked, refinement of AtomicBus, every master is served | 2 masters, RAM, slow slave, unused port, out-of-bounds address, partial writes |
| `gdb_bridge` | stopped means stalled, exact copies, breakpoints armed, CPU released, assertions, stops reach GDB | 2 breakpoint registers for 3 addresses, unbounded sequence of clients |
| `gdb_break_race` | deviation: a break that crosses a stop report ends the bridge | as above |
| `rsp_access` | types with the bound of the input buffer, requests run whole and once, one reply each, refinement of RemoteMemory, every request is answered or the connection closed | 38 requests followed by 4, memory of 5 words of which one may fail, 1 timeout, buffer of 16 |
| `cables` | refinement of JtagCable, which failures go unseen, calls return | all 7 drivers, 14 calls of up to 7 bits, bytes of 2 bits, words of 2 bytes, bursts of 2 (write) and 3 bytes (read) |
| `jtag_chain` | types, the right target is served, no stray command, refinement of DebugCalls, start and calls end | 19 chains and command lines with up to 3 devices, 3 of them with an opcode that is not DEBUG, 4 commands, scaled registers |
| `jtag_after_error` | deviation: after a cable error the next operation does not start in Run-Test/Idle | as above |

Why the bounds are enough to be interesting. DebugPort: three words give an odd
and an even value for the stall bit and two word addresses; the control of the
handshake does not look at values otherwise. Or10Core: with three addresses,
program, exception vectors and interrupt vectors differ, and the PC wraps; shifts
of zero, one and several steps, division with and without overflow and every way
an instruction can end are in the programs; a timer of two values wraps and
matches. The switch code is written for exactly two masters and three slaves.
GdbBridge: two registers are the least with a "first free" that is not the
"only" one, three addresses the least for which insertion fails. RspAccess: five
words let a range have a first, a middle and a last word, wrap, and not meet itself; the requests
cover every alignment and length for which the routines branch, and each refusal
of the handlers; the second request shows what the first has left behind.
CableDrivers: two-bit bytes and words of two bytes keep every distinction of the
code (leftovers or none, one burst or several, a last byte with TMS, a lane in its
word). JtagChain: ID codes of one marker bit, three manufacturer bits and two
others (for 1, 11 and 20), an end marker of three bits (for 7), one bit of SPR
number and two of data (for 16 and 32), four devices at the most (for 1024, reached
with TDO stuck at 0); the code walks through the same states with each, only more
often. The instruction register has its four bits.

Fairness. Clocks run, and where the clock is not enough: slaves and the divider
answer eventually (`WF_vars(Answers)`; the bus has no time-out and the CPU waits
for ever otherwise), a slow slave does not insert wait states for ever, a JTAG
client ends its strobe as tap_or10.v does, the patient client goes on clocking
until it has the reply (`wait_for_cpu_ack` loops without limit), `poll()`
returns or times out, and GDB acknowledges replies while it is there. For
CableDrivers, JtagChain and RspAccess: the program runs on until its call is
over, since nothing in it waits for another thread (`DriverStep`, `ProgramStep`,
the steps of the bridge), the CPU answers a command (`CpuAnswers`, which is what
DebugPort shows), and a GDB that is sent an acknowledgement or a reply reads it.
`RequestsAreAnswered` assumes nothing of its timeouts. `EveryMasterServed`
assumes nothing about arbitration: it claims service of a lower priority only if
the higher ones leave the bus again and again, since the switch documents its
fixed priorities. `InterruptIsServed` excuses the debugger: each of its accesses
repeats the fetch, and a debugger that never pauses starves the program.

Every property of a passing run has a mutant in the modules ("Mutant:" comments):
a plausible slip in the code that the run detects.

## 4. Proofs

All are checked by tlapm with SMT, Zenon and the temporal backend, for every
value of the constants under the modules' ASSUMEs, which state that constants are
of the right kind (numbers are naturals, sets are disjoint where the code has
distinct codes).

* `DebugPort_proofs`, from `HandshakeInv`: an acknowledged strobe and its
  acknowledge travel through the flip-flops in order (`StrobeInv`, `AckInv`), the
  request wires hold the command from the strobe to the acknowledge
  (`RequestInv`), the answer wires hold the answer from the acknowledge on
  (`AnswerInv`), the stall flip-flops hold bits seen since the last reply
  (`StallStatusInv`). The stability properties alone are not inductive: they say
  what holds at the moment of sampling, the invariant says why it comes to hold.
  Proved: types, `RequestStable`, `AnswerStable`, `StallStatusNotStale`, and that
  the port implements SprPort. The hypotheses are part of the statements: the
  client is patient, and resets come only while the acknowledge is low
  (`ResetWhen # "always"`); for the refinement there is no reset after power-up.
* `Or10Core_proofs`, from `CoreInv`: `Settled` says what every task of the Verilog must
  leave behind (registers in their ranges, and the Wishbone outputs of the state it
  enters); to it the invariant adds that the write enable of the register file falls on the first
  clock of a fetch, before any slave can answer. `BusMatchesState` alone is not
  inductive: a task that builds on the registers of another needs the ranges, and
  `RegisterFilePortFree` needs to know when the answer can come. Each task has a
  lemma, so that a clock edge is the composition of the lemmas of its tasks. Proved: types,
  `BusMatchesState` (which no run checks: `WishboneStable` shows its effect), `RegisterFilePortFree`, `WishboneStable`, for any program, debugger,
  vector table and sizes of the counters.
  In the same module, `StalledCpuIsFrozen` and `TickIsRecorded` follow from `CoreInv`,
  task by task. `SingleStepIsExact` needs `StepInv`: `stop_at_next_instruction_2` is set
  only while the stepped instruction is under way, and then how many instructions
  have been completed. Its hypothesis `SteppedByDebugger` is part of the statement:
  only the debugger arms the mode, and only while the CPU is stalled (as
  GdbToJtagBridge does, which writes DMR1 when it holds the target to be stopped), and the
  program has no `l.trap`, with which the property is false (section 5).
* `Or10Arch_proofs`: Spec implies the refinement of Or1kArch, with no hypothesis. Besides
  `CoreInv` it takes `ArchInv`: in a state of several clocks the instruction in
  progress is one of the program and of the kind of the state, and a division under
  way has its flags already cleared, so that the last clock has the instruction to
  show for the step.
* `WishboneSwitch_proofs`, from `Inv`: the locked master has a request, and only the
  slave that its request is routed to can be answering. Priorities need a least
  element of a nonempty set of numbers, which comes from the well-foundedness
  of `<`. Proved: types, `SlavesAnswerWhenAsked`, and the refinement of AtomicBus,
  for any number of masters and slaves, any address map and any requests.
* `GdbBridge_proofs`, from `Inv`: stopped means stalled, the copies are exact, the
  poll speed is slow when stopped, and a CPU that has stopped under a running
  target left its reason. They are proved together because each handler decides
  by one of them to preserve the others. Proved: `StoppedMeansStalled`,
  `CopiesAreExact`, `CpuIsReleased`, `AssertionsHold`, for any number of registers
  and addresses and whether or not GDB repeats itself.
  In the same module, from `SocketInv`: the bridge clears a register only for a
  packet, so that the invariant is about what may be on its way between the two:
  one command and GDB waiting for what comes of it, one acknowledgement and the
  bridge waiting for it, no command between a break and the acknowledgement of a
  stop, no reply that claims a breakpoint that is not armed. It rests on the copies
  being exact. Proved: `InsertedIsArmed`, for any number of registers and addresses,
  with whatever earlier sessions have left in the registers; and, from the same
  invariant and one on the order in the socket (`TrafficInv`), the types with their
  bound: no more than five packets are ever on their way to the bridge, one command,
  one acknowledgement, one end of the connection, and a break on either side of the
  acknowledgement.
* `CableDrivers_proofs`, from `CableInv`: of the call in progress the chain has seen
  exactly the clocks of the bits before `bit`, and the bits of TDO read so far are in
  their places, unless an error is on record or a transfer has gone wrong unseen
  (`Correct`). The levels at the connector outlast the call: a burst starts with TCK, TMS
  and TRST low, and what usbblaster believes of TCK is true, after every call that does
  not report an error, a call of several bits never being the first after one that does
  (it fails before, or `tap_reset` comes first). To know where a burst ends, where it leaves
  the leftovers and which errors are forgotten the position must be that of a byte
  (`Shape`). The rest is arithmetic: whole bytes within a stream, lanes of bytes within
  words, for every width of a byte and a word. Proved: all seven drivers implement
  JtagCable, and `UnseenFailures`, for any calls, sizes of transfers and number of
  retries, whatever fails. The hypothesis is part of the statements: the calls are such as
  chain_commands.cpp makes (`CallsOfChainCommands`: at least one bit, TMS with the last
  bit only, no read longer than one answer of the USB-Blaster, of whose 62 bytes no caller
  needs more than a few). `MCCables` has TLC evaluate it on its calls.

* `RspAccess_proofs`. The types (`AccessTypeCorrect`) are worth a proof here since the
  variables include the receive buffer, which a packet of any length must not overflow,
  the checksum, whose two digits must be those of a byte, and the words that
  `dbg_cpu0_write_mem` puts together from four bytes. The refinement of RemoteMemory
  (`ImplementsPromisedMemory`) follows from `MemoryInv`: the job is one that the handlers
  let through (`JobIsLegal`); what a read has so far are the bytes of the first places
  of its range, and it is over at the last one or at a word that fails (`ReadIsExact`);
  what a write has left to do are its last bytes, and the first ones are in their places
  (`WriteIsExact`); and, of the word that is about to be stored, the bytes outside the
  range are those it had when loaded, the word being still the one whose address was
  set (`OldBytesAreKept`). The last part needs that the range does not meet itself after a
  turn around the address space, which the handlers' checks ensure for writes with any
  memory of five words or more; the statement needs no bound of the buffer. The rest is arithmetic of places: alignment, words and the bytes within them.

  In the same module, `OnlyWholeRequestsRun` and `OneReplyPerRequestIsSent`, from
  `PacketsInv`. Neither property is inductive, nor are the two together: whether the next
  packet is whole depends on every character that is still on its way, and on what the
  bridge makes of those it has read. The invariant therefore says where the last request
  is (`Whereabouts`); there are four cases as long as the connection is open. `Calm`:
  nothing is on its way but what earlier requests have left, which are acknowledgements,
  requests to kill the program, rejections and the end of the connection. `Coming`: the
  request is on its way undamaged, behind such a lead and perhaps read in part, and
  nothing behind it can be taken for an acknowledgement. `Serving`: it is executed or
  answered. `Doomed`: a damaged packet is on its way, which the bridge cannot accept: it
  begins with no '$', or has no '#' before the next packet begins, or a wrong checksum,
  or comes where an acknowledgement is due. The other parts are what GDB waits for
  (`Requesting`), what of the replies it has not read yet (`Replies`), what is left when
  the connection ends (`Ends`, `Closed`), and that the checksum so far is that of the
  buffer (`Checked`). Three facts about texts carry the proof. The checksum, a recursive
  function, is added up over two texts, by induction on their length. A text that loses
  a character has another checksum (`SumMissesOne`), since no character is zero. And a
  packet that is doomed is not completed by the packet sent after it, be that whole or
  damaged too (`DoomedIsNotCompleted`, `AskedWhenDoomed`). The hypotheses are
  `RequestsAreText`, an assumption on the constants that TLC evaluates in the run (a
  request is a break, a kill, or characters without NUL, the break and the four that the
  protocol reserves, the first of which is not '+', '-', 'k', 'b' or 'B': so is all that
  a GDB sends to a stub that has not taken a binary packet), and `PatientMonitor`, which
  is part of the statements, since with a GDB that times out within a "monitor" command
  `OneReplyPerRequest` is false (section 5).

* `JtagChain_proofs`, for chains and ID codes of any length, any numbers of bits, any
  calls and any command line but those excluded below. There are two invariants. `StartInv`
  is that of the start and holds for any opcode of option `-c`; `IInv` adds what holds
  in a program that selects DEBUG. The program sends the TAPs clocks
  and gets bits back, so that nothing it does can be understood without knowing where it
  is in which sequence. That is the first part (`OnScript`): how many clocks are to come
  tells where every TAP is, what TMS is next and what is shifted in; in particular the
  ways out of any state in which a killed program left the TAPs (`Near`). On it rests what
  is in the registers. While the chain is searched they are a tape, the devices'
  registers one behind the other and then the marker, which each clock moves on by one
  bit (`TapeInv`); the places where the devices begin (`Offset`) are a function that has
  to be shown to exist. What is read is what is on the tape, so that the devices found
  are those of the chain (`ChainKnown`), and a stuck TDO finds none or too many (`Stuck`).
  `InstructionInv` says what is in the instruction register after so many shifts: the bits that it
  captured, then the opcode, cut or extended to the length given. From it follows that
  the ID code can be read in the sanity check only if that length is right
  (`RightLength`), and that the opcode of the option, or else DEBUG, is then selected.
  So far `StartInv`, which gives `ServesTheTarget`. `IrInv` adds that the instruction is
  DEBUG, without which nothing reaches the submodule. `ShiftRegister` says
  what a debug submodule may hold whenever the TAP can leave Shift-DR: the command of the
  last call, or nothing that could be taken for a command: bits nobody set, with zeros
  behind them, or two zeros at the end. The clock before the TMS pulses of `tap_reset`
  keeps this true after a kill in the middle of a shift. `CallInv` is the dialogue of a
  call: latched or not, waiting or answered, and which bits of the answer are still in
  the submodule; `CommandOfCall` and `Patient` are the halves of `NoStrayCommand`. Each
  part is preserved by a clock, by a step of the program between clocks and by an answer
  of the CPU. Proved: types, `ServesTheTarget`, `NoStrayCommand`, and the refinement of
  DebugCalls.
  The hypotheses are part of the statements. `RightOpcode`, that option `-c` is not given
  or gives DEBUG, is one of all but `ServesTheTarget`: with another opcode no call is
  answered by the CPU (section 5). `SoundStart` is one of all. It has two halves: the
  program stops at its first cable error (`CatchErrors = FALSE`: with errors caught
  within a request the properties are false, see `jtag_after_error` in section 5), and no
  command line gives the target an instruction register of one bit, with which
  `ServesTheTarget` is false (section 5 too).

Only model-checked: all liveness, which with fairness and ENABLED is out of the prover's
reach. Every invariant and every action property of the passing runs is proved. The modules declare no RECURSIVE operator.
An induction over numbers is done through the well-foundedness of `<` on a set of
counterexamples (`SetInduction` in RspAccess_proofs), since the library's induction
theorems, which take an operator, cannot be used with the provers at hand.

## 5. Known deviations

Shown by a run that TLC must find violated:

1. `gdb_break_race`: `put_packet` (rsp_packet_helpers.cpp:266) takes a break for the
   acknowledgement of the stop report that crosses it; `poll_cpu` catches nothing,
   the program ends and the CPU stays stalled. The comment at rsp_or10.cpp:961
   describes this very case as handled.
2. `jtag_after_error`: a cable error throws out of a JTAG operation, and the bridge
   goes on (rsp_server.cpp:305 detaches, rsp_or10.cpp:750 serves on) without a
   `tap_reset`, while chain_commands.cpp:574 assumes Run-Test/Idle. With
   `CatchErrors = TRUE`, `NoStrayCommand` fails too.

Found with the models, each reproduced by changing what is named:

* Or10Core with `InterruptsWaitForHandler` as a property of `Or10Exceptions.cfg`: the
  comment on exceptions (or10_top.v:622-626) says that interrupts wait until the handler of
  another exception enables them, and `internal_raise_exception` resets SR (:681). When the
  exception is raised by the instruction just fetched, the assignment of `next_sr` that
  follows (:4279) overrides the reset: IEE and TEE stay set, and the handler of an `l.sys`
  is interrupted after its first instruction. Only bus errors and the range exception of
  `l.mul` reset SR. `Or1kArch` says for each exception which of the two SR its handler has
  (`HandlerSr`), so that `or10_exceptions` and the proof about it notice when the order of
  the two assignments changes.
* RspAccess with `ReadFitsTheReply` as an invariant of `RspAccess.cfg`: the length of a read
  is checked with `2 * length` (rsp_or10.cpp:339 and :349), where `length` is an unsigned
  number of 32 bits. From 0x80000000 on the product wraps, a request such as `m0,80000001`
  passes, and the reply does not fit the buffer that the comment at :348 says it fits. The
  check of a write (:402) wraps in the same way; there a length from 2^31 on is negative, so
  no byte is taken from the packet, and the write fails an assertion (dbg_api.cpp:451).
* CableDrivers with `UnseenFailures` without its last disjunct (bytes and leftovers):
  usbblaster's write stream returns the result of the leftover bits alone
  (cable_usbblaster.cpp:409) and forgets the error of the burst before them, while its read
  stream and errcodes.h:9-10 take an error to be a set of bits. Every command that is
  written, of 19 or 51 bits, has leftovers.
* CableDrivers with `{Wired(asked.packets[i])}` in `Promise`: the last bit of a stream that
  goes out bit by bit is shifted by `len_bits - 1` (cable_driver_common.cpp:94, :136 and
  :138), which for the 51 bits of a write is undefined in a word of 32; the result is sent.
  It is right where the machine takes the shift modulo 32. The comment at :65 says LSB to
  MSB of each word.
* DebugPort with `ResetWhen = "always"` in `DebugPortRough.cfg` breaks
  `HandshakeNeverWedges`: the reset task (or10_top.v:3915-3972) does not clear `dbg_ack_o`.
  A reset in the only state that does (:3976), when the strobe has just fallen, leaves the
  acknowledge at 1 for ever, and the TAP (tap_or10.v:293) answers no command, against the
  "reliable, synchronised reset handling" of CPU/README.pod:66.
* Or10Core with `l.trap` in `DebuggedProgram` breaks `SingleStepIsExact`: a step that
  executes an `l.trap` which stops in the debugger leaves the flag of the
  single-step mode set, and the next step stalls again without an instruction.
* RspAccess with `PatientMonitor = FALSE` breaks `OneReplyPerRequest`: the reply that
  GDB asks for again within a "monitor" command is answered by an error reply
  (rsp_or10.cpp:750), and the session goes on, one reply ahead.
* GdbBridge: a watchpoint inserted twice (rsp_or10.cpp:555-577, which :532 says is
  idempotent) occupies two registers, of which a removal clears one.
* JtagChain with an `ir_length` of 1 breaks `ServesTheTarget`: the IR captures 0101,
  which one shift of the lowest bit of IDCODE turns into IDCODE, so that the sanity check
  (main.cpp:317-334) passes and the program says that the chain looks OK. DEBUG becomes
  IDCODE in the same way, no command reaches the CPU, and what is taken for its answers
  are bits of the ID code. The check rejects every other wrong length (`RightLength`).
* JtagChain without `Debugged` in `Promise` and in `Responds`, which excuse an opcode in
  option `-c` that is not DEBUG, breaks `ImplementsDebugCalls` and `Responds`: main.cpp:170-180 takes any
  number, the sanity check (:323) tests IDCODE only, and the program serves. With IDCODE
  what is taken for the answers of the CPU are bits of the ID code; with BYPASS, or an
  instruction that the TAP does not have, zeros come back and `wait_for_cpu_ack`
  (dbg_api.cpp:88) does not end.
* CableDrivers without the disjunct `unseen` in JtagCable's `Return` breaks
  `ImplementsJtagCable`: results of single bits are ignored (ft245, parallel ports); the
  error of a burst is forgotten; an answer split within a word is put into the wrong
  lane (:519); 15 empty answers count as success (:525); an answer that comes after
  that is taken for the next call's.

Seen while modelling, without a property:

* An operation that is abandoned before its answer, by a program that is stopped in the
  middle of a call and started again, leaves "a window of opportunity for the CPU to write
  to the wrong register or memory address" (tap_or10.v:32-37): the strobe falls and the
  request wires become undefined at once, while the CPU sees the strobe two clocks later.
  The results about DebugPort (`RequestStable`, the refinement of SprPort) are for a
  patient client; JtagChain shows that the calls are patient, and that only a program
  stopped within a call and started again opens the window.
* The tick timer stops in `STATE_DEBUG_STALLED` and nowhere else: it counts during
  the clocks of each debugger access to a stalled CPU (or10_top.v:4629).
* The divider is not reset with the CPU; `div_din_tvalid` is raised by reset itself
  (or10_top.v:3958), on which CPU/README.pod:419-431 has a remark.
* `check_interrupt` (or10_top.v:3889) reads IEE and TEE as they were before the
  instruction: an `l.mtspr` that clears them may still be followed by the interrupt.
* A match of the timer between software's read and its write of TTMR is lost, as
  IP is a bit of the register written (or10_top.v:2629); `TickIsRecorded` excuses it.
* A step onto an instruction whose fetch ends in a bus error does not count as one:
  the flag moves on only when the fetch is acknowledged (or10_top.v:4270), so the step
  ends after the first instruction of the exception's handler.
* The consistency check on masters in the switch fails falsely after a transaction
  that a slave ends in its first clock (simple_wishbone_switch.v:517): the flag is
  cleared only at the end of a locked one. `MastersKeepRequesting` states the check;
  it holds when `Unused` is empty.
* A watchpoint register of 0 means disabled to the bridge, but compares equal to a
  PC of 0 in the CPU (or10_top.v:4166).
* The bridge does not clear breakpoints when it detaches; the next session finds
  them armed as soon as it sets DSR. `CopiesAreExact` shows it knows of them.
* Software that stalls the CPU through SPR EDIS makes the bridge's assertion on the
  stop reason fail; software writing the debug unit is not part of GdbBridge.
* An unknown request (rsp_or10.cpp:1045) fails an assertion in a debug build, which
  ends the program without detaching: the CPU stays stalled.
* "monitor writespr" (rsp_or10.cpp:695) writes the debug unit behind the copies that
  GdbBridge keeps of it.
* `dbg_cpu0_read_mem` reads one word past a range that ends with its word
  (dbg_api.cpp:421), with whatever effect a read has there; `dbg_cpu0_write_mem` loads,
  merges and stores the words at the ends of a range, and a bus master that writes
  between the load and the store is overwritten.
* A write whose packet has no ':' makes `memchr` return a null pointer, of which the
  number of data digits is computed (rsp_or10.cpp:398). RspAccess takes such a packet to
  be refused or to end the program (`ColonMayMiss`).
* CPU/README.pod:165-166 says that unaligned accesses may fail with an error message.
  That is out of date: dbg_api.cpp (:357 and :429) serves every alignment and length,
  which `rsp_access` shows.
* `parse_reg_32_from_hex` does not initialise its result (rsp_string_helpers.cpp:28).
* The end of the chain is told by a manufacturer code of 0x3F (chain_commands.cpp:642),
  while IEEE 1149.1 reserves 0x7F: `ChainAssumption` excludes devices with that code.
* A device without an ID code cannot be the target whatever the options
  (chain_commands.cpp:626 and main.cpp:62 say that its IR length may be given).
* The clock with which `tap_reset` starts "should not be necessary" according to its
  comment. Without it (the mutant of `NoStrayCommand`) a program killed in the middle
  of a shift and started again makes the CPU carry out what the register holds.
* `trace_outgoing_bit` takes the data bit it prints from the wrong flag (logging only); a failed `start_interface` or reset
  of the USB device is ignored; `bytes_received += rv - 2` wraps for a USB answer of less
  than two bytes.

## 6. Not modelled, and the plan

Not modelled:

* `cable_ft2232.cpp` and `cable_xpc_dlc9.cpp`: both translate bits into the private
  commands of a chip (the MPSSE engine, a CPLD), whose meaning is not in this
  repository; a model would rest on an invented device.
* The Altera virtual JTAG branches of chain_commands.cpp: OR10 does not use them.
* Option parsers, BSDL parsing, text helpers, logging of bits: parsing and
  formatting of text without state. JtagChain takes what they find as its input.
* `spr-defs.h`: numbers. The registers the models need have names.
* UART and minsoc traffic cop (third-party code), the test bench (wiring, pure I/O),
  git-svn scripts (no state or concurrency of their own).

The plan, in order:

1. CPU arithmetic as operators on words of a few bits against integers: flags of
   addition and multiplication, the iterative shifter, division with signs.
2. RotateDir and the report files of orbuild.

----------------------------- MODULE MCOr10Core -----------------------------
(* Instances of Or10Core for TLC: one mix of instructions per question.    *)
EXTENDS Or10Core

Zero == [addr |-> 0, flags |-> {}, bit |-> FALSE, count |-> 0, mode |-> 0,
         ie |-> FALSE, ip |-> FALSE]
ToAddr(a) == [Zero EXCEPT !.addr = a]
ToFlags(f) == [Zero EXCEPT !.flags = f]
ToBit(b) == [Zero EXCEPT !.bit = b]
ToCount(n) == [Zero EXCEPT !.count = n]

Insn(kind, word) == [kind |-> kind, spr |-> "GPR", cause |-> "reset", shift |-> 0, word |-> word]
Plain(kind) == Insn(kind, Zero)
Shift(n) == [Plain("shift") EXCEPT !.shift = n]
Sys(cause) == [Plain("fault") EXCEPT !.cause = cause]
Mtspr(spr, word) == [Insn("mtspr", word) EXCEPT !.spr = spr]
Write(spr, word) == [we |-> TRUE, spr |-> spr, word |-> word]
Read == [we |-> FALSE, spr |-> "GPR", word |-> Zero]

\* Program at 0 and 1; exceptions enter at 1, interrupts at 2.
MCVector == [c \in Causes |-> CASE c = "reset" -> 0
                                [] c \in {"external", "tick"} -> 2
                                [] OTHER -> 1]
NoOps == {}

\* Every way an instruction ends, with interrupts and without a debugger.
ExceptionProgram ==
    {Plain("nop"), Insn("jump", ToAddr(0)), Insn("jal", ToAddr(2)),
     Insn("add", ToFlags({"OV"})), Insn("add", ToFlags({})), Plain("mul"),
     Insn("div", ToBit(TRUE)), Insn("div", ToBit(FALSE)), Shift(0), Shift(2),
     Insn("load", ToAddr(0)), Insn("store", ToAddr(1)), Plain("rfe"),
     Plain("sleep"), Plain("trap"), Sys("syscall"), Mtspr("invalid", Zero),
     Mtspr("SR", ToFlags({})), Mtspr("SR", ToFlags({"IEE", "OVE"})),
     Mtspr("PICMR", ToBit(TRUE))}

\* A debugger that stops, inspects, changes, steps and resumes a program with
\* interrupts; the program may stall the CPU too, but holds no l.trap.
DebuggedProgram ==
    {Plain("alu"), Insn("load", ToAddr(0)), Plain("sleep"), Plain("rfe"),
     Shift(1), Mtspr("EDIS", ToBit(TRUE)), Mtspr("SR", ToFlags({"IEE"}))}
\* What GdbToJtagBridge asks of a stalled CPU, and of one that runs.
StalledOps ==
    {Read, Write("EDIS", ToBit(FALSE)), Write("DMR1", ToBit(TRUE)),
     Write("DMR1", ToBit(FALSE)), Write("DSR", ToBit(TRUE)),
     Write("DVR", ToAddr(1)), Write("NPC", ToAddr(0)),
     Write("PICMR", ToBit(TRUE)), Write("SR", ToFlags({})),
     Write("READ_MEM_ADDR", ToAddr(1)), Write("GPR", Zero)}
AnyTimeOps == {Read, Write("EDIS", ToBit(TRUE)), Write("READ_MEM_ADDR", ToAddr(1))}

\* The tick timer in each of its modes (TP is 1, IP starts cleared) under a
\* program with everything that takes several clocks.
Ttmr(mode, ie) == [Zero EXCEPT !.mode = mode, !.ie = ie, !.count = 1]
TickProgram ==
    {Plain("nop"), Insn("load", ToAddr(0)), Plain("sleep"), Plain("rfe"),
     Insn("div", ToBit(FALSE)), Mtspr("SR", ToFlags({"TEE"})), Mtspr("TTCR", ToCount(0)),
     Mtspr("TTMR", Ttmr(1, TRUE)), Mtspr("TTMR", Ttmr(2, TRUE)),
     Mtspr("TTMR", Ttmr(3, TRUE)), Mtspr("TTMR", Ttmr(3, FALSE))}
TickOps == {Read, Write("EDIS", ToBit(FALSE)), Write("TTCR", ToCount(0))}
PollOps == {Read, Write("EDIS", ToBit(TRUE)), Write("READ_MEM_ADDR", ToAddr(1))}
=============================================================================

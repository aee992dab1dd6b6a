------------------------------ MODULE Or1kArch ------------------------------
(***************************************************************************)
(* What a program, an exception handler and a debugger may rely on: the    *)
(* registers PC, SR, EPCR and ESR as the OR10 CPU must present them, one   *)
(* step per instruction, whatever number of clocks each one takes.         *)
(*                                                                         *)
(* Exceptions are precise.  An instruction that faults is the one EPCR     *)
(* points to; an interrupt comes between two instructions, EPCR and ESR    *)
(* being exactly the PC and the SR the interrupted program goes on with.   *)
(***************************************************************************)
EXTENDS Naturals

CONSTANTS
    AddrCount,   \* the PC counts words modulo AddrCount
    Vector,      \* exception vector of each cause
    Program,     \* instructions the memory may hold
    DebugOps     \* what a debugger may ask for

VARIABLES pc, sr, epcr, esr

arch == <<pc, sr, epcr, esr>>

Context(p, s) == [pc |-> p, sr |-> s]
FollowingPc == (pc + 1) % AddrCount
WithFlags(flags) == (sr \ {"OV", "CY"}) \cup flags

\* A range exception is due when OVE is set and the flag goes from 0 to 1.
Trips(flag, next_sr) == "OVE" \in sr /\ flag \notin sr /\ flag \in next_sr

(***************************************************************************)
(* The flags an arithmetic instruction may produce and the one that traps. *)
(***************************************************************************)
Arithmetic == {"add", "mul", "div"}
Results(i) ==
    {WithFlags(f) : f \in CASE i.kind = "add" -> {i.word.flags}
                            [] i.kind = "mul" -> {{}, {"OV"}, {"CY"}}
                            [] i.kind = "div" -> {IF i.word.bit THEN {"CY"} ELSE {}}}
TrapFlag(i) == IF i.kind = "div" THEN "CY" ELSE "OV"

\* The contexts instruction i may hand on to the next instruction, if it can.
Effect(i) ==
    CASE i.kind \in {"jump", "jal"} -> {Context(i.word.addr, sr)}
      [] i.kind \in Arithmetic -> {Context(FollowingPc, s) :
                                     s \in {r \in Results(i) : ~Trips(TrapFlag(i), r)}}
      [] i.kind = "rfe" -> {Context(epcr, esr)}
      [] i.kind = "mtspr" ->
           IF i.spr \in {"invalid", "misaligned"} THEN {}
           ELSE {Context(IF i.spr = "NPC" THEN i.word.addr ELSE FollowingPc,
                         IF i.spr = "SR" THEN i.word.flags ELSE sr)}
      [] i.kind \in {"fault", "trap"} -> {}
      [] OTHER -> {Context(FollowingPc, sr)}

\* EPCR and ESR change under l.mtspr, by program or by debugger.
Saved(spr, word) ==
    /\ epcr' = IF spr = "EPCR" THEN word.addr ELSE epcr
    /\ esr' = IF spr = "ESR" THEN word.flags ELSE esr

Execute(i) ==
    \E next \in Effect(i) :
        /\ pc' = next.pc /\ sr' = next.sr
        /\ IF i.kind = "mtspr" THEN Saved(i.spr, i.word) ELSE UNCHANGED <<epcr, esr>>

\* An interrupt is taken after i: it was enabled when i began.
Interrupted(i) ==
    \E next \in Effect(i), line \in {"external", "tick"} :
        /\ (IF line = "external" THEN "IEE" ELSE "TEE") \in sr
        /\ pc' = Vector[line] /\ sr' = {}
        /\ epcr' = next.pc /\ esr' = next.sr

\* The causes for which i may fault, each with the SR its handler finds in ESR:
\* a range exception shows the flags that caused it.
Causes(i) ==
    CASE i.kind \in Arithmetic ->
           {[cause |-> "range", esr |-> r] : r \in {r \in Results(i) : Trips(TrapFlag(i), r)}}
      [] i.kind = "fault" -> {[cause |-> i.cause, esr |-> sr]}
      [] i.kind = "trap" -> {[cause |-> "trap", esr |-> sr]}
      [] i.kind = "mtspr" /\ i.spr = "invalid" -> {[cause |-> "range", esr |-> sr]}
      [] i.kind = "mtspr" /\ i.spr = "misaligned" -> {[cause |-> "align", esr |-> sr]}
      [] OTHER -> {}

\* SR is not reset for the handler, whatever the comment on exceptions says:
\* interrupts stay enabled in it.  Only the fault of an l.mul, a clock later than
\* the execution of the others, is raised with nothing assigned to SR after it.
HandlerSr(i, fault) == IF i.kind = "mul" THEN {} ELSE fault.esr
Faulting(i) ==
    \E fault \in Causes(i) :
        /\ pc' = Vector[fault.cause] /\ epcr' = pc
        /\ esr' = fault.esr /\ sr' = HandlerSr(i, fault)

BusFault == pc' = Vector["bus"] /\ epcr' = pc /\ esr' = sr /\ sr' = {}

\* A division settles the flags when it begins, ahead of its result.
DivisionBegins == sr' = WithFlags({}) /\ UNCHANGED <<pc, epcr, esr>>

DebuggerWrites(o) ==
    /\ o.we
    /\ pc' = IF o.spr = "NPC" THEN o.word.addr ELSE pc
    /\ sr' = IF o.spr = "SR" THEN o.word.flags ELSE sr
    /\ Saved(o.spr, o.word)

Init == pc = Vector["reset"] /\ sr = {} /\ epcr = 0 /\ esr = {}

Next ==
    \/ \E i \in Program : Execute(i) \/ Interrupted(i) \/ Faulting(i)
    \/ BusFault
    \/ (\E i \in Program : i.kind = "div") /\ DivisionBegins
    \/ \E o \in DebugOps : DebuggerWrites(o)

Spec == Init /\ [][Next]_arch

=============================================================================

---------------------------- MODULE SprCommands ----------------------------
(***************************************************************************)
(* What one Special Purpose Register access over the Debug Interface does  *)
(* to an OR10 CPU: the commands the TAP can hand over, the part of the     *)
(* machine they reach, and the effect of each (read_cpu_spr and            *)
(* write_cpu_spr in or10_top.v).  DebugPort runs these commands through    *)
(* the two clock domains; SprPort is the one-step view of the same thing.  *)
(***************************************************************************)
EXTENDS Integers

CONSTANTS
  SimpleSpr,  \* SPRs that just hold a 32-bit word and that a reset clears
  Value,      \* the words the model uses: data, and byte addresses
  X           \* the Verilog value 'x': whatever the synthesiser left there

DebugUnitSpr == {"EDIS", "WRITE_MEM_ADDR", "READ_MEM_ADDR", "WRITE_MEM_DATA",
                 "UNIMPLEMENTED"}

ASSUME SprAssumption ==
  /\ Value \subseteq Nat
  /\ {0, 1} \subseteq Value
  /\ \A v \in Value : 4 * (v \div 4) \in Value  \* as for 0 .. 2^32 - 1
  /\ X \notin Value
  /\ SimpleSpr \cap DebugUnitSpr = {}

Spr == SimpleSpr \cup DebugUnitSpr

(* Addresses: the memory is organised in 32-bit words.                     *)
Word(v) == v \div 4
IsAligned(v) == v % 4 = 0
Words == {Word(v) : v \in Value}

(* A DEBUG_CMD_READ_CPU_SPR carries no data.                               *)
ReadCommand  == [we : {FALSE}, spr : Spr, data : {X}]
WriteCommand == [we : {TRUE}, spr : Spr, data : Value]
Command == ReadCommand \cup WriteCommand

(* The state an SPR access reads or writes.                                *)
Machine == [spr : [SimpleSpr -> Value], write_mem_addr : Words,
            stalled : BOOLEAN, mem : [Words -> Value]]

(* What the CPU presents in dbg_err_o and dbg_data_o.                      *)
Answer == [err : BOOLEAN, data : Value \cup {X}]

-----------------------------------------------------------------------------
(* The two memory registers turn the access into a Wishbone data cycle.    *)
NeedsWishbone(c) == c.we /\ c.spr \in {"READ_MEM_ADDR", "WRITE_MEM_DATA"}

(* Mutant of WriteSpr: the address register takes the byte address.        *)
WriteSprByteAddress(m, spr, v) ==
  CASE spr \in SimpleSpr       -> [m EXCEPT !.spr[spr] = v]
    [] spr = "EDIS"            -> [m EXCEPT !.stalled = (v % 2 = 1)]
    [] spr = "WRITE_MEM_ADDR"  -> [m EXCEPT !.write_mem_addr = v]
    [] OTHER                   -> m

(* write_cpu_spr: the machine after the write.                             *)
WriteSpr(m, spr, v) ==
  CASE spr \in SimpleSpr       -> [m EXCEPT !.spr[spr] = v]
    [] spr = "EDIS"            -> [m EXCEPT !.stalled = (v % 2 = 1)]
    [] spr = "WRITE_MEM_ADDR"  -> IF IsAligned(v)
                                    THEN [m EXCEPT !.write_mem_addr = Word(v)]
                                    ELSE m
    [] OTHER                   -> m

(* write_cpu_spr: is_invalid_spr_number or should_raise_alignment_exception *)
WriteFails(spr, v) ==
  \/ spr = "WRITE_MEM_ADDR" /\ ~IsAligned(v)
  \/ spr = "UNIMPLEMENTED"

(* read_cpu_spr: EDIS reads back as one bit, WRITE_MEM_ADDR as the byte    *)
(* address of its word; the two data registers cannot be read.             *)
ReadFails(spr) == spr \in {"READ_MEM_ADDR", "WRITE_MEM_DATA", "UNIMPLEMENTED"}

ReadBack(m, spr) ==
  CASE spr \in SimpleSpr      -> m.spr[spr]
    [] spr = "EDIS"           -> IF m.stalled THEN 1 ELSE 0
    [] spr = "WRITE_MEM_ADDR" -> 4 * m.write_mem_addr
    [] OTHER                  -> X

(* do_state_reset: the memory and WRITE_MEM_ADDR keep what they had.       *)
AfterReset(m) ==
  [m EXCEPT !.spr = [s \in SimpleSpr |-> 0], !.stalled = FALSE]

(* What one instruction of the running software may do to this state: a    *)
(* store, an l.mtspr, or a stop (trap, hardware breakpoint, single step).  *)
SoftwareEffects(m) ==
       {[m EXCEPT !.spr[s] = v] : s \in SimpleSpr, v \in Value}
  \cup {[m EXCEPT !.mem[w] = v] : w \in Words, v \in Value}
  \cup {[m EXCEPT !.write_mem_addr = w] : w \in Words}
  \cup {[m EXCEPT !.stalled = TRUE]}
=============================================================================

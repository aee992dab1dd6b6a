-------------------------- MODULE DebugPort_proofs --------------------------
(***************************************************************************)
(* Proofs about DebugPort, for every set of registers and every word       *)
(* width: the handshake between the two clock domains never lets one side  *)
(* read wires the other side is changing, and it implements SprPort.       *)
(***************************************************************************)
EXTENDS DebugPort, TLAPS

USE DEF CpuIsIdle, CpuHasAnswered

-----------------------------------------------------------------------------
(* What SPR accesses do to the types.                                      *)

(* A write leaves a machine (write_cpu_spr).                               *)
LEMMA WriteSprType ==
  ASSUME NEW m \in Machine, NEW c \in WriteCommand
  PROVE  WriteSpr(m, c.spr, c.data) \in Machine
<1>1. c.spr \in Spr /\ c.data \in Value
  BY DEF WriteCommand
<1>2. Word(c.data) \in Words
  BY <1>1 DEF Words
<1>3. CASE c.spr \in SimpleSpr
  <2>1. WriteSpr(m, c.spr, c.data) = [m EXCEPT !.spr[c.spr] = c.data]
    BY <1>3, SprAssumption DEF WriteSpr, DebugUnitSpr
  <2>2. [m.spr EXCEPT ![c.spr] = c.data] \in [SimpleSpr -> Value]
    BY <1>1, <1>3 DEF Machine
  <2> QED BY <2>1, <2>2 DEF Machine
<1>4. CASE c.spr \notin SimpleSpr
  <2>1. \/ WriteSpr(m, c.spr, c.data) = [m EXCEPT !.stalled = (c.data % 2 = 1)]
        \/ WriteSpr(m, c.spr, c.data) = [m EXCEPT !.write_mem_addr = Word(c.data)]
        \/ WriteSpr(m, c.spr, c.data) = m
    BY <1>4 DEF WriteSpr
  <2> QED BY <1>2, <2>1 DEF Machine
<1> QED BY <1>3, <1>4

(* So does a reset (do_state_reset).                                       *)
LEMMA AfterResetType ==
  ASSUME NEW m \in Machine
  PROVE  AfterReset(m) \in Machine
BY SprAssumption DEF AfterReset, Machine

(* And an instruction of the software.                                     *)
LEMMA SoftwareEffectsType ==
  ASSUME NEW m \in Machine, NEW n \in SoftwareEffects(m)
  PROVE  n \in Machine
<1>1. CASE \E s \in SimpleSpr, v \in Value : n = [m EXCEPT !.spr[s] = v]
  BY <1>1 DEF Machine
<1>2. CASE \E w \in Words, v \in Value : n = [m EXCEPT !.mem[w] = v]
  BY <1>2 DEF Machine
<1>3. CASE \E w \in Words : n = [m EXCEPT !.write_mem_addr = w]
  BY <1>3 DEF Machine
<1>4. CASE n = [m EXCEPT !.stalled = TRUE]
  BY <1>4 DEF Machine
<1> QED BY <1>1, <1>2, <1>3, <1>4 DEF SoftwareEffects

(* A read that does not fail returns a word, never 'x' (read_cpu_spr).     *)
LEMMA ReadBackType ==
  ASSUME NEW m \in Machine, NEW spr \in Spr
  PROVE  /\ ReadBack(m, spr) \in Value \cup {X}
         /\ ~ReadFails(spr) => ReadBack(m, spr) # X
<1>1. \A w \in Words : 4 * w \in Value
  BY SprAssumption DEF Words, Word
<1>2. m.write_mem_addr \in Words /\ m.spr \in [SimpleSpr -> Value]
  BY DEF Machine
<1>3. CASE spr \in SimpleSpr
  BY <1>2, <1>3, SprAssumption DEF ReadBack, ReadFails, DebugUnitSpr
<1>4. CASE spr = "EDIS"
  BY <1>4, SprAssumption DEF ReadBack, ReadFails, DebugUnitSpr
<1>5. CASE spr = "WRITE_MEM_ADDR"
  BY <1>1, <1>2, <1>5, SprAssumption DEF ReadBack, ReadFails, DebugUnitSpr
<1>6. CASE spr \in {"READ_MEM_ADDR", "WRITE_MEM_DATA", "UNIMPLEMENTED"}
  BY <1>6, SprAssumption DEF ReadBack, ReadFails, DebugUnitSpr
<1> QED BY <1>3, <1>4, <1>5, <1>6 DEF Spr, DebugUnitSpr
-----------------------------------------------------------------------------
(* The start of a debug operation.                                         *)

(* When the CPU looks at the request, it is the current command, driven by *)
(* a TAP that waits for the acknowledge (tap_or10.v keeps cpu_spr_number_o, *)
(* cpu_data_o and cpu_we_o until then).                                    *)
LEMMA SampledIsCommand ==
  ASSUME HandshakeInv,
         \/ current_state \in {"RUNNING", "STALLED"} /\ stb_ff.out
         \/ current_state = "REG_FILE_READ"
  PROVE  /\ current_cpu_state = "WAITING_FOR_ACK"
         /\ cpu_stb_o /\ cpu_request = current_cmd /\ cpu_request # None
         /\ current_cmd \in Command
         /\ Sampled = {current_cmd}
<1>1. cpu_stb_o
  BY DEF HandshakeInv, TypeOK, StrobeInv, FlipFlops
<1>2. current_cpu_state = "WAITING_FOR_ACK"
  BY <1>1 DEF HandshakeInv, StrobeInv
<1>3. cpu_request = current_cmd /\ current_cmd \in Command
  BY <1>2 DEF HandshakeInv, RequestInv
<1>4. cpu_request # None
  BY <1>3, DebugPortAssumption
<1> QED BY <1>1, <1>2, <1>3, <1>4 DEF Sampled

(* The three ways an operation starts (start_debug_interface_operation):   *)
(* a Wishbone access, a register write, a register read.                   *)
StartsWishbone ==
  /\ NeedsWishbone(current_cmd)
  /\ current_cmd \in WriteCommand
  /\ wishdat' = [we |-> current_cmd.spr = "WRITE_MEM_DATA",
                 data |-> current_cmd.data,
                 word |-> IF current_cmd.spr = "READ_MEM_ADDR"
                            THEN Word(current_cmd.data)
                            ELSE machine.write_mem_addr]
  /\ current_state' = "WISHBONE_CYCLE"
  /\ UNCHANGED <<machine, dbg_answer>>

StartsWrite ==
  /\ ~NeedsWishbone(current_cmd)
  /\ current_cmd.we
  /\ current_cmd \in WriteCommand
  /\ machine' = WriteSpr(machine, current_cmd.spr, current_cmd.data)
  /\ dbg_answer' = [err |-> WriteFails(current_cmd.spr, current_cmd.data), data |-> X]
  /\ current_state' = "ACK_ASSERT"
  /\ UNCHANGED wishdat

StartsRead ==
  /\ ~NeedsWishbone(current_cmd)
  /\ ~current_cmd.we
  /\ current_state' = "REG_FILE_READ"
  /\ UNCHANGED <<machine, wishdat, dbg_answer>>

LEMMA StartOperationCases ==
  ASSUME HandshakeInv, StartOperation,
         current_state \in {"RUNNING", "STALLED"}, stb_ff.out
  PROVE  StartsWishbone \/ StartsWrite \/ StartsRead
<1>1. Sampled = {current_cmd} /\ current_cmd \in Command
  BY SampledIsCommand
<1>2. current_cmd.we => current_cmd \in WriteCommand
  BY <1>1 DEF Command, ReadCommand, WriteCommand
<1>3. CASE NeedsWishbone(current_cmd)
  BY <1>1, <1>2, <1>3 DEF StartOperation, StartsWishbone, NeedsWishbone
<1>4. CASE ~NeedsWishbone(current_cmd) /\ current_cmd.we
  BY <1>1, <1>2, <1>4 DEF StartOperation, StartsWrite
<1>5. CASE ~NeedsWishbone(current_cmd) /\ ~current_cmd.we
  BY <1>1, <1>5 DEF StartOperation, StartsRead
<1> QED BY <1>3, <1>4, <1>5

-----------------------------------------------------------------------------
(* One step of either clock preserves each part of HandshakeInv, for a     *)
(* patient client and no reset while dbg_ack_o is up.                      *)

(* The strobe and its two flip-flops (cpu_stb_o, synchronised_dbg_stb_i).  *)
LEMMA StrobeInvStep ==
  ASSUME PatientClient, ResetWhen # "always", HandshakeInv, Next
  PROVE  StrobeInv'
<1> USE DEF HandshakeInv, TypeOK, StrobeInv, AckInv, Shift, FlipFlops, CpuState
<1>1. CASE TapTick
  BY <1>1 DEF TapTick, TapTickFrom, TckEdge, cpuVars
<1>2. CASE \E c \in Command : TapUpdateSpr(c)
  BY <1>2 DEF TapUpdateSpr, TapTickFrom, MayUpdate, TckEdge, cpuVars
<1>3. CASE TapUpdateNop
  BY <1>3 DEF TapUpdateNop, TapTickFrom, MayUpdate, TckEdge, cpuVars
<1>4. CASE TapUpdateIsCpuStalled
  BY <1>4 DEF TapUpdateIsCpuStalled, TapTickFrom, MayUpdate, TckEdge, cpuVars
<1>5. CASE TapReset
  BY <1>5 DEF TapReset, MayUpdate, TckEdge, cpuVars
<1>6. CASE AssertReset
  BY <1>6 DEF AssertReset, WbClkEdge, tapVars
<1>7. CASE DoReset
  BY <1>7 DEF DoReset, WbClkEdge, tapVars
<1>8. CASE RunBusy
  BY <1>8 DEF RunBusy, WbClkEdge, tapVars
<1>9. CASE RunDebug
  BY <1>9 DEF RunDebug, StartOperation, WbClkEdge, tapVars
<1>10. CASE RunInstruction
  BY <1>10 DEF RunInstruction, WbClkEdge, tapVars
<1>11. CASE RunStop
  BY <1>11 DEF RunStop, WbClkEdge, tapVars
<1>12. CASE Stalled
  BY <1>12 DEF Stalled, StartOperation, WbClkEdge, tapVars
<1>13. CASE RegFileRead
  BY <1>13 DEF RegFileRead, WbClkEdge, tapVars
<1>14. CASE WishboneWait
  BY <1>14 DEF WishboneWait, WbClkEdge, tapVars
<1>15. CASE WishboneEnds
  BY <1>15 DEF WishboneEnds, WbClkEdge, tapVars
<1>16. CASE AckAssert
  BY <1>16 DEF AckAssert, WbClkEdge, tapVars
<1>17. CASE StbDeassert
  BY <1>17 DEF StbDeassert, WbClkEdge, tapVars
<1> QED BY <1>1, <1>2, <1>3, <1>4, <1>5, <1>6, <1>7, <1>8, <1>9, <1>10, <1>11, <1>12, <1>13, <1>14, <1>15, <1>16, <1>17 DEF Next, TapNext, CpuNext

(* The acknowledge and its two flip-flops (dbg_ack_o, synchronised_cpu_ack_i).*)
LEMMA AckInvStep ==
  ASSUME PatientClient, ResetWhen # "always", HandshakeInv, Next
  PROVE  AckInv'
<1> USE DEF HandshakeInv, TypeOK, StrobeInv, AckInv, Shift, FlipFlops, CpuState
<1>1. CASE TapTick
  BY <1>1 DEF TapTick, TapTickFrom, TckEdge, cpuVars
<1>2. CASE \E c \in Command : TapUpdateSpr(c)
  BY <1>2 DEF TapUpdateSpr, TapTickFrom, MayUpdate, TckEdge, cpuVars
<1>3. CASE TapUpdateNop
  BY <1>3 DEF TapUpdateNop, TapTickFrom, MayUpdate, TckEdge, cpuVars
<1>4. CASE TapUpdateIsCpuStalled
  BY <1>4 DEF TapUpdateIsCpuStalled, TapTickFrom, MayUpdate, TckEdge, cpuVars
<1>5. CASE TapReset
  BY <1>5 DEF TapReset, MayUpdate, TckEdge, cpuVars
<1>6. CASE AssertReset
  BY <1>6 DEF AssertReset, WbClkEdge, tapVars
<1>7. CASE DoReset
  BY <1>7 DEF DoReset, WbClkEdge, tapVars
<1>8. CASE RunBusy
  BY <1>8 DEF RunBusy, WbClkEdge, tapVars
<1>9. CASE RunDebug
  BY <1>9 DEF RunDebug, StartOperation, WbClkEdge, tapVars
<1>10. CASE RunInstruction
  BY <1>10 DEF RunInstruction, WbClkEdge, tapVars
<1>11. CASE RunStop
  BY <1>11 DEF RunStop, WbClkEdge, tapVars
<1>12. CASE Stalled
  BY <1>12 DEF Stalled, StartOperation, WbClkEdge, tapVars
<1>13. CASE RegFileRead
  BY <1>13 DEF RegFileRead, WbClkEdge, tapVars
<1>14. CASE WishboneWait
  BY <1>14 DEF WishboneWait, WbClkEdge, tapVars
<1>15. CASE WishboneEnds
  BY <1>15 DEF WishboneEnds, WbClkEdge, tapVars
<1>16. CASE AckAssert
  BY <1>16 DEF AckAssert, WbClkEdge, tapVars
<1>17. CASE StbDeassert
  BY <1>17 DEF StbDeassert, WbClkEdge, tapVars
<1> QED BY <1>1, <1>2, <1>3, <1>4, <1>5, <1>6, <1>7, <1>8, <1>9, <1>10, <1>11, <1>12, <1>13, <1>14, <1>15, <1>16, <1>17 DEF Next, TapNext, CpuNext

(* The wires of the request, and the Wishbone access it turned into.       *)
LEMMA RequestInvStep ==
  ASSUME PatientClient, ResetWhen # "always", HandshakeInv, Next
  PROVE  RequestInv'
<1> USE DEF HandshakeInv, TypeOK, StrobeInv, AckInv, RequestInv, CpuState, TapState
<1>1. CASE TapTick
  BY <1>1 DEF TapTick, TapTickFrom, TckEdge, cpuVars
<1>2. CASE \E c \in Command : TapUpdateSpr(c)
  BY <1>2 DEF TapUpdateSpr, TapTickFrom, MayUpdate, TckEdge, cpuVars
<1>3. CASE TapUpdateNop
  BY <1>3 DEF TapUpdateNop, TapTickFrom, MayUpdate, TckEdge, cpuVars
<1>4. CASE TapUpdateIsCpuStalled
  BY <1>4 DEF TapUpdateIsCpuStalled, TapTickFrom, MayUpdate, TckEdge, cpuVars
<1>5. CASE TapReset
  BY <1>5 DEF TapReset, MayUpdate, TckEdge, cpuVars
<1>6. CASE AssertReset
  BY <1>6 DEF AssertReset, WbClkEdge, tapVars
<1>7. CASE DoReset
  BY <1>7 DEF DoReset, WbClkEdge, tapVars
<1>8. CASE RunBusy
  BY <1>8 DEF RunBusy, WbClkEdge, tapVars
<1>9. CASE RunDebug
  BY <1>9, StartOperationCases DEF RunDebug, StartsWishbone, StartsWrite, StartsRead, WbClkEdge, tapVars
<1>10. CASE RunInstruction
  BY <1>10 DEF RunInstruction, WbClkEdge, tapVars
<1>11. CASE RunStop
  BY <1>11 DEF RunStop, WbClkEdge, tapVars
<1>12. CASE Stalled
  BY <1>12, StartOperationCases DEF Stalled, StartsWishbone, StartsWrite, StartsRead, WbClkEdge, tapVars
<1>13. CASE RegFileRead
  BY <1>13 DEF RegFileRead, Sampled, WbClkEdge, tapVars
<1>14. CASE WishboneWait
  BY <1>14 DEF WishboneWait, WbClkEdge, tapVars
<1>15. CASE WishboneEnds
  BY <1>15 DEF WishboneEnds, WbClkEdge, tapVars
<1>16. CASE AckAssert
  BY <1>16 DEF AckAssert, WbClkEdge, tapVars
<1>17. CASE StbDeassert
  BY <1>17 DEF StbDeassert, WbClkEdge, tapVars
<1> QED BY <1>1, <1>2, <1>3, <1>4, <1>5, <1>6, <1>7, <1>8, <1>9, <1>10, <1>11, <1>12, <1>13, <1>14, <1>15, <1>16, <1>17 DEF Next, TapNext, CpuNext

(* The wires of the answer.                                                *)
LEMMA AnswerInvStep ==
  ASSUME PatientClient, ResetWhen # "always", HandshakeInv, Next
  PROVE  AnswerInv'
<1> USE DEF HandshakeInv, TypeOK, StrobeInv, AckInv, RequestInv, AnswerInv, CpuState, TapState
<1>1. CASE TapTick
  BY <1>1 DEF TapTick, TapTickFrom, TckEdge, cpuVars
<1>2. CASE \E c \in Command : TapUpdateSpr(c)
  BY <1>2 DEF TapUpdateSpr, TapTickFrom, MayUpdate, TckEdge, cpuVars
<1>3. CASE TapUpdateNop
  BY <1>3 DEF TapUpdateNop, TapTickFrom, MayUpdate, TckEdge, cpuVars
<1>4. CASE TapUpdateIsCpuStalled
  BY <1>4 DEF TapUpdateIsCpuStalled, TapTickFrom, MayUpdate, TckEdge, cpuVars
<1>5. CASE TapReset
  BY <1>5 DEF TapReset, MayUpdate, TckEdge, cpuVars
<1>6. CASE AssertReset
  BY <1>6 DEF AssertReset, WbClkEdge, tapVars
<1>7. CASE DoReset
  BY <1>7 DEF DoReset, WbClkEdge, tapVars
<1>8. CASE RunBusy
  BY <1>8 DEF RunBusy, WbClkEdge, tapVars
<1>9. CASE RunDebug
  BY <1>9, StartOperationCases DEF RunDebug, StartsWishbone, StartsWrite, StartsRead, WbClkEdge, tapVars
<1>10. CASE RunInstruction
  BY <1>10 DEF RunInstruction, WbClkEdge, tapVars
<1>11. CASE RunStop
  BY <1>11 DEF RunStop, WbClkEdge, tapVars
<1>12. CASE Stalled
  BY <1>12, StartOperationCases DEF Stalled, StartsWishbone, StartsWrite, StartsRead, WbClkEdge, tapVars
<1>13. CASE RegFileRead
  <2>1. Sampled = {current_cmd} /\ current_cmd \in Command
    BY <1>13, SampledIsCommand DEF RegFileRead
  <2>2. current_cmd.spr \in Spr
    BY <2>1 DEF Command, ReadCommand, WriteCommand
  <2>3. ~ReadFails(current_cmd.spr) => ReadBack(machine, current_cmd.spr) # X
    BY <2>2, ReadBackType
  <2> QED BY <1>13, <2>1, <2>3 DEF RegFileRead, WbClkEdge, tapVars
<1>14. CASE WishboneWait
  BY <1>14 DEF WishboneWait, WbClkEdge, tapVars
<1>15. CASE WishboneEnds
  BY <1>15 DEF WishboneEnds, WbClkEdge, tapVars, NeedsWishbone
<1>16. CASE AckAssert
  BY <1>16 DEF AckAssert, WbClkEdge, tapVars
<1>17. CASE StbDeassert
  BY <1>17 DEF StbDeassert, WbClkEdge, tapVars
<1> QED BY <1>1, <1>2, <1>3, <1>4, <1>5, <1>6, <1>7, <1>8, <1>9, <1>10, <1>11, <1>12, <1>13, <1>14, <1>15, <1>16, <1>17 DEF Next, TapNext, CpuNext

(* The stall status on its way to the client.                              *)
LEMMA StallStatusInvStep ==
  ASSUME PatientClient, ResetWhen # "always", HandshakeInv, Next
  PROVE  StallStatusInv'
<1> USE DEF HandshakeInv, TypeOK, StrobeInv, AckInv, StallStatusInv, CpuState, TapState, Shift, FlipFlops, StallStatus, Status
<1>1. CASE TapTick
  BY <1>1 DEF TapTick, TapTickFrom, TckEdge, cpuVars
<1>2. CASE \E c \in Command : TapUpdateSpr(c)
  BY <1>2 DEF TapUpdateSpr, TapTickFrom, MayUpdate, TckEdge, cpuVars
<1>3. CASE TapUpdateNop
  BY <1>3 DEF TapUpdateNop, TapTickFrom, MayUpdate, TckEdge, cpuVars
<1>4. CASE TapUpdateIsCpuStalled
  BY <1>4 DEF TapUpdateIsCpuStalled, TapTickFrom, MayUpdate, TckEdge, cpuVars
<1>5. CASE TapReset
  BY <1>5 DEF TapReset, MayUpdate, TckEdge, cpuVars
<1>6. CASE AssertReset
  BY <1>6 DEF AssertReset, WbClkEdge, tapVars
<1>7. CASE DoReset
  BY <1>7 DEF DoReset, WbClkEdge, tapVars
<1>8. CASE RunBusy
  BY <1>8 DEF RunBusy, WbClkEdge, tapVars
<1>9. CASE RunDebug
  BY <1>9, StartOperationCases DEF RunDebug, StartsWishbone, StartsWrite, StartsRead, WbClkEdge, tapVars
<1>10. CASE RunInstruction
  BY <1>10 DEF RunInstruction, WbClkEdge, tapVars
<1>11. CASE RunStop
  BY <1>11 DEF RunStop, WbClkEdge, tapVars
<1>12. CASE Stalled
  BY <1>12, StartOperationCases DEF Stalled, StartsWishbone, StartsWrite, StartsRead, WbClkEdge, tapVars
<1>13. CASE RegFileRead
  BY <1>13 DEF RegFileRead, Sampled, WbClkEdge, tapVars
<1>14. CASE WishboneWait
  BY <1>14 DEF WishboneWait, WbClkEdge, tapVars
<1>15. CASE WishboneEnds
  BY <1>15 DEF WishboneEnds, WbClkEdge, tapVars
<1>16. CASE AckAssert
  BY <1>16 DEF AckAssert, WbClkEdge, tapVars
<1>17. CASE StbDeassert
  BY <1>17 DEF StbDeassert, WbClkEdge, tapVars
<1> QED BY <1>1, <1>2, <1>3, <1>4, <1>5, <1>6, <1>7, <1>8, <1>9, <1>10, <1>11, <1>12, <1>13, <1>14, <1>15, <1>16, <1>17 DEF Next, TapNext, CpuNext

(* The types, in three parts: the synchronisers, then the registers of the *)
(* TAP, then those of the CPU.                                             *)
LEMMA ShiftType ==
  ASSUME NEW b \in BOOLEAN, NEW f \in FlipFlops
  PROVE  Shift(f, b) \in FlipFlops
BY DEF Shift, FlipFlops

TapTypes ==
  /\ current_cpu_state \in TapState
  /\ current_cmd \in Command \cup {None}
  /\ cpu_stb_o \in BOOLEAN
  /\ cpu_request \in Command \cup {None}
  /\ output_reg \in Answer \cup StallBit \cup {Busy, Nothing}
  /\ ack_ff \in FlipFlops /\ stalled_ff \in FlipFlops

CpuTypes ==
  /\ current_state \in CpuState
  /\ wishdat \in [we : BOOLEAN, data : Value, word : Words] \cup {None}
  /\ dbg_ack_o \in BOOLEAN
  /\ dbg_answer \in Answer
  /\ machine \in Machine

LEMMA TckEdgeTypes ==
  ASSUME TypeOK, TckEdge
  PROVE  /\ CpuTypes'
         /\ stb_ff' \in FlipFlops
         /\ ack_ff' \in FlipFlops /\ stalled_ff' \in FlipFlops
<1>1. machine.stalled \in BOOLEAN
  BY DEF TypeOK, Machine
<1> QED BY <1>1, ShiftType DEF TypeOK, TckEdge, cpuVars, CpuTypes

LEMMA TapTickTypes ==
  ASSUME TypeOK, NEW st \in TapState, NEW c \in Command \cup {None},
         NEW stb \in BOOLEAN, NEW req \in Command \cup {None},
         NEW out \in Answer \cup StallBit \cup {Busy, Nothing},
         TckEdge, TapTickFrom(st, c, stb, req, out)
  PROVE  TypeOK'
<1>1. [err |-> TRUE, data |-> 0] \in Answer
  BY SprAssumption DEF Answer
<1>2. output_reg' \in Answer \cup StallBit \cup {Busy, Nothing}
  BY <1>1 DEF TypeOK, TapTickFrom
<1>3. /\ current_cpu_state' \in TapState
      /\ current_cmd' \in Command \cup {None}
      /\ cpu_stb_o' \in BOOLEAN
      /\ cpu_request' \in Command \cup {None}
  BY DEF TapTickFrom, TapState
<1>4. seen_stalled' \in SUBSET StallStatus
  BY DEF TypeOK, TapTickFrom, StallStatus, Status
<1> QED BY <1>2, <1>3, <1>4, TckEdgeTypes DEF TypeOK, CpuTypes

LEMMA CpuTickTypes ==
  ASSUME TypeOK, CpuTypes', WbClkEdge
  PROVE  TypeOK'
<1>1. stb_ff' \in FlipFlops
  BY ShiftType DEF TypeOK, WbClkEdge
<1>2. seen_stalled' \in SUBSET StallStatus
  BY DEF TypeOK, WbClkEdge, StallStatus, Status
<1>3. TapTypes'
  BY DEF TypeOK, TapTypes, WbClkEdge, tapVars
<1> QED BY <1>1, <1>2, <1>3 DEF TypeOK, TapTypes, CpuTypes

LEMMA StartOperationTypes ==
  ASSUME TypeOK, StartsWishbone \/ StartsWrite \/ StartsRead, UNCHANGED dbg_ack_o
  PROVE  CpuTypes'
<1>1. CASE StartsWishbone
  <2>1. current_cmd.data \in Value /\ Word(current_cmd.data) \in Words
    BY <1>1 DEF StartsWishbone, WriteCommand, Words
  <2>2. machine.write_mem_addr \in Words
    BY DEF TypeOK, Machine
  <2> QED BY <1>1, <2>1, <2>2 DEF TypeOK, StartsWishbone, CpuTypes, CpuState
<1>2. CASE StartsWrite
  <2>1. machine' \in Machine
    BY <1>2, WriteSprType DEF TypeOK, StartsWrite
  <2>2. dbg_answer' \in Answer
    BY <1>2 DEF StartsWrite, Answer, WriteFails
  <2> QED BY <1>2, <2>1, <2>2 DEF TypeOK, StartsWrite, CpuTypes, CpuState
<1>3. CASE StartsRead
  BY <1>3 DEF TypeOK, StartsRead, CpuTypes, CpuState
<1> QED BY <1>1, <1>2, <1>3

LEMMA TypeOKStep ==
  ASSUME HandshakeInv, Next
  PROVE  TypeOK'
<1> USE DEF HandshakeInv
<1>1. CASE TapTick
  BY <1>1, TapTickTypes DEF TapTick, TypeOK
<1>2. CASE \E c \in Command : TapUpdateSpr(c)
  BY <1>2, TapTickTypes DEF TapUpdateSpr, TapState
<1>3. CASE TapUpdateNop
  BY <1>3, TapTickTypes DEF TapUpdateNop, TapState
<1>4. CASE TapUpdateIsCpuStalled
  <2>1. [status |-> stalled_ff.out] \in StallBit
    BY DEF TypeOK, FlipFlops, StallBit
  <2> QED BY <1>4, <2>1, TapTickTypes DEF TapUpdateIsCpuStalled, TapState
<1>5. CASE TapReset
  BY <1>5, TckEdgeTypes DEF TapReset, TypeOK, CpuTypes, TapState
<1>6. CASE CpuNext
  <2> SUFFICES CpuTypes' /\ WbClkEdge
    BY CpuTickTypes
  <2> USE DEF TypeOK, CpuTypes, CpuState
  <2>1. CASE AssertReset
    BY <2>1 DEF AssertReset
  <2>2. CASE DoReset
    BY <2>2, AfterResetType DEF DoReset
  <2>3. CASE RunBusy
    BY <2>3 DEF RunBusy
  <2>4. CASE RunDebug
    BY <2>4, StartOperationCases, StartOperationTypes DEF RunDebug
  <2>5. CASE RunInstruction
    BY <2>5, SoftwareEffectsType DEF RunInstruction
  <2>6. CASE RunStop
    BY <2>6 DEF RunStop, Machine
  <2>7. CASE Stalled
    BY <2>7, StartOperationCases, StartOperationTypes DEF Stalled
  <2>8. CASE RegFileRead
    <3>1. PICK c \in Sampled :
            dbg_answer' = [err |-> ReadFails(c.spr), data |-> ReadBack(machine, c.spr)]
      BY <2>8 DEF RegFileRead
    <3>2. c \in Command
      BY <3>1, SampledIsCommand, <2>8 DEF RegFileRead
    <3>3. c.spr \in Spr
      BY <3>2 DEF Command, ReadCommand, WriteCommand
    <3>4. dbg_answer' \in Answer
      BY <3>1, <3>3, ReadBackType DEF Answer, ReadFails
    <3> QED BY <2>8, <3>4 DEF RegFileRead
  <2>9. CASE WishboneWait
    BY <2>9 DEF WishboneWait
  <2>10. CASE WishboneEnds
    <3>1. wishdat \in [we : BOOLEAN, data : Value, word : Words]
      <4>1. current_cmd \in WriteCommand
        <5>1. current_cpu_state = "WAITING_FOR_ACK"
          BY <2>10 DEF WishboneEnds, StrobeInv, FlipFlops
        <5> QED BY <5>1, <2>10 DEF WishboneEnds, RequestInv, NeedsWishbone,
                 Command, ReadCommand, WriteCommand
      <4>2. current_cmd.data \in Value /\ Word(current_cmd.data) \in Words
        BY <4>1 DEF WriteCommand, Words
      <4>3. machine.write_mem_addr \in Words
        BY DEF Machine
      <4>4. wishdat = [we |-> current_cmd.spr = "WRITE_MEM_DATA",
                       data |-> current_cmd.data,
                       word |-> IF current_cmd.spr = "READ_MEM_ADDR"
                                  THEN Word(current_cmd.data)
                                  ELSE machine.write_mem_addr]
        BY <2>10 DEF WishboneEnds, RequestInv
      <4> QED BY ONLY <4>2, <4>3, <4>4
    <3>2. machine.mem[wishdat.word] \in Value
      BY <3>1 DEF Machine
    <3>3. dbg_answer' \in Answer
      <4>1. \/ dbg_answer' = [err |-> FALSE, data |-> X]
            \/ dbg_answer' = [err |-> FALSE, data |-> machine.mem[wishdat.word]]
            \/ dbg_answer' = [err |-> TRUE, data |-> X]
        BY <2>10, <3>1 DEF WishboneEnds
      <4>2. /\ [err |-> FALSE, data |-> X] \in Answer
            /\ [err |-> TRUE, data |-> X] \in Answer
            /\ [err |-> FALSE, data |-> machine.mem[wishdat.word]] \in Answer
        BY ONLY <3>2 DEF Answer
      <4> QED BY ONLY <4>1, <4>2
    <3>4. [machine.mem EXCEPT ![wishdat.word] = wishdat.data] \in [Words -> Value]
      BY <3>1 DEF Machine
    <3>5. machine' \in Machine
      BY <2>10, <3>1, <3>4 DEF WishboneEnds, Machine
    <3> QED BY <2>10, <3>3, <3>5 DEF WishboneEnds
  <2>11. CASE AckAssert
    BY <2>11 DEF AckAssert
  <2>12. CASE StbDeassert
    BY <2>12 DEF StbDeassert, Answer
  <2> QED BY <1>6, <2>1, <2>2, <2>3, <2>4, <2>5, <2>6, <2>7, <2>8, <2>9, <2>10,
             <2>11, <2>12 DEF CpuNext
<1> QED BY <1>1, <1>2, <1>3, <1>4, <1>5, <1>6 DEF Next, TapNext

-----------------------------------------------------------------------------
(* The theorems.                                                           *)

LEMMA InitHandshake ==
  ASSUME Init
  PROVE  HandshakeInv
<1>1. TypeOK
  BY DEF Init, TypeOK, TapState, CpuState, FlipFlops, Answer, StallStatus
<1>2. StrobeInv /\ AckInv /\ AnswerInv /\ StallStatusInv
  <2>1. machine.stalled \in BOOLEAN
    BY <1>1 DEF TypeOK, Machine
  <2> QED BY <2>1 DEF Init, StrobeInv, AckInv, AnswerInv, StallStatusInv,
                   StallStatus, Status
<1>3. RequestInv
  BY DEF Init, RequestInv
<1> QED BY <1>1, <1>2, <1>3 DEF HandshakeInv

(* The handshake invariant holds in every reachable state, if the client   *)
(* waits for its replies and no reset comes while dbg_ack_o is up.         *)
THEOREM HandshakeInvariant ==
  PatientClient /\ ResetWhen # "always" /\ Spec => []HandshakeInv
<1> SUFFICES ASSUME PatientClient, ResetWhen # "always"
             PROVE  Spec => []HandshakeInv
  OBVIOUS
<1>1. Init => HandshakeInv
  BY InitHandshake
<1>2. HandshakeInv /\ [Next]_vars => HandshakeInv'
  <2> SUFFICES ASSUME HandshakeInv, [Next]_vars
               PROVE  HandshakeInv'
    OBVIOUS
  <2>1. CASE Next
    BY <2>1, TypeOKStep, StrobeInvStep, AckInvStep, RequestInvStep, AnswerInvStep,
       StallStatusInvStep DEF HandshakeInv
  <2>2. CASE UNCHANGED vars
    BY <2>2 DEF vars, tapVars, cpuVars, HandshakeInv, TypeOK, StrobeInv, AckInv,
       RequestInv, AnswerInv, StallStatusInv
  <2> QED BY <2>1, <2>2
<1> QED BY <1>1, <1>2, PTL DEF Spec

(* Every register keeps its type.                                          *)
THEOREM TypeCorrect ==
  PatientClient /\ ResetWhen # "always" /\ Spec => []TypeOK
<1>1. HandshakeInv => TypeOK
  BY DEF HandshakeInv
<1> QED BY <1>1, HandshakeInvariant, PTL

(* The CPU never reads request wires that the TAP is changing.             *)
THEOREM RequestIsStable ==
  PatientClient /\ ResetWhen # "always" /\ Spec => []RequestStable
<1>1. HandshakeInv => RequestStable
  BY SampledIsCommand DEF RequestStable
<1> QED BY <1>1, HandshakeInvariant, PTL

(* The TAP never latches answer wires that the CPU is changing.            *)
THEOREM AnswerIsStable ==
  PatientClient /\ ResetWhen # "always" /\ Spec => []AnswerStable
<1>1. HandshakeInv => AnswerStable
  BY DEF HandshakeInv, TypeOK, FlipFlops, AckInv, AnswerInv, AnswerStable
<1> QED BY <1>1, HandshakeInvariant, PTL

(* The stall status a client reads is never older than its last command.   *)
THEOREM StallStatusIsNotStale ==
  PatientClient /\ ResetWhen # "always" /\ Spec => []StallStatusNotStale
<1>1. HandshakeInv => StallStatusNotStale
  BY DEF HandshakeInv, StallStatusInv, StallStatusNotStale
<1> QED BY <1>1, HandshakeInvariant, PTL

-----------------------------------------------------------------------------
(* DebugPort implements SprPort, while no reset interferes.                *)

(* An SPR access that ends in the CPU is the abstract step Perform.        *)
LEMMA PerformStep ==
  ASSUME current_cpu_state = "WAITING_FOR_ACK", UNCHANGED tapVars,
         current_state \notin {"ACK_ASSERT", "STB_DEASSERT"},
         current_state' = "ACK_ASSERT",
         [machine |-> machine', answer |-> dbg_answer']
           \in Abstract!Outcome(current_cmd, machine)
  PROVE  Abstract!Perform
<1>1. ~Performed /\ Performed'
  BY DEF Performed, tapVars
<1> QED BY <1>1 DEF Abstract!Perform, tapVars

(* A step of the CPU that neither ends an access nor touches the machine   *)
(* is invisible to the client.                                             *)
LEMMA InvisibleStep ==
  ASSUME UNCHANGED <<tapVars, machine>>, Performed' = Performed,
         Performed => UNCHANGED dbg_answer
  PROVE  UNCHANGED Abstract!pvars
BY DEF Abstract!pvars, tapVars

LEMMA TapImplements ==
  ASSUME PatientClient, HandshakeInv, HandshakeInv', TapNext
  PROVE  Abstract!Next \/ UNCHANGED Abstract!pvars
<1> USE DEF TckEdge, cpuVars
<1>1. CASE TapTick
  <2>1. CASE current_cpu_state = "WAITING_FOR_ACK" /\ ack_ff.out
    <3>1. Performed
      BY <2>1 DEF HandshakeInv, TypeOK, FlipFlops, AckInv, Performed
    <3>2. /\ current_cpu_state' = "IDLE" /\ UNCHANGED machine
          /\ output_reg' = Abstract!Delivered(dbg_answer)
      BY <1>1, <2>1 DEF TapTick, TapTickFrom, Abstract!Delivered
    <3>3. ~Performed'
      BY <3>2 DEF Performed
    <3>4. Abstract!Deliver
      BY <2>1, <3>1, <3>2, <3>3 DEF Abstract!Deliver
    <3> QED BY <3>4 DEF Abstract!Next
  <2>2. CASE ~(current_cpu_state = "WAITING_FOR_ACK" /\ ack_ff.out)
    <3>1. /\ (current_cpu_state = "IDLE") = (current_cpu_state' = "IDLE")
          /\ UNCHANGED <<current_cmd, machine, current_state, dbg_answer>>
          /\ output_reg' = output_reg
      BY <1>1, <2>2 DEF TapTick, TapTickFrom, HandshakeInv, RequestInv
    <3>2. Performed' = Performed
      <4>1. current_cpu_state = "DATA_WRITTEN"
            => current_state \notin {"ACK_ASSERT", "STB_DEASSERT"}
        BY DEF HandshakeInv, TypeOK, FlipFlops, StrobeInv, AckInv
      <4>2. \/ current_cpu_state' = current_cpu_state
            \/ {current_cpu_state, current_cpu_state'} =
                 {"WAITING_FOR_CPU_IDLE", "DATA_WRITTEN"}
            \/ current_cpu_state = "DATA_WRITTEN"
        BY <1>1, <2>2 DEF TapTick, TapTickFrom
      <4> QED BY <3>1, <4>1, <4>2 DEF Performed
    <3> QED BY <3>1, <3>2 DEF Abstract!pvars
  <2> QED BY <2>1, <2>2
<1>2. CASE \E c \in Command : TapUpdateSpr(c)
  <2>1. PICK c \in Command : TapUpdateSpr(c)
    BY <1>2
  <2>2. /\ current_cpu_state = "IDLE" /\ current_cmd' = c /\ UNCHANGED machine
        /\ current_cpu_state' \in {"WAITING_FOR_CPU_IDLE", "DATA_WRITTEN"}
        /\ output_reg' = Busy
    BY <2>1 DEF TapUpdateSpr, TapTickFrom, MayUpdate
  <2>3. ~Performed /\ ~Performed'
    BY <2>2 DEF Performed
  <2>4. Abstract!Issue(c)
    BY <2>2, <2>3 DEF Abstract!Issue
  <2>5. Abstract!Command = Command
    BY DEF Abstract!Command, Abstract!ReadCommand, Abstract!WriteCommand, Abstract!Spr,
       Abstract!DebugUnitSpr, Command, ReadCommand, WriteCommand, Spr, DebugUnitSpr
  <2> QED BY <2>4, <2>5 DEF Abstract!Next
<1>3. CASE TapUpdateNop \/ TapUpdateIsCpuStalled
  <2>1. /\ current_cpu_state = "IDLE" /\ current_cpu_state' = "IDLE"
        /\ UNCHANGED machine
        /\ output_reg' \in {Nothing, [status |-> stalled_ff.out]}
    BY <1>3 DEF TapUpdateNop, TapUpdateIsCpuStalled, TapTickFrom, MayUpdate
  <2>2. output_reg' \in {Nothing} \cup Abstract!StallBit
    BY <2>1 DEF HandshakeInv, TypeOK, FlipFlops, Abstract!StallBit
  <2>3. ~Performed /\ ~Performed'
    BY <2>1 DEF Performed
  <2>4. Abstract!Ask
    BY <2>1, <2>2, <2>3 DEF Abstract!Ask
  <2> QED BY <2>4 DEF Abstract!Next
<1>4. CASE TapReset
  BY <1>4 DEF TapReset, MayUpdate, Performed, Abstract!pvars
<1> QED BY <1>1, <1>2, <1>3, <1>4 DEF TapNext

LEMMA StartOperationImplements ==
  ASSUME HandshakeInv, current_state \in {"RUNNING", "STALLED"}, stb_ff.out,
         StartOperation, UNCHANGED tapVars
  PROVE  Abstract!Next \/ UNCHANGED Abstract!pvars
<1>1. current_cpu_state = "WAITING_FOR_ACK"
  BY SampledIsCommand
<1>2. CASE StartsWrite
  <2>1. [machine |-> machine', answer |-> dbg_answer']
          \in Abstract!Outcome(current_cmd, machine)
    <3>1. /\ Abstract!WriteSpr(machine, current_cmd.spr, current_cmd.data) = machine'
          /\ Abstract!WriteFails(current_cmd.spr, current_cmd.data) = dbg_answer'.err
      BY <1>2 DEF StartsWrite, Abstract!WriteSpr, WriteSpr, Abstract!WriteFails,
         WriteFails, Abstract!IsAligned, IsAligned, Abstract!Word, Word
    <3> QED BY <1>2, <3>1 DEF StartsWrite, Abstract!Outcome, Abstract!NeedsWishbone,
               NeedsWishbone
  <2>2. Abstract!Perform
    BY <1>1, <1>2, <2>1, PerformStep DEF StartsWrite
  <2> QED BY <2>2 DEF Abstract!Next
<1>3. CASE StartsWishbone \/ StartsRead
  BY <1>3, InvisibleStep DEF StartsWishbone, StartsRead, Performed
<1> QED BY <1>2, <1>3, StartOperationCases

LEMMA CpuImplements ==
  ASSUME ResetWhen = "never", HandshakeInv, CpuNext
  PROVE  Abstract!Next \/ UNCHANGED Abstract!pvars
<1> USE DEF WbClkEdge, Performed
<1>1. ~AssertReset
  BY DEF AssertReset
<1>2. CASE DoReset
  <2>1. Abstract!Reset
    BY <1>2 DEF DoReset, Abstract!Reset, Abstract!AfterReset, AfterReset, tapVars
  <2> QED BY <2>1 DEF Abstract!Next
<1>3. CASE RunBusy
  BY <1>3, InvisibleStep DEF RunBusy
<1>4. CASE RunDebug
  BY <1>4, InvisibleStep, StartOperationImplements DEF RunDebug
<1>5. CASE RunInstruction
  <2>1. Abstract!Software
    BY <1>5 DEF RunInstruction, Abstract!Software, Abstract!SoftwareEffects,
       SoftwareEffects, Abstract!Words, Words, Abstract!Word, Word, tapVars
  <2> QED BY <2>1 DEF Abstract!Next
<1>6. CASE RunStop
  <2>1. CASE machine.stalled
    <3>1. UNCHANGED machine
      BY <1>6, <2>1 DEF RunStop, HandshakeInv, TypeOK, Machine
    <3> QED BY <1>6, <3>1, InvisibleStep DEF RunStop
  <2>2. CASE ~machine.stalled
    <3>1. machine' \in Abstract!SoftwareEffects(machine)
      BY <1>6 DEF RunStop, Abstract!SoftwareEffects
    <3>2. Abstract!Software
      BY <1>6, <2>2, <3>1 DEF RunStop, Abstract!Software, tapVars
    <3> QED BY <3>2 DEF Abstract!Next
  <2> QED BY <2>1, <2>2
<1>7. CASE Stalled
  BY <1>7, InvisibleStep, StartOperationImplements DEF Stalled
<1>8. CASE RegFileRead
  <2>1. /\ current_cpu_state = "WAITING_FOR_ACK" /\ ~current_cmd.we
        /\ Sampled = {current_cmd}
    BY <1>8, SampledIsCommand DEF RegFileRead, HandshakeInv, RequestInv
  <2>2. [machine |-> machine', answer |-> dbg_answer']
          \in Abstract!Outcome(current_cmd, machine)
    BY <1>8, <2>1 DEF RegFileRead, Abstract!Outcome, Abstract!NeedsWishbone,
       Abstract!ReadFails, ReadFails, Abstract!ReadBack, ReadBack
  <2>3. Abstract!Perform
    BY <1>8, <2>1, <2>2, PerformStep DEF RegFileRead
  <2> QED BY <2>3 DEF Abstract!Next
<1>9. CASE WishboneWait
  BY <1>9, InvisibleStep DEF WishboneWait
<1>10. CASE WishboneEnds
  <2>1. /\ current_cpu_state = "WAITING_FOR_ACK"
        /\ NeedsWishbone(current_cmd)
        /\ wishdat = [we |-> current_cmd.spr = "WRITE_MEM_DATA",
                      data |-> current_cmd.data,
                      word |-> IF current_cmd.spr = "READ_MEM_ADDR"
                                 THEN Word(current_cmd.data)
                                 ELSE machine.write_mem_addr]
    BY <1>10 DEF WishboneEnds, HandshakeInv, TypeOK, FlipFlops, StrobeInv, RequestInv
  <2>2. [machine |-> machine', answer |-> dbg_answer']
          \in Abstract!Outcome(current_cmd, machine)
    BY <1>10, <2>1 DEF WishboneEnds, Abstract!Outcome, Abstract!NeedsWishbone,
       NeedsWishbone, Abstract!Word, Word
  <2>3. Abstract!Perform
    BY <1>10, <2>1, <2>2, PerformStep DEF WishboneEnds
  <2> QED BY <2>3 DEF Abstract!Next
<1>11. CASE AckAssert
  BY <1>11, InvisibleStep DEF AckAssert, tapVars
<1>12. CASE StbDeassert
  <2>1. ~stb_ff.out => current_cpu_state # "WAITING_FOR_ACK"
    BY <1>12 DEF StbDeassert, HandshakeInv, TypeOK, FlipFlops, StrobeInv
  <2> QED BY <1>12, <2>1, InvisibleStep DEF StbDeassert, tapVars
<1> QED BY <1>1, <1>2, <1>3, <1>4, <1>5, <1>6, <1>7, <1>8, <1>9, <1>10, <1>11,
           <1>12 DEF CpuNext

(* Each SPR command of a patient client takes effect exactly once, and its *)
(* reply is the one of that effect, while no reset interferes.             *)
THEOREM DebugPortImplementsSprPort ==
  PatientClient /\ ResetWhen = "never" /\ Spec => ImplementsSprPort
<1> SUFFICES ASSUME PatientClient, ResetWhen = "never"
             PROVE  Spec => ImplementsSprPort
  OBVIOUS
<1>1. Init => Abstract!Init
  BY DEF Init, Abstract!Init, Performed, Abstract!Machine, Machine,
     Abstract!Words, Words, Abstract!Word, Word
<1>2. HandshakeInv /\ HandshakeInv' /\ [Next]_vars => [Abstract!Next]_(Abstract!pvars)
  <2> SUFFICES ASSUME HandshakeInv, HandshakeInv', [Next]_vars
               PROVE  Abstract!Next \/ UNCHANGED Abstract!pvars
    OBVIOUS
  <2>1. CASE UNCHANGED vars
    BY <2>1 DEF vars, tapVars, cpuVars, Abstract!pvars, Performed
  <2> QED BY <2>1, TapImplements, CpuImplements DEF Next
<1>3. Spec => []HandshakeInv
  BY HandshakeInvariant
<1> QED BY <1>1, <1>2, <1>3, PTL DEF Spec, ImplementsSprPort, Abstract!Spec
=============================================================================

----------------------------- MODULE DbgMemory -----------------------------
(***************************************************************************)
(* The memory accesses of dbg_api.cpp: ranges of bytes at any address,     *)
(* over a Debug Interface that knows whole words only.  One action is one  *)
(* access over JTAG, with the computation up to the next one.              *)
(***************************************************************************)
EXTENDS Integers, Sequences

CONSTANTS
    ByteBase,       \* values of a byte: 256
    WordCount       \* words of the address space, which wraps: 2^30

ASSUME DbgMemoryAssumption ==
    /\ ByteBase \in Nat \ {0}
    /\ WordCount \in Nat \ {0}

VARIABLES
    mem,            \* the words of the memory
    bad,            \* the words that answer with a Wishbone error
    write_mem_addr, \* OR1200_DU_WRITE_MEM_ADDR in the CPU
    access          \* the routine that runs, with its local variables

memory == <<mem, bad, write_mem_addr>>

Byte == 0 .. ByteBase - 1
Word == 0 .. WordCount - 1
Address == 0 .. 4 * WordCount - 1
Quad == [1 .. 4 -> Byte]    \* b1 to b4
WordValue == 0 .. ByteBase * ByteBase * ByteBase * ByteBase - 1

AddTo(addr, n) == (addr + n) % (4 * WordCount)
Smaller(m, n) == IF m < n THEN m ELSE n

\* Mutant: little endian.
AssembleReversed(b) ==
    ((b[4] * ByteBase + b[3]) * ByteBase + b[2]) * ByteBase + b[1]

\* The CPU is big endian.
break_up_into_bytes(val) ==
    <<(val \div (ByteBase * ByteBase * ByteBase)) % ByteBase,
      (val \div (ByteBase * ByteBase)) % ByteBase, (val \div ByteBase) % ByteBase, val % ByteBase>>
assemble_bytes(b) ==
    ((b[1] * ByteBase + b[2]) * ByteBase + b[3]) * ByteBase + b[4]

NoAccess == [at |-> "none", addr |-> 0, byte_pos |-> 0, left |-> 0,
             data |-> <<>>, bytes |-> [k \in 1 .. 4 |-> 0]]

MemoryTypeOK ==
    /\ mem \in [Word -> WordValue]
    /\ bad \subseteq Word /\ write_mem_addr \in Word
    /\ access \in [at : {"none", "read", "load", "address", "data", "done", "failed"},
                   addr : {4 * w : w \in Word}, byte_pos : 0 .. 3, left : Nat,
                   data : Seq(Byte), bytes : Quad]

\* The word behind the address the routine has reached.
CurrentWord == access.addr \div 4

-----------------------------------------------------------------------------
(* dbg_cpu0_read_mem                                                       *)

StartReadMem(start_addr, byte_count) ==
    access' = [NoAccess EXCEPT !.at = "read", !.addr = start_addr - (start_addr % 4),
                               !.byte_pos = start_addr % 4, !.left = byte_count]

\* Mutant: the position in the word is kept when the next word begins.
ReadWordKeepsPosition ==
    /\ access.at = "read" /\ UNCHANGED memory
    /\ LET n == Smaller(4 - access.byte_pos, access.left)
           b == break_up_into_bytes(mem[CurrentWord])
       IN  access' = IF CurrentWord \in bad THEN [access EXCEPT !.at = "done"]
                     ELSE [access EXCEPT
                           !.at = IF access.byte_pos + n = 4 /\ access.left > n
                                  THEN "read" ELSE "done",
                           !.addr = AddTo(@, 4), !.left = @ - n,
                           !.data = @ \o SubSeq(b, access.byte_pos + 1, access.byte_pos + n)]

\* Whenever the last byte of a word is used up the next word is read, at the
\* end of the range too.  An error ends the routine with the bytes it has.
ReadWord ==
    /\ access.at = "read" /\ UNCHANGED memory
    /\ LET n == Smaller(4 - access.byte_pos, access.left)
           b == break_up_into_bytes(mem[CurrentWord])
       IN  access' = IF CurrentWord \in bad THEN [access EXCEPT !.at = "done"]
                     ELSE [access EXCEPT
                           !.at = IF access.byte_pos + n = 4 THEN "read" ELSE "done",
                           !.addr = AddTo(@, 4), !.byte_pos = 0, !.left = @ - n,
                           !.data = @ \o SubSeq(b, access.byte_pos + 1, access.byte_pos + n)]

-----------------------------------------------------------------------------
(* dbg_cpu0_write_mem_2                                                    *)

\* Mutant: only an unaligned start is loaded first.
LoadsFirstUnaligned(byte_pos, byte_count) == byte_pos # 0

\* Some bytes of the first word are not overwritten.
LoadsFirst(byte_pos, byte_count) == byte_pos # 0 \/ byte_count < 4

\* b1 to b4 start with what the stack held.
StartWriteMem(start_addr, data) ==
    \E garbage \in {0, ByteBase - 1} :
        access' = [at |-> IF LoadsFirst(start_addr % 4, Len(data)) THEN "load" ELSE "address",
                   addr |-> start_addr - (start_addr % 4), byte_pos |-> start_addr % 4,
                   left |-> 0, data |-> data, bytes |-> [k \in 1 .. 4 |-> garbage]]

LoadWord ==
    /\ access.at = "load" /\ UNCHANGED memory
    /\ access' = IF CurrentWord \in bad THEN [access EXCEPT !.at = "failed"]
                 ELSE [access EXCEPT !.at = "address",
                                     !.bytes = break_up_into_bytes(mem[CurrentWord])]

\* The address is aligned, the CPU takes it without an error.
SetWriteAddress ==
    /\ access.at = "address"
    /\ write_mem_addr' = CurrentWord
    /\ access' = [access EXCEPT !.at = "data"]
    /\ UNCHANGED <<mem, bad>>

\* How many bytes of the current word are overwritten.
Overwritten == Smaller(4 - access.byte_pos, Len(access.data))
MergedBytes ==
    [k \in 1 .. 4 |-> IF k - access.byte_pos \in 1 .. Overwritten
                      THEN access.data[k - access.byte_pos] ELSE access.bytes[k]]

\* Mutant: the last word is not loaded before some of its bytes are written.
AfterStoreBlindly ==
    IF Len(access.data) = Overwritten THEN "done" ELSE "address"

\* After a word that leaves less than four bytes the next one is loaded.
AfterStore ==
    IF Len(access.data) = Overwritten THEN "done"
    ELSE IF Len(access.data) - Overwritten < 4 THEN "load" ELSE "address"

\* Mutant: a bus error goes unnoticed.
StoreWordDeaf ==
    /\ access.at = "data"
    /\ mem' = IF write_mem_addr \in bad THEN mem
              ELSE [mem EXCEPT ![write_mem_addr] = assemble_bytes(MergedBytes)]
    /\ access' = [access EXCEPT
                   !.at = AfterStore, !.addr = AddTo(@, 4), !.byte_pos = 0,
                   !.data = SubSeq(@, Overwritten + 1, Len(@)), !.bytes = MergedBytes]
    /\ UNCHANGED <<bad, write_mem_addr>>

StoreWord ==
    /\ access.at = "data" /\ UNCHANGED <<bad, write_mem_addr>>
    /\ IF write_mem_addr \in bad
       THEN access' = [access EXCEPT !.at = "failed"] /\ UNCHANGED mem
       ELSE /\ mem' = [mem EXCEPT ![write_mem_addr] = assemble_bytes(MergedBytes)]
            /\ access' = [access EXCEPT
                   !.at = AfterStore, !.addr = AddTo(@, 4), !.byte_pos = 0,
                   !.data = SubSeq(@, Overwritten + 1, Len(@)), !.bytes = MergedBytes]

AccessStep == ReadWord \/ LoadWord \/ SetWriteAddress \/ StoreWord
=============================================================================

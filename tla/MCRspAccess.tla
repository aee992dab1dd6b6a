---------------------------- MODULE MCRspAccess ----------------------------
(***************************************************************************)
(* RspAccess on a memory of five words, of which one may not answer, with  *)
(* requests that begin and end anywhere in a word, wrap at the end of the  *)
(* address space, are too long, have a length that wraps, or are malformed *)
(* otherwise.  Byte a of the memory is a modulo 12 at the beginning, and   *)
(* GDB writes 12 to 15.                                                    *)
(***************************************************************************)
EXTENDS RspAccess

Hex(v) == <<get_hex_char(v)>>
Pair(v) == Hex(v \div 4) \o Hex(v % 4)
m(addr, count) == <<ReadMem>> \o Hex(addr) \o Hex(count)
M(addr, count, chars) == <<WriteMem>> \o Hex(addr) \o Hex(count) \o chars
P(reg, val) == <<WriteReg>> \o Hex(reg) \o Hex(val)
Monitor(command, arguments) == <<Query, Rcmd, command>> \o arguments
Rising(n) == FlattenSeq([i \in 1 .. n |-> Pair(12 + (i % 4))])

MemoryRequests ==
    {m(3, 6), m(0, 4), m(14, 4), m(1, 8), m(1, 11), m(4, 0),
     M(2, 4, Rising(4)), M(4, 4, Rising(4)), M(3, 5, Rising(5)), M(14, 3, Rising(3)),
     M(5, 1, Rising(1)), M(4, 2, Rising(1)), M(8, 2, Rising(2)), M(8, 11, Rising(1)),
     M(4, 0, <<>>), M(0, 6, Rising(6))}
OtherRequests ==
    {P(0, 1), P(PPC_REGNUM, 1), P(NPC_REGNUM, 2), P(15, 1), <<WriteReg>>, <<ReadRegs>>,
     Monitor(104, <<>>), Monitor(114, Hex(SPR_SR)), Monitor(114, <<>>),
     Monitor(119, Hex(TTMR) \o Hex(1)), Monitor(122, <<>>), Monitor(97, <<>>),
     <<Query, 83>>, <<Query, 97>>, <<Query>>, <<118, 75>>, <<88>>, <<63>>, <<97>>,
     <<KillRequest>>, <<GDB_RSP_BREAK_CMD>>,
     <<WriteMem>> \o [i \in 1 .. 15 |-> get_hex_char(0)]}
\* Any request, and then one that shows what it has left behind.
TwoRequests ==
    <<MemoryRequests \cup OtherRequests,
      {m(3, 6), M(3, 5, Rising(5)), <<ReadRegs>>, Monitor(104, <<>>)}>>

\* TLC reads from left to right: what Init chooses from is narrowed first.
MCInit ==
    /\ mem = [w \in Word |-> assemble_bytes([k \in 1 .. 4 |-> (4 * w + k - 1) % 12])]
    /\ write_mem_addr = 0 /\ bad \in {{}, {1}}
    /\ regs = [spr \in Spr |-> 0]
    /\ Init

MCSpec == MCInit /\ [][Next]_vars
MCFairSpec == MCSpec /\ Fairness
=============================================================================

---------------------------- MODULE MCJtagChain -----------------------------
(* Instances of JtagChain: ID codes of 1 + 3 + 2 bits, a marker of three.  *)
EXTENDS JtagChain

Ids == [or10 |-> <<1, 0, 1, 1, 0, 1>>, other |-> <<1, 1, 0, 1, 1, 0>>, noid |-> <<>>]

Usual == [chain |-> <<"or10">>, trst |-> FALSE, tdo |-> "ok",
          target |-> 0, ir_length |-> 0, debug_cmd |-> <<>>, bsdl |-> "full"]

\* The OR10 alone with and without options and TRST, which serve, and what
\* does not: wrong or missing options, other chains, a TDO that is not wired.
\* An opcode on the command line is not checked: the program serves with that
\* of another instruction, or of none.
SomeSetups ==
    {Usual, [Usual EXCEPT !.trst = TRUE, !.ir_length = 4, !.debug_cmd = Opcode.DEBUG,
                          !.bsdl = "no DEBUG"]} \cup
    {[Usual EXCEPT !.ir_length = n, !.debug_cmd = c, !.bsdl = "none"] :
        n \in {0, 4}, c \in {<<>>, Opcode.DEBUG}} \cup
    {[Usual EXCEPT !.ir_length = n] : n \in {3, 5}} \cup
    {[Usual EXCEPT !.bsdl = "no DEBUG"], [Usual EXCEPT !.target = 1]} \cup
    {[Usual EXCEPT !.chain = c, !.ir_length = 4, !.debug_cmd = Opcode.DEBUG] :
        c \in {<<"noid">>, <<"other", "noid">>, <<"noid", "or10">>,
               <<"or10", "noid", "other">>}} \cup
    {[Usual EXCEPT !.tdo = t] : t \in {"0", "1"}} \cup
    {[Usual EXCEPT !.debug_cmd = c] : c \in {Opcode.IDCODE, Opcode.BYPASS, <<1, 1>>}}

SomeCalls ==
    {[kind |-> "stalled"], [kind |-> "read", spr |-> <<1>>],
     [kind |-> "write", spr |-> <<0>>, data |-> <<1, 1>>],
     [kind |-> "write and read", spr |-> <<1>>, data |-> <<0, 1>>]}
=============================================================================

---------------------------- MODULE MCDebugPort ----------------------------
(* Instances of DebugPort for TLC.                                         *)
EXTENDS DebugPort

(* Three words: an odd one (EDIS stall), an even one, a second address.    *)
MCValue == {0, 1, 4}
MCSmallValue == {0, 1}

(* A client that abandons operations, and a CPU that is reset: it is enough *)
(* that the client stalls the CPU, reads a register and reads the memory,  *)
(* one command for each path of the CPU through the handshake.             *)
RoughCommands ==
  {[we |-> TRUE, spr |-> "EDIS", data |-> 1],
   [we |-> FALSE, spr |-> "EDIS", data |-> X],
   [we |-> TRUE, spr |-> "READ_MEM_ADDR", data |-> 0]}
=============================================================================

------------------------------ MODULE JtagCable -----------------------------
(***************************************************************************)
(* What a JTAG cable promises chain_commands: a call that reports success  *)
(* has made exactly one clock for each of its bits, in their order, and    *)
(* has returned for each bit what TDO showed before the rising edge of its *)
(* clock.  A call may fail part-way; then it says so, and how far it got   *)
(* and what the chain saw is open.  So it is when a transfer of the call   *)
(* with the cable goes wrong unseen.                                       *)
(***************************************************************************)
EXTENDS Integers, Sequences, SequencesExt

CONSTANT NoCall

VARIABLES
    call,    \* [read, packets]: whether TDO is wanted, and for each bit what
             \* the chain may see of it on TDI, TMS and TRST
    edges,   \* what the chain saw at each rising edge of TCK
    unseen,  \* a transfer of the call has gone wrong, and nobody saw it
    reply    \* of the last call, until the next: [err, bits]

vars == <<call, edges, unseen, reply>>

\* A bit returned is the number of the clock before whose rising edge TDO
\* was sampled.
Samples(c) == IF c.read THEN [i \in 1 .. Len(c.packets) |-> {i}] ELSE <<>>

Clocked(c) ==
    /\ Len(edges) = Len(c.packets)
    /\ \A i \in 1 .. Len(edges) : edges[i] \in c.packets[i]

Init == call = NoCall /\ edges = <<>>

Begin ==
    /\ call = NoCall /\ call' # NoCall
    /\ edges' = <<>> /\ ~unseen'

Clock ==
    /\ call # NoCall
    /\ IsPrefix(edges, edges')
    /\ unseen => unseen'
    /\ UNCHANGED <<call, reply>>

Return ==
    /\ call # NoCall /\ call' = NoCall
    /\ \/ reply'.err
       \/ unseen
       \/ Clocked(call) /\ reply'.bits = Samples(call)
    /\ UNCHANGED <<edges, unseen>>

Next == Begin \/ Clock \/ Return

Spec == Init /\ [][Next]_vars
=============================================================================

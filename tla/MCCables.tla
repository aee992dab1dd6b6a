------------------------------ MODULE MCCables ------------------------------
(* Instances of CableDrivers: two-bit bytes, words of two bytes.           *)
EXTENDS CableDrivers

AllDrivers == DOMAIN Table

Bit(tms, trst) == <<[tdi |-> 1, tms |-> tms, trst |-> trst]>>
Stream(n, last) == [i \in 1 .. n |-> [tdi |-> i, tms |-> last /\ i = n, trst |-> FALSE]]

Bits == [read : {FALSE}, packets : {Bit(FALSE, FALSE), Bit(TRUE, FALSE), Bit(FALSE, TRUE)}] \cup
        [read : {TRUE}, packets : {Bit(FALSE, FALSE)}]
Writes(lengths) == [read : {FALSE}, packets : {Stream(n, l) : n \in lengths, l \in BOOLEAN}]
Reads(lengths) == [read : {TRUE}, packets : {Stream(n, l) : n \in lengths, l \in BOOLEAN}]

\* Single bits, with TMS and with TRST; streams of less than a word and of more,
\* of one byte and of three, in one burst and in two, with and without leftovers
\* and TMS; a read as long as one answer.
ManyCalls == Bits \cup Writes({2, 6, 7}) \cup Reads({3, 6})

\* The calls are such as the theorems about the drivers take.
ASSUME TheCallsOfTheTheorems == CallsOfChainCommands
=============================================================================

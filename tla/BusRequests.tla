---------------------------- MODULE BusRequests ----------------------------
(***************************************************************************)
(* The requests that the masters of the Wishbone bus of the OR10 SoC can   *)
(* issue, the memory behind the slaves, and the effect and the answer of a *)
(* request.  WishboneSwitch runs them through the switch and the slaves,   *)
(* clock by clock; AtomicBus performs each in one step.                    *)
(***************************************************************************)
EXTENDS Naturals

CONSTANTS
    MasterCount,  \* masters are numbered by priority, 0 being the highest
    Slaves,       \* slave ports of the switch
    DefaultSlave, \* slave 0, which gets every address no other slave claims
    Unused,       \* ports wired to refuse every request at once
    Slow,         \* slaves that may insert wait states
    Address, SlaveOf,  \* word addresses, and the port each is routed to
    InBounds,     \* addresses that exist inside their slave
    Lane, Byte,   \* byte lanes of the bus and what one can carry
    Offered,      \* requests the masters issue
    None

Masters == 0 .. MasterCount - 1
Word == [Lane -> Byte]
Request == [we : BOOLEAN, adr : Address, sel : SUBSET Lane, dat : Word]
Memory == [InBounds -> Word]

\* ok is wb_ack, its absence wb_err; a write leaves the data lines undefined.
Reply == [ok : BOOLEAN, dat : Word \cup {None}]
Refusal == [ok |-> FALSE, dat |-> None]

ASSUME BusAssumption ==
    /\ MasterCount \in Nat \ {0}
    /\ DefaultSlave \in Slaves /\ Unused \subseteq Slaves /\ Slow \subseteq Slaves
    /\ Slow \cap Unused = {}
    /\ SlaveOf \in [Address -> Slaves] /\ InBounds \subseteq Address
    /\ Offered \subseteq Request
    /\ None \notin Request \cup Reply \cup Masters

Served(r) == SlaveOf[r.adr] \notin Unused /\ r.adr \in InBounds

Performed(mem, r) ==
    IF r.we
    THEN [mem EXCEPT ![r.adr] = [l \in Lane |-> IF l \in r.sel THEN r.dat[l] ELSE @[l]]]
    ELSE mem

Answer(mem, r) ==
    IF Served(r) THEN [ok |-> TRUE, dat |-> IF r.we THEN None ELSE mem[r.adr]]
                 ELSE Refusal
=============================================================================

-------------------------- MODULE MCWishboneSwitch --------------------------
(* Two masters, a RAM, a slave with wait states and an unused port.        *)
EXTENDS WishboneSwitch

MCSlaveOf == [a \in Address |-> CASE a \in {"ram", "beyond"} -> "s0"
                                  [] a = "uart" -> "s1"
                                  [] OTHER -> "s2"]

\* Full and partial writes and reads, of every address.
Both(b) == [l \in Lane |-> b]
MCOffered ==
    {[we |-> FALSE, adr |-> a, sel |-> Lane, dat |-> Both(0)] : a \in Address}
    \cup {[we |-> TRUE, adr |-> a, sel |-> Lane, dat |-> Both(1)] : a \in Address}
    \cup {[we |-> TRUE, adr |-> "ram", sel |-> {l}, dat |-> Both(1)] : l \in Lane}
=============================================================================

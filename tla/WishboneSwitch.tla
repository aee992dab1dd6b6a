--------------------------- MODULE WishboneSwitch ---------------------------
(***************************************************************************)
(* The Wishbone switch (WishboneSwitch/simple_wishbone_switch.v) between   *)
(* masters that hold a request until it is answered, the synchronous RAM   *)
(* (Memory/generic_single_port_synchronous_ram_32.v), slaves with wait     *)
(* states, and unused ports wired as the comments of the switch say.       *)
(*                                                                         *)
(* Every action but Reset is one posedge of wb_clk_i; the combinational    *)
(* lines of the switch are the operators above the actions.                *)
(***************************************************************************)
EXTENDS BusRequests

VARIABLES
    req,        \* what each master drives; None is wb_cyc = wb_stb = 0
    locked,     \* locked_master_index, None while ~is_master_locked
    master_must_still_be_requesting,
    answer,     \* wb_ack_o, wb_err_o and wb_dat_o, as registered by each slave
    mem

vars == <<req, locked, master_must_still_be_requesting, answer, mem>>

TypeOK ==
    /\ req \in [Masters -> Offered \cup {None}]
    /\ locked \in Masters \cup {None}
    /\ master_must_still_be_requesting \subseteq Masters
    /\ answer \in [Slaves -> Reply \cup {None}]
    /\ mem \in Memory

-----------------------------------------------------------------------------
(* Combinational lines.                                                    *)

Requesting == {m \in Masters : req[m] # None}

\* Mutant: the lowest priority wins.
LowestPriorityRequestingMaster ==
    IF Requesting = {} THEN 0
    ELSE CHOOSE m \in Requesting : \A other \in Requesting : other <= m

HighestPriorityRequestingMaster ==
    IF Requesting = {} THEN 0
    ELSE CHOOSE m \in Requesting : \A other \in Requesting : m <= other

\* Mutant: a master of higher priority interrupts a transaction in flight.
MasterToConnectNowUnlocked == HighestPriorityRequestingMaster

MasterToConnectNow ==
    IF locked # None THEN locked ELSE HighestPriorityRequestingMaster

Selected == req[MasterToConnectNow]

\* With no request the address lines are undefined: the default slave.
SlaveToConnectNow ==
    IF Selected = None THEN DefaultSlave ELSE SlaveOf[Selected.adr]

SelectedAnswer ==
    IF SlaveToConnectNow \in Unused
    THEN IF Selected # None THEN Refusal ELSE None
    ELSE answer[SlaveToConnectNow]

AnswerTo(m) == IF m = MasterToConnectNow THEN SelectedAnswer ELSE None

-----------------------------------------------------------------------------
(* What the other modules on the bus do at the clock edge.                 *)

\* A master goes on when it is answered; until then it holds its request.
MastersAdvance ==
    req' \in {next \in [Masters -> Offered \cup {None}] :
                \A m \in Masters :
                    req[m] # None /\ AnswerTo(m) = None => next[m] = req[m]}

\* Mutant: the slave does not finish its answer before it begins anew.
BeginsWithoutPause(s) ==
    Selected # None /\ SlaveToConnectNow = s /\ s \notin Unused

\* is_beginning_of_wishbone_operation
Begins(s) ==
    Selected # None /\ SlaveToConnectNow = s /\ s \notin Unused /\ answer[s] = None

\* ready: the slave inserts no wait state at this edge.
SlavesAdvance(ready) ==
    /\ ready \/ SlaveToConnectNow \in Slow
    /\ answer' = [s \in Slaves |-> IF ready /\ Begins(s) THEN Answer(mem, Selected)
                                                         ELSE None]
    /\ mem' = IF ready /\ (\E s \in Slaves : Begins(s)) /\ Served(Selected)
              THEN Performed(mem, Selected) ELSE mem

Edge(ready) == MastersAdvance /\ SlavesAdvance(ready)

-----------------------------------------------------------------------------
(* The clocked part of the switch.                                         *)

StillRequesting ==
    master_must_still_be_requesting' = master_must_still_be_requesting \cup Requesting

BusIdle ==
    /\ locked = None /\ Requesting = {}
    /\ UNCHANGED locked /\ StillRequesting /\ Edge(TRUE)

\* Mutant: the index of the locked master is one too high.
TransactionBeginsOffByOne(ready) ==
    /\ locked = None /\ Requesting # {} /\ SelectedAnswer = None
    /\ locked' = HighestPriorityRequestingMaster + 1
    /\ StillRequesting /\ Edge(ready)

TransactionBegins(ready) ==
    /\ locked = None /\ Requesting # {} /\ SelectedAnswer = None
    /\ locked' = HighestPriorityRequestingMaster
    /\ StillRequesting /\ Edge(ready)

SingleCycleTransaction ==
    /\ locked = None /\ Requesting # {} /\ SelectedAnswer # None
    /\ UNCHANGED locked /\ StillRequesting /\ Edge(TRUE)

TransactionInFlight(ready) ==
    /\ locked # None /\ SelectedAnswer = None
    /\ UNCHANGED locked /\ StillRequesting /\ Edge(ready)

TransactionEnds ==
    /\ locked # None /\ SelectedAnswer # None
    /\ locked' = None
    /\ master_must_still_be_requesting' =
         (master_must_still_be_requesting \cup Requesting) \ {locked}
    /\ Edge(TRUE)

\* wb_rst_i, which reaches every module on the bus.
Reset ==
    /\ req' = [m \in Masters |-> None]
    /\ locked' = None
    /\ master_must_still_be_requesting' = {}
    /\ answer' = [s \in Slaves |-> None]
    /\ UNCHANGED mem

Init ==
    /\ req = [m \in Masters |-> None]
    /\ locked = None
    /\ master_must_still_be_requesting = {}
    /\ answer = [s \in Slaves |-> None]
    /\ mem \in Memory

ReadyEdge ==
    \/ BusIdle \/ SingleCycleTransaction \/ TransactionEnds
    \/ TransactionBegins(TRUE) \/ TransactionInFlight(TRUE)

Next ==
    \/ ReadyEdge \/ TransactionBegins(FALSE) \/ TransactionInFlight(FALSE)
    \/ Reset

Spec == Init /\ [][Next]_vars

\* The clock runs, and a slave does not insert wait states for ever.
FairSpec == Spec /\ WF_vars(ReadyEdge)

-----------------------------------------------------------------------------
(***************************************************************************)
(* Safety                                                                  *)
(***************************************************************************)

\* Consistency check 3 of the switch: a slave answers only while the switch
\* routes a request to it, which is the locked master's.
SlavesAnswerWhenAsked ==
    \A s \in Slaves : answer[s] # None =>
        locked # None /\ Selected # None /\ SlaveToConnectNow = s

\* Consistency check 1 of the switch, asserted at every edge: a master whose
\* request was seen has it still.  Not so after SingleCycleTransaction, which
\* does not clear the flag: it holds only while Unused is empty.
MastersKeepRequesting == master_must_still_be_requesting \subseteq Requesting

\* Every request is performed exactly once, alone, and answered to the master
\* that posted it, with the data it is to get.
Atomic == INSTANCE AtomicBus WITH reply <- [m \in Masters |-> AnswerTo(m)]
ImplementsAtomicBus == Atomic!Spec

(***************************************************************************)
(* Liveness                                                                *)
(***************************************************************************)

\* The master of the highest priority gets its answer; any other one does if
\* those above it leave the bus now and then (or a reset takes its request).
EveryMasterServed ==
    \A m \in Masters :
        []<>(\A higher \in 0 .. m - 1 : req[higher] = None)
          => (req[m] # None ~> AnswerTo(m) # None \/ req[m] = None)

=============================================================================

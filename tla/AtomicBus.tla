----------------------------- MODULE AtomicBus -----------------------------
(***************************************************************************)
(* What the masters of the Wishbone bus may rely on, whatever the switch   *)
(* and the slaves do underneath: each master posts a request, the memory   *)
(* performs the posted requests one at a time, each exactly once and in    *)
(* one step, and the answer a master gets is the one of its own request.   *)
(* A request that nothing serves is refused without being performed.       *)
(***************************************************************************)
EXTENDS BusRequests

VARIABLES
    req,     \* the request each master has posted
    reply,   \* the answer each master is being given
    mem

bus == <<req, reply, mem>>

\* A master may post a request when it has none, or when it got its answer.
MasterStep(m) ==
    IF req[m] = None \/ reply[m] # None THEN req'[m] \in Offered \cup {None}
                                        ELSE req'[m] = req[m]

\* An answer is given for one step; only a refusal needs no performing.
ReplyStep(m) ==
    \/ reply'[m] = None
    \/ req'[m] # None /\ ~Served(req'[m]) /\ reply'[m] = Refusal

Others(ms) == \A m \in Masters \ ms : MasterStep(m) /\ ReplyStep(m)

PerformNothing == mem' = mem /\ Others({})

Perform(m) ==
    /\ req[m] # None /\ Served(req[m]) /\ reply[m] = None
    /\ mem' = Performed(mem, req[m])
    /\ req'[m] = req[m] /\ reply'[m] = Answer(mem, req[m])
    /\ Others({m})

\* A reset gives up all requests and keeps the memory.
Reset == mem' = mem /\ \A m \in Masters : req'[m] = None /\ reply'[m] = None

Init == \A m \in Masters : req[m] = None /\ reply[m] = None

Next == PerformNothing \/ Reset \/ \E m \in Masters : Perform(m)

Spec == Init /\ [][Next]_bus

=============================================================================

----------------------- MODULE WishboneSwitch_proofs -----------------------
(***************************************************************************)
(* Proofs about WishboneSwitch, for every number of masters and slaves,    *)
(* every address map and every set of requests: the switch and its slaves  *)
(* are an atomic bus.                                                      *)
(***************************************************************************)
EXTENDS WishboneSwitch, WellFoundedInduction, TLAPS

(***************************************************************************)
(* The inductive invariant.  The master that is locked in has a request,   *)
(* and only the slave this request is routed to can be answering.          *)
(***************************************************************************)
LockInv ==
    /\ locked # None => req[locked] # None
    /\ \A s \in Slaves : answer[s] # None =>
           locked # None /\ s \notin Unused /\ SlaveOf[req[locked].adr] = s

Inv == TypeOK /\ LockInv

-----------------------------------------------------------------------------
(* Some requesting master has the highest priority: numbers are well       *)
(* founded, so that a nonempty set of masters has a least element.         *)
LEMMA HighestPriorityExists ==
    ASSUME Requesting # {}
    PROVE  HighestPriorityRequestingMaster \in Requesting
<1> DEFINE R == {p \in Nat \X Nat : p[1] < p[2]}
<1>1. Requesting \subseteq Nat
  BY BusAssumption DEF Requesting, Masters
<1>2. IsWellFoundedOn(R, Nat)
  BY NatLessThanWellFounded DEF OpToRel
<1>3. PICK m \in Requesting : \A other \in Requesting : <<other, m>> \notin R
  <2> HIDE DEF R
  <2> QED BY <1>1, <1>2, WFMin
<1>4. ASSUME NEW other \in Requesting
      PROVE  m <= other
  <2>1. ~(other < m)
    BY <1>1, <1>3
  <2> QED BY <1>1, <2>1
<1> QED BY <1>4 DEF HighestPriorityRequestingMaster

(* The master connected now is a master, and one with a request if there   *)
(* is any.                                                                 *)
LEMMA ConnectedMaster ==
    ASSUME Inv
    PROVE  /\ MasterToConnectNow \in Masters
           /\ Requesting # {} => Selected # None
           /\ Requesting = {} => Selected = None
           /\ Selected # None => Selected \in Offered
<1>1. 0 \in Masters
  BY BusAssumption DEF Masters
<1>2. HighestPriorityRequestingMaster \in Masters
  BY <1>1, HighestPriorityExists DEF HighestPriorityRequestingMaster, Requesting
<1>3. MasterToConnectNow \in Masters
  BY <1>2 DEF MasterToConnectNow, Inv, TypeOK
<1>4. Requesting # {} => Selected # None
  BY HighestPriorityExists DEF Requesting, Selected, MasterToConnectNow, Inv, LockInv
<1>5. Requesting = {} => Selected = None
  BY <1>3 DEF Requesting, Selected
<1>6. Selected # None => Selected \in Offered
  BY <1>3 DEF Selected, Inv, TypeOK
<1> QED BY <1>3, <1>4, <1>5, <1>6

-----------------------------------------------------------------------------
(* Every clock edge has the same shape: masters and slaves move, and the   *)
(* connected master is locked in for as long as its request is unanswered. *)
Clocked == ReadyEdge \/ TransactionBegins(FALSE) \/ TransactionInFlight(FALSE)

Waiting == Selected # None /\ SelectedAnswer = None

EdgeShape ==
    /\ \E ready \in BOOLEAN : Edge(ready)
    /\ locked' = IF Waiting THEN MasterToConnectNow ELSE None
    /\ master_must_still_be_requesting' \subseteq master_must_still_be_requesting \cup Requesting

LEMMA ClockedShape ==
    ASSUME Inv, Clocked
    PROVE  EdgeShape
<1> USE ConnectedMaster DEF EdgeShape, Waiting, StillRequesting
<1>1. CASE BusIdle
  BY <1>1 DEF BusIdle
<1>2. CASE SingleCycleTransaction
  BY <1>2 DEF SingleCycleTransaction
<1>3. CASE TransactionEnds
  BY <1>3 DEF TransactionEnds
<1>4. ASSUME NEW ready \in BOOLEAN, TransactionBegins(ready)
      PROVE  EdgeShape
  BY <1>4 DEF TransactionBegins, MasterToConnectNow
<1>5. ASSUME NEW ready \in BOOLEAN, TransactionInFlight(ready)
      PROVE  EdgeShape
  BY <1>5 DEF TransactionInFlight, MasterToConnectNow, Selected, Inv, LockInv
<1> QED BY <1>1, <1>2, <1>3, <1>4, <1>5 DEF Clocked, ReadyEdge

(* A slave that answers has begun at this edge, for the connected master,  *)
(* which keeps its request.                                                *)
LEMMA SlaveAnswers ==
    ASSUME Inv, EdgeShape, NEW s \in Slaves, answer'[s] # None
    PROVE  /\ Begins(s) /\ Waiting
           /\ answer'[s] = Answer(mem, Selected)
           /\ locked' = MasterToConnectNow /\ locked' # None
           /\ req'[locked'] = Selected
           /\ SlaveOf[Selected.adr] = s
<1>1. PICK ready \in BOOLEAN : Edge(ready)
  BY DEF EdgeShape
<1>2. Begins(s) /\ answer'[s] = Answer(mem, Selected)
  BY <1>1 DEF Edge, SlavesAdvance
<1>3. Waiting
  BY <1>2 DEF Begins, Waiting, SelectedAnswer
<1>4. MasterToConnectNow \in Masters /\ MasterToConnectNow # None
  BY ConnectedMaster, BusAssumption
<1>5. locked' = MasterToConnectNow
  BY <1>3 DEF EdgeShape
<1>6. req'[MasterToConnectNow] = req[MasterToConnectNow]
  BY <1>1, <1>3, <1>4 DEF Edge, MastersAdvance, Waiting, AnswerTo, Selected
<1>7. SlaveOf[Selected.adr] = s
  BY <1>2 DEF Begins, SlaveToConnectNow
<1> QED BY <1>2, <1>3, <1>4, <1>5, <1>6, <1>7 DEF Selected

-----------------------------------------------------------------------------
(* Types.                                                                  *)

(* Performing a request leaves a memory, and its answer is an answer.      *)
LEMMA PerformedType ==
    ASSUME TypeOK, NEW r \in Offered, Served(r)
    PROVE  Performed(mem, r) \in Memory
<1>1. r \in Request /\ r.adr \in InBounds
  BY BusAssumption DEF Served
<1>2. CASE r.we
  <2> DEFINE w == [l \in Lane |-> IF l \in r.sel THEN r.dat[l] ELSE mem[r.adr][l]]
  <2>1. mem[r.adr] \in Word /\ r.dat \in Word
    BY <1>1 DEF TypeOK, Memory, Request
  <2>2. w \in Word
    BY <2>1 DEF Word
  <2>3. Performed(mem, r) = [mem EXCEPT ![r.adr] = w]
    BY <1>2 DEF Performed
  <2> HIDE DEF w
  <2> QED BY <1>1, <2>2, <2>3 DEF TypeOK, Memory
<1>3. CASE ~r.we
  BY <1>3 DEF Performed, TypeOK
<1> QED BY <1>2, <1>3

LEMMA AnswerType ==
    ASSUME TypeOK, NEW r \in Offered
    PROVE  Answer(mem, r) \in Reply
<1>1. r \in Request
  BY BusAssumption
<1>2. CASE Served(r)
  <2>1. mem[r.adr] \in Word
    BY <1>2 DEF Served, TypeOK, Memory
  <2> QED BY <1>2, <2>1 DEF Answer, Reply
<1>3. CASE ~Served(r)
  BY <1>3 DEF Answer, Refusal, Reply
<1> QED BY <1>2, <1>3

LEMMA EdgeKeepsType ==
    ASSUME Inv, EdgeShape
    PROVE  TypeOK'
<1>1. PICK ready \in BOOLEAN : Edge(ready)
  BY DEF EdgeShape
<1>2. req' \in [Masters -> Offered \cup {None}]
  BY <1>1 DEF Edge, MastersAdvance
<1>3. locked' \in Masters \cup {None}
  BY ConnectedMaster DEF EdgeShape
<1>4. (master_must_still_be_requesting \subseteq Masters)'
  BY DEF EdgeShape, Requesting, Inv, TypeOK
<1>5. answer' \in [Slaves -> Reply \cup {None}]
  <2>1. Selected # None => Answer(mem, Selected) \in Reply
    BY ConnectedMaster, AnswerType DEF Inv
  <2>2. \A s \in Slaves : Begins(s) => Selected # None
    BY DEF Begins
  <2> QED BY <1>1, <2>1, <2>2 DEF Edge, SlavesAdvance
<1>6. mem' \in Memory
  <2>1. CASE ready /\ (\E s \in Slaves : Begins(s)) /\ Served(Selected)
    <3>1. Selected \in Offered
      BY <2>1, ConnectedMaster DEF Begins
    <3>2. Performed(mem, Selected) \in Memory
      BY <2>1, <3>1, PerformedType DEF Inv
    <3> QED BY <1>1, <2>1, <3>2 DEF Edge, SlavesAdvance
  <2>2. CASE ~(ready /\ (\E s \in Slaves : Begins(s)) /\ Served(Selected))
    BY <1>1, <2>2 DEF Edge, SlavesAdvance, Inv, TypeOK
  <2> QED BY <2>1, <2>2
<1> QED BY <1>2, <1>3, <1>4, <1>5, <1>6 DEF TypeOK

-----------------------------------------------------------------------------
(* The invariant.                                                          *)

LEMMA EdgeKeepsLock ==
    ASSUME Inv, EdgeShape
    PROVE  LockInv'
<1>1. PICK ready \in BOOLEAN : Edge(ready)
  BY DEF EdgeShape
<1>2. ASSUME locked' # None
      PROVE  req'[locked'] # None
  <2>1. Waiting /\ locked' = MasterToConnectNow
    BY <1>2 DEF EdgeShape
  <2>2. req'[MasterToConnectNow] = req[MasterToConnectNow]
    BY <1>1, <2>1, ConnectedMaster DEF Edge, MastersAdvance, Waiting, AnswerTo, Selected
  <2> QED BY <2>1, <2>2 DEF Waiting, Selected
<1>3. ASSUME NEW s \in Slaves, answer'[s] # None
      PROVE  locked' # None /\ s \notin Unused /\ SlaveOf[req'[locked'].adr] = s
  BY <1>3, SlaveAnswers DEF Begins
<1> QED BY <1>2, <1>3 DEF LockInv

LEMMA InitInv == Init => Inv
<1> SUFFICES ASSUME Init PROVE Inv
  OBVIOUS
<1>1. TypeOK
  BY DEF Init, TypeOK
<1>2. LockInv
  BY DEF Init, LockInv
<1> QED BY <1>1, <1>2 DEF Inv

LEMMA NextInv == Inv /\ [Next]_vars => Inv'
<1> SUFFICES ASSUME Inv, [Next]_vars PROVE Inv'
  OBVIOUS
<1>1. CASE Clocked
  BY <1>1, ClockedShape, EdgeKeepsType, EdgeKeepsLock DEF Inv
<1>2. CASE Reset
  BY <1>2 DEF Reset, Inv, TypeOK, LockInv
<1>3. CASE UNCHANGED vars
  BY <1>3 DEF vars, Inv, TypeOK, LockInv
<1> QED BY <1>1, <1>2, <1>3 DEF Next, Clocked

(* The lock and the slaves agree in every reachable state.                 *)
THEOREM SwitchInvariant == Spec => []Inv
BY InitInv, NextInv, PTL DEF Spec

(* Every register of the switch and of the slaves keeps its type.          *)
THEOREM SwitchTypeCorrect == Spec => []TypeOK
<1>1. Inv => TypeOK
  BY DEF Inv
<1> QED BY <1>1, SwitchInvariant, PTL

(* A slave answers only while the request of the locked master is routed   *)
(* to it: check_slave_response_is_consistent never fails.                  *)
THEOREM SlavesOnlyAnswerWhenAsked == Spec => []SlavesAnswerWhenAsked
<1>1. Inv => SlavesAnswerWhenAsked
  BY DEF Inv, LockInv, SlavesAnswerWhenAsked, Selected, MasterToConnectNow,
     SlaveToConnectNow
<1> QED BY <1>1, SwitchInvariant, PTL
-----------------------------------------------------------------------------
(* The refinement: the edge at which a slave begins a request it serves    *)
(* performs it, every other edge performs nothing.                         *)

LEMMA SameBus ==
    /\ Atomic!Masters = Masters
    /\ Atomic!Refusal = Refusal
    /\ \A r : Atomic!Served(r) <=> Served(r)
    /\ \A r : Atomic!Performed(mem, r) = Performed(mem, r)
    /\ \A r : Atomic!Answer(mem, r) = Answer(mem, r)
BY DEF Atomic!Masters, Masters, Atomic!Refusal, Refusal, Atomic!Served, Served,
       Atomic!Performed, Performed, Atomic!Answer, Answer

(* A master that has not got its answer holds its request.                 *)
LEMMA EveryMasterSteps ==
    ASSUME EdgeShape, NEW m \in Masters
    PROVE  Atomic!MasterStep(m)
<1>1. PICK ready \in BOOLEAN : Edge(ready)
  BY DEF EdgeShape
<1> QED BY <1>1 DEF Edge, MastersAdvance, Atomic!MasterStep

(* Without a request on the bus no master is being answered.               *)
LEMMA NoRequestNoAnswer ==
    ASSUME \A m \in Masters : req[m] = None, locked = None,
           \A s \in Slaves : answer[s] = None, NEW m \in Masters
    PROVE  AnswerTo(m) = None
<1>1. MasterToConnectNow \in Masters
  BY BusAssumption DEF MasterToConnectNow, HighestPriorityRequestingMaster,
     Requesting, Masters
<1>2. Selected = None /\ SlaveToConnectNow \in Slaves
  BY <1>1, BusAssumption DEF Selected, SlaveToConnectNow
<1> QED BY <1>2 DEF AnswerTo, SelectedAnswer

(* The answer after an edge: only the slave that has just begun gives one  *)
(* to a served request, all else is the refusal of an unserved one.        *)
LEMMA AnswerAfterEdge ==
    ASSUME Inv, Inv', EdgeShape, NEW m \in Masters, AnswerTo(m)' # None
    PROVE  \/ \E s \in Slaves :
                /\ Begins(s) /\ answer'[s] # None
                /\ m = MasterToConnectNow /\ AnswerTo(m)' = Answer(mem, Selected)
           \/ req'[m] # None /\ ~Served(req'[m]) /\ AnswerTo(m)' = Refusal
<1>1. m = MasterToConnectNow' /\ AnswerTo(m)' = SelectedAnswer' /\ SelectedAnswer' # None
  BY DEF AnswerTo
<1>2. CASE SlaveToConnectNow' \in Unused
  <2>1. Selected' # None /\ SelectedAnswer' = Refusal
    BY <1>1, <1>2 DEF SelectedAnswer
  <2>2. Selected' = req'[m]
    BY <1>1 DEF Selected
  <2>3. SlaveOf[req'[m].adr] \in Unused
    BY <1>2, <2>1, <2>2 DEF SlaveToConnectNow
  <2> QED BY <1>1, <2>1, <2>2, <2>3 DEF Served
<1>3. CASE SlaveToConnectNow' \notin Unused
  <2> DEFINE s == SlaveToConnectNow'
  <2>1. answer'[s] # None /\ SelectedAnswer' = answer'[s]
    BY <1>1, <1>3 DEF SelectedAnswer
  <2>2. s \in Slaves
    <3>1. Selected' # None => Selected' \in Request
      BY <1>1, BusAssumption DEF Selected, Inv, TypeOK
    <3> QED BY <3>1, BusAssumption DEF SlaveToConnectNow, Request
  <2>3. Begins(s) /\ answer'[s] = Answer(mem, Selected) /\ locked' = MasterToConnectNow
        /\ locked' # None
    BY <2>1, <2>2, SlaveAnswers
  <2>4. m = MasterToConnectNow
    BY <1>1, <2>3 DEF MasterToConnectNow
  <2> QED BY <1>1, <2>1, <2>2, <2>3, <2>4
<1> QED BY <1>2, <1>3

(* One step per case: the edge at which a served request begins, and every *)
(* other edge.                                                             *)
LEMMA EdgeImplements ==
    ASSUME Inv, Inv', EdgeShape
    PROVE  Atomic!Next
<1>1. PICK ready \in BOOLEAN : Edge(ready)
  BY DEF EdgeShape
<1> DEFINE Performs(s) == ready /\ Begins(s) /\ Served(Selected)
<1>2. CASE \E s \in Slaves : Performs(s)
  <2>1. PICK s \in Slaves : Performs(s)
    BY <1>2
  <2> PICK m \in Masters : m = MasterToConnectNow
    BY ConnectedMaster
  <2>2. answer'[s] = Answer(mem, Selected) /\ answer'[s] # None
    <3>1. answer'[s] = Answer(mem, Selected)
      BY <1>1, <2>1 DEF Edge, SlavesAdvance
    <3>2. Selected \in Offered
      BY <2>1, ConnectedMaster DEF Begins
    <3>3. Answer(mem, Selected) \in Reply
      BY <3>2, AnswerType DEF Inv
    <3> QED BY <3>1, <3>3, BusAssumption
  <2>3. m # None /\ locked' = m /\ req'[m] = req[m]
    BY <2>2, SlaveAnswers, ConnectedMaster DEF Selected
  <2>4. req[m] # None /\ Served(req[m]) /\ AnswerTo(m) = None
    BY <2>1, <2>3 DEF Begins, AnswerTo, SelectedAnswer, Selected
  <2>5. MasterToConnectNow' = m
    BY <2>3 DEF MasterToConnectNow
  <2>6. AnswerTo(m)' = Answer(mem, req[m])
    <3>1. Selected' = req[m] /\ SlaveToConnectNow' = s /\ s \notin Unused
      BY <2>1, <2>3, <2>5 DEF Selected, SlaveToConnectNow, Begins
    <3>2. SelectedAnswer' = answer'[s]
      BY <3>1 DEF SelectedAnswer
    <3> QED BY <2>2, <2>5, <3>2 DEF AnswerTo, Selected
  <2>7. \A other \in Masters \ {m} : AnswerTo(other)' = None
    BY <2>5 DEF AnswerTo
  <2>8. mem' = Performed(mem, req[m])
    BY <1>1, <2>1 DEF Edge, SlavesAdvance, Selected
  <2>9. Atomic!Others({m})
    BY <2>7, EveryMasterSteps, SameBus DEF Atomic!Others, Atomic!ReplyStep
  <2>10. Atomic!Perform(m)
    BY <2>3, <2>4, <2>6, <2>8, <2>9, SameBus DEF Atomic!Perform
  <2> QED BY <2>3, <2>10, SameBus DEF Atomic!Next
<1>3. CASE \A s \in Slaves : ~Performs(s)
  <2>1. mem' = mem
    BY <1>1, <1>3 DEF Edge, SlavesAdvance
  <2>2. ASSUME NEW m \in Masters
        PROVE  Atomic!ReplyStep(m)
    <3>1. CASE AnswerTo(m)' = None
      BY <3>1 DEF Atomic!ReplyStep
    <3>2. CASE AnswerTo(m)' # None
      <4>1. ASSUME NEW s \in Slaves, Begins(s), answer'[s] # None, m = MasterToConnectNow,
                   AnswerTo(m)' = Answer(mem, Selected)
            PROVE  req'[m] # None /\ ~Served(req'[m]) /\ AnswerTo(m)' = Refusal
        <5>1. ready
          BY <1>1, <4>1 DEF Edge, SlavesAdvance
        <5>2. ~Served(Selected)
          BY <1>3, <4>1, <5>1
        <5>3. req'[m] = Selected /\ Selected # None
          BY <4>1, SlaveAnswers DEF Begins
        <5> QED BY <4>1, <5>2, <5>3 DEF Answer
      <4>2. req'[m] # None /\ ~Served(req'[m]) /\ AnswerTo(m)' = Refusal
        BY <3>2, <4>1, AnswerAfterEdge
      <4> QED BY <4>2, SameBus DEF Atomic!ReplyStep
    <3> QED BY <3>1, <3>2
  <2>3. Atomic!Others({})
    BY <2>2, EveryMasterSteps, SameBus DEF Atomic!Others
  <2> QED BY <2>1, <2>3 DEF Atomic!PerformNothing, Atomic!Next
<1> QED BY <1>2, <1>3

LEMMA ResetImplements ==
    ASSUME Reset
    PROVE  Atomic!Next
<1>1. \A m \in Masters : req'[m] = None /\ AnswerTo(m)' = None
  <2>1. MasterToConnectNow' \in Masters
    BY BusAssumption DEF Reset, MasterToConnectNow, HighestPriorityRequestingMaster,
       Requesting, Masters
  <2>2. Selected' = None /\ SlaveToConnectNow' \in Slaves
    BY <2>1, BusAssumption DEF Reset, Selected, SlaveToConnectNow
  <2> QED BY <2>2 DEF Reset, AnswerTo, SelectedAnswer
<1> QED BY <1>1, SameBus DEF Reset, Atomic!Reset, Atomic!Next

(* Whatever the masters, the slaves and the address map, every request is  *)
(* performed once and alone, and answered to the master that posted it.    *)
THEOREM SwitchImplementsAtomicBus == Spec => ImplementsAtomicBus
<1>1. Init => Atomic!Init
  BY NoRequestNoAnswer, SameBus DEF Init, Atomic!Init
<1>2. Inv /\ Inv' /\ [Next]_vars => [Atomic!Next]_(Atomic!bus)
  <2> SUFFICES ASSUME Inv, Inv', [Next]_vars PROVE [Atomic!Next]_(Atomic!bus)
    OBVIOUS
  <2>1. CASE Clocked
    BY <2>1, ClockedShape, EdgeImplements
  <2>2. CASE Reset
    BY <2>2, ResetImplements
  <2>3. CASE UNCHANGED vars
    BY <2>3 DEF vars, Atomic!bus, AnswerTo, SelectedAnswer, SlaveToConnectNow, Selected,
       MasterToConnectNow, HighestPriorityRequestingMaster, Requesting
  <2> QED BY <2>1, <2>2, <2>3 DEF Next, Clocked
<1> QED BY <1>1, <1>2, SwitchInvariant, PTL DEF Spec, ImplementsAtomicBus, Atomic!Spec
=============================================================================

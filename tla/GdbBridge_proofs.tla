-------------------------- MODULE GdbBridge_proofs --------------------------
(***************************************************************************)
(* Proofs about GdbBridge, for every set of addresses and every number of  *)
(* breakpoint registers, with whatever earlier sessions have left in them. *)
(* First, the bridge always knows the state of the CPU it decides by, and  *)
(* lets the CPU go when a session ends.  Then, a hardware breakpoint GDB   *)
(* counts on is armed.  The bridge clears a register only for a packet on  *)
(* the socket, so that invariant is about the socket: what may be on its   *)
(* way in each state of GDB and of the bridge.  The same invariant bounds  *)
(* how much is on its way, and completes the types.                        *)
(***************************************************************************)
EXTENDS GdbBridge, TLAPS

Cpu == [stalled : BOOLEAN, drr : {"none", "TE"}, dsr : BOOLEAN, st : BOOLEAN,
        dvr : Watchpoints]

(***************************************************************************)
(* The inductive invariant: the CPU cannot start by itself, and it cannot  *)
(* stop without leaving DRR or being in the step mode, of which the bridge *)
(* has an exact copy.                                                      *)
(***************************************************************************)
StoppedForAReason ==
    pc \in Serving /\ is_target_running /\ cpu.stalled =>
        cpu.drr = "TE" \/ is_in_single_step_mode

SlowWhenStopped == pc \in Serving /\ ~is_target_running => cpu_poll_speed = "SLOW"

Inv ==
    /\ cpu \in Cpu
    /\ StoppedMeansStalled /\ CopiesAreExact /\ CpuIsReleased
    /\ StoppedForAReason /\ SlowWhenStopped

LEMMA InitInv == Init => Inv
<1> SUFFICES ASSUME Init PROVE Inv
  OBVIOUS
<1>1. cpu \in Cpu
  BY DEF Init, Cpu, Watchpoints
<1>2. pc \notin Serving /\ pc \notin {"listening", "exited"}
  BY DEF Init, Serving
<1> QED BY <1>1, <1>2 DEF Inv, StoppedMeansStalled, CopiesAreExact, CpuIsReleased,
           StoppedForAReason, SlowWhenStopped

(* Steps that change nothing the invariant speaks of.                      *)
LEMMA OthersKeepInv ==
    ASSUME Inv, UNCHANGED <<pc, rsp, cpu>>
    PROVE  Inv'
BY DEF Inv, rsp, StoppedMeansStalled, CopiesAreExact, CpuIsReleased,
       StoppedForAReason, SlowWhenStopped

(* A step that stays in, or comes to, a session: what is left to show.     *)
LEMMA InSession ==
    ASSUME pc' \in Serving, cpu' \in Cpu, cpu'.dsr,
           is_in_single_step_mode' = cpu'.st, watchpoint_addr' = cpu'.dvr,
           ~is_target_running' => cpu'.stalled /\ cpu_poll_speed' = "SLOW",
           is_target_running' /\ cpu'.stalled => cpu'.drr = "TE" \/ is_in_single_step_mode'
    PROVE  Inv'
<1>1. pc' \notin {"listening", "exited"}
  BY DEF Serving
<1> QED BY <1>1 DEF Inv, StoppedMeansStalled, CopiesAreExact, CpuIsReleased,
           StoppedForAReason, SlowWhenStopped

(* A step after which no client is served.                                 *)
LEMMA OutOfSession ==
    ASSUME pc' \notin Serving, cpu' \in Cpu,
           pc' \in {"listening", "exited"} => ~cpu'.stalled /\ ~cpu'.dsr /\ ~cpu'.st
    PROVE  Inv'
BY DEF Inv, StoppedMeansStalled, CopiesAreExact, CpuIsReleased,
       StoppedForAReason, SlowWhenStopped

(* A detached CPU runs free.                                               *)
LEMMA DetachReleases ==
    ASSUME Inv, detach_from_cpu
    PROVE  cpu' \in Cpu /\ ~cpu'.stalled /\ ~cpu'.dsr /\ ~cpu'.st
BY DEF Inv, Cpu, detach_from_cpu, ReleasedCpu

LEMMA GiveUpKeepsInv == Inv /\ GiveUpClient => Inv'
<1> SUFFICES ASSUME Inv, GiveUpClient PROVE Inv'
  OBVIOUS
<1>1. pc' = "listening" /\ detach_from_cpu
  BY DEF GiveUpClient
<1> QED BY <1>1, DetachReleases, OutOfSession DEF Serving

(* What the invariant says at the head of the server loop.                 *)
LEMMA Polling ==
    ASSUME Inv, pc \in Serving
    PROVE  /\ cpu \in Cpu /\ cpu.dsr
           /\ is_in_single_step_mode = cpu.st /\ watchpoint_addr = cpu.dvr
           /\ ~is_target_running => cpu.stalled /\ cpu_poll_speed = "SLOW"
           /\ is_target_running /\ cpu.stalled => cpu.drr = "TE" \/ is_in_single_step_mode
BY DEF Inv, StoppedMeansStalled, CopiesAreExact, StoppedForAReason, SlowWhenStopped

(* The breakpoint registers and their copies change together.              *)
LEMMA WriteSlotKeepsInv ==
    ASSUME Inv, pc \in Serving, NEW i \in Slot, NEW a \in Address \cup {Disabled},
           WriteSlot(i, a)
    PROVE  Inv'
<1>1. pc' \in Serving
  BY DEF WriteSlot, Reply, Serving
<1>2. cpu' \in Cpu /\ cpu'.dvr = [cpu.dvr EXCEPT ![i] = a]
      /\ cpu'.dsr = cpu.dsr /\ cpu'.st = cpu.st /\ cpu'.stalled = cpu.stalled
      /\ cpu'.drr = cpu.drr
  BY Polling DEF WriteSlot, Cpu, Watchpoints
<1>3. watchpoint_addr' = cpu'.dvr
  BY <1>2, Polling DEF WriteSlot
<1> QED BY <1>1, <1>2, <1>3, Polling, InSession DEF WriteSlot

LEMMA BridgeKeepsInv ==
    ASSUME Inv, requests \in Seq(Packet), Bridge
    PROVE  Inv'
<1>1. "polling" \in Serving /\ "in_request" \in Serving /\ "in_poll" \in Serving
  BY DEF Serving
<1>2. CASE Break
  <2>1. pc = "polling" /\ pc' = "in_request"
    BY <1>2 DEF Break, Receives, Reply
  <2>2. CASE is_target_running
    BY <1>1, <1>2, <2>1, <2>2, Polling, InSession DEF Break, CollectStopReason, Cpu
  <2>3. CASE ~is_target_running
    BY <1>1, <1>2, <2>1, <2>3, Polling, InSession DEF Break, rsp
  <2> QED BY <2>2, <2>3
<1>3. CASE rsp_continue
  <2>1. pc = "polling" /\ pc' = "polling"
    BY <1>3 DEF rsp_continue, Receives, NoReply
  <2> QED BY <1>1, <1>3, <2>1, Polling, InSession DEF rsp_continue, Cpu
<1>4. CASE rsp_step
  <2>1. pc = "polling" /\ pc' = "polling"
    BY <1>4 DEF rsp_step, Receives, NoReply
  <2> QED BY <1>1, <1>4, <2>1, Polling, InSession DEF rsp_step, Cpu
<1>5. CASE Query
  <2>1. pc = "polling" /\ pc' = "in_request"
    BY <1>5 DEF Query, Receives, Reply
  <2> QED BY <1>1, <1>5, <2>1, Polling, InSession DEF Query, rsp
<1>6. ASSUME Receives("Z") \/ Receives("z"), NoSlot
      PROVE  Inv'
  <2>1. pc = "polling" /\ pc' = "in_request"
    BY <1>6 DEF NoSlot, Receives, Reply
  <2> QED BY <1>1, <1>6, <2>1, Polling, InSession DEF NoSlot, rsp
<1>7. CASE InsertWatchpoint
  <2>1. pc = "polling" /\ requests # <<>> /\ Head(requests).op = "Z"
    BY <1>7 DEF InsertWatchpoint, Receives
  <2>2. Head(requests).addr \in Address
    BY <2>1 DEF Packet
  <2> QED BY <1>1, <1>6, <1>7, <2>1, <2>2, WriteSlotKeepsInv
          DEF InsertWatchpoint, Receives, InsertSlot, FirstSlotWith
<1>8. CASE RemoveWatchpoint
  BY <1>1, <1>6, <1>8, WriteSlotKeepsInv DEF RemoveWatchpoint, Receives, FirstSlotWith
<1>9. CASE EndOfSession \/ RefusedInRequest
  BY <1>9, GiveUpKeepsInv DEF EndOfSession, RefusedInRequest
<1>10. CASE poll_cpu
  <2>1. pc = "polling" /\ pc' = "in_poll"
    BY <1>10 DEF poll_cpu
  <2> QED BY <1>1, <1>10, <2>1, Polling, InSession DEF poll_cpu, CollectStopReason
<1>11. CASE Acknowledged
  <2>1. pc \in Serving /\ pc' = "polling"
    BY <1>11 DEF Acknowledged, Serving
  <2> QED BY <1>1, <1>11, <2>1, Polling, InSession DEF Acknowledged, rsp
<1>12. CASE RefusedInPoll
  BY <1>12, OutOfSession DEF RefusedInPoll, Serving, Inv
<1> QED BY <1>2, <1>3, <1>4, <1>5, <1>7, <1>8, <1>9, <1>10, <1>11, <1>12 DEF Bridge

-----------------------------------------------------------------------------
(* The connection carries packets only.                                    *)
LEMMA RequestsArePackets ==
    ASSUME requests \in Seq(Packet), Next
    PROVE  requests' \in Seq(Packet)
<1>1. \A op \in {"break", "+", "eof"} : Plain(op) \in Packet
  BY DEF Plain, Packet
<1>2. \A p \in Packet : Append(requests, p) \in Seq(Packet)
  OBVIOUS
<1>3. requests # <<>> => Tail(requests) \in Seq(Packet)
  OBVIOUS
<1>4. rsp_client_close => requests' \in Seq(Packet)
  BY DEF rsp_client_close
<1>5. CASE \E p \in Packet : SendCommand(p)
  BY <1>2, <1>5 DEF SendCommand
<1>6. CASE SendBreak \/ ReceiveReply \/ Leave
  BY <1>1, <1>2, <1>6 DEF SendBreak, ReceiveReply, Leave
<1>7. CASE Connect \/ CpuTraps \/ CpuSteps \/ Restart
  BY <1>7 DEF Connect, CpuTraps, CpuSteps, Restart
<1>8. CASE Exit \/ JtagLost
  BY <1>4, <1>8 DEF Exit, JtagLost
<1>9. CASE Bridge
  <2>1. CASE Break \/ rsp_continue \/ rsp_step \/ Query
    BY <1>3, <2>1 DEF Break, rsp_continue, rsp_step, Query, Receives, Reply, NoReply
  <2>2. CASE InsertWatchpoint \/ RemoveWatchpoint
    BY <1>3, <2>2 DEF InsertWatchpoint, RemoveWatchpoint, Receives, NoSlot, WriteSlot, Reply
  <2>3. CASE EndOfSession \/ RefusedInRequest \/ RefusedInPoll
    BY <1>4, <2>3 DEF EndOfSession, RefusedInRequest, RefusedInPoll, GiveUpClient
  <2>4. CASE poll_cpu \/ Acknowledged
    BY <1>3, <2>4 DEF poll_cpu, Acknowledged
  <2> QED BY <1>9, <2>1, <2>2, <2>3, <2>4 DEF Bridge
<1> QED BY <1>5, <1>6, <1>7, <1>8, <1>9 DEF Next

LEMMA NextInv ==
    ASSUME Inv, requests \in Seq(Packet), [Next]_vars
    PROVE  Inv'
<1>1. CASE (\E p \in Packet : SendCommand(p)) \/ SendBreak \/ ReceiveReply \/ Leave
  BY <1>1, OthersKeepInv DEF SendCommand, SendBreak, ReceiveReply, Leave
<1>2. CASE Connect
  <2>1. cpu \in Cpu
    BY DEF Inv
  <2>2. cpu' \in Cpu /\ cpu'.stalled /\ cpu'.dsr /\ cpu'.st = FALSE /\ cpu'.dvr = cpu.dvr
    BY <1>2, <2>1 DEF Connect, attach_to_cpu, AttachedCpu, Cpu
  <2> QED BY <1>2, <2>2, InSession DEF Connect, attach_to_cpu, Serving
<1>3. CASE CpuTraps
  <2>1. cpu \in Cpu /\ pc' = pc /\ cpu.dsr /\ UNCHANGED rsp
    BY <1>3 DEF CpuTraps, Inv
  <2>2. cpu' \in Cpu /\ cpu'.stalled /\ cpu'.drr = "TE" /\ cpu'.dsr = cpu.dsr
        /\ cpu'.st = cpu.st /\ cpu'.dvr = cpu.dvr
    BY <1>3, <2>1 DEF CpuTraps, Cpu
  <2>3. CASE pc \in Serving
    BY <2>1, <2>2, <2>3, Polling, InSession DEF rsp
  <2>4. CASE pc \notin Serving
    BY <2>1, <2>2, <2>4, OutOfSession DEF Inv, CpuIsReleased
  <2> QED BY <2>3, <2>4
<1>4. CASE CpuSteps
  <2>1. cpu \in Cpu /\ pc' = pc /\ cpu.st /\ UNCHANGED rsp
    BY <1>4 DEF CpuSteps, Inv
  <2>2. cpu' \in Cpu /\ cpu'.stalled /\ cpu'.drr = cpu.drr /\ cpu'.dsr = cpu.dsr
        /\ cpu'.st = cpu.st /\ cpu'.dvr = cpu.dvr
    BY <1>4, <2>1 DEF CpuSteps, Cpu
  <2>3. CASE pc \in Serving
    BY <2>1, <2>2, <2>3, Polling, InSession DEF rsp
  <2>4. CASE pc \notin Serving
    BY <2>1, <2>2, <2>4, OutOfSession DEF Inv, CpuIsReleased
  <2> QED BY <2>3, <2>4
<1>5. CASE Bridge
  BY <1>5, BridgeKeepsInv
<1>6. CASE Exit
  <2>1. pc' = "exited" /\ pc' \notin Serving
    BY <1>6 DEF Exit, Serving
  <2>2. cpu' \in Cpu /\ ~cpu'.stalled /\ ~cpu'.dsr /\ ~cpu'.st
    BY <1>6, DetachReleases DEF Exit, Inv, CpuIsReleased
  <2> QED BY <2>1, <2>2, OutOfSession
<1>7. CASE JtagLost
  <2>1. pc' = "crashed" /\ pc' \notin Serving
    BY <1>7 DEF JtagLost, Serving
  <2>2. cpu' \in Cpu
    BY <1>7 DEF JtagLost, Inv, Cpu
  <2> QED BY <2>1, <2>2, OutOfSession
<1>8. CASE Restart
  BY <1>8, OutOfSession DEF Restart, Serving, Inv
<1>9. CASE UNCHANGED vars
  BY <1>9, OthersKeepInv DEF vars
<1> QED BY <1>1, <1>2, <1>3, <1>4, <1>5, <1>6, <1>7, <1>8, <1>9 DEF Next

-----------------------------------------------------------------------------
(* The invariant holds in every session, after any number of crashes.      *)
THEOREM BridgeInvariant == Spec => []Inv
<1> DEFINE Wire == requests \in Seq(Packet)
<1>1. Init => Inv /\ Wire
  BY InitInv DEF Init
<1>2. Inv /\ Wire /\ [Next]_vars => Inv' /\ Wire'
  BY NextInv, RequestsArePackets DEF vars
<1> HIDE DEF Wire
<1> QED BY <1>1, <1>2, PTL DEF Spec

(* When the bridge holds the target to be stopped, the CPU is stalled.     *)
THEOREM StoppedTargetIsStalled == Spec => []StoppedMeansStalled
<1>1. Inv => StoppedMeansStalled
  BY DEF Inv
<1> QED BY <1>1, BridgeInvariant, PTL

(* The bridge decides by exact copies of the debug unit's registers.       *)
THEOREM BridgeCopiesAreExact == Spec => []CopiesAreExact
<1>1. Inv => CopiesAreExact
  BY DEF Inv
<1> QED BY <1>1, BridgeInvariant, PTL

(* However a session ends, but for the end of the program by an error, the *)
(* CPU is let go.                                                          *)
THEOREM ClientGoneCpuReleased == Spec => []CpuIsReleased
<1>1. Inv => CpuIsReleased
  BY DEF Inv
<1> QED BY <1>1, BridgeInvariant, PTL

(* The assertions of the bridge on the poll speed and on the stop reason   *)
(* never fail.                                                             *)
THEOREM BridgeAssertionsHold == Spec => []AssertionsHold
<1>1. Inv => AssertionsHold
  BY DEF Inv, AssertionsHold, StoppedForAReason, SlowWhenStopped, Serving
<1> QED BY <1>1, BridgeInvariant, PTL

Waiting == {"in_request", "in_poll"}
Resume == {"c", "s"}
Command == {"c", "s", "bad", "query", "Z", "z"}
Armed(a) == \E i \in Slot : cpu.dvr[i] = a

(* Nothing is left of a session when it is over.                           *)
ClosedOutside ==
    pc \notin Serving => gdb = "absent" /\ requests = <<>> /\ replies = <<>>

NobodyCounts == gdb = "absent" => inserted = {}

(* GDB knows when the target runs, and a reply that it has not read keeps  *)
(* the bridge waiting.                                                     *)
TargetRuns == pc \in Serving /\ is_target_running => gdb \in {"running", "absent"}
ReplyIsAwaited ==
    replies # <<>> => pc \in Waiting /\ ~is_target_running /\ gdb # "idle"

(* There is one acknowledgement, and the bridge waits for it.              *)
OneAck ==
    /\ \A i \in DOMAIN requests :
          requests[i].op = "+" => pc \in Waiting /\ replies = <<>>
    /\ \A i, j \in DOMAIN requests :
          requests[i].op = "+" /\ requests[j].op = "+" => i = j

(* There is one command, and GDB waits for what comes of it.               *)
Awaited(p) ==
    /\ pending = p /\ replies = <<>>
    /\ gdb = IF p.op \in Resume THEN "running" ELSE "waiting"
OneCommand ==
    /\ \A i \in DOMAIN requests :
          requests[i].op \in Command => gdb = "absent" \/ Awaited(requests[i])
    /\ \A i, j \in DOMAIN requests :
          requests[i].op \in Command /\ requests[j].op \in Command => i = j

(* A break was sent to a running target; if GDB has read of a stop since,  *)
(* its acknowledgement is behind the break.                                *)
AckBehind(i) == \E j \in DOMAIN requests : requests[j].op = "+" /\ j > i
BreakBeforeAck ==
    \A i \in DOMAIN requests : requests[i].op = "break" =>
        \/ gdb = "absent" \/ AckBehind(i)
        \/ gdb = "running" /\ \A j \in DOMAIN requests : j > i => requests[j].op \notin Command

(* What GDB is told to be inserted is armed; what it removes it does not   *)
(* count on any more.                                                      *)
TrueReply ==
    replies # <<>> /\ Head(replies) = "OK" =>
        \/ gdb = "absent"
        \/ gdb = "waiting" /\ (pending.op = "Z" => Armed(pending.addr))
RemovedFirst ==
    \A i \in DOMAIN requests : requests[i].op = "z" => requests[i].addr \notin inserted

SocketInv ==
    /\ ClosedOutside /\ NobodyCounts /\ TargetRuns /\ ReplyIsAwaited
    /\ OneAck /\ OneCommand /\ BreakBeforeAck
    /\ TrueReply /\ RemovedFirst /\ InsertedIsArmed

Text == {"S", "OK", "E01"}
Typed ==
    /\ Inv /\ requests \in Seq(Packet) /\ replies \in Seq(Text)
    /\ pending \in Packet /\ inserted \subseteq Address

-----------------------------------------------------------------------------
(* The queue of packets: what the last one is, what becomes of the rest.   *)
LEMMA AppendFacts ==
    ASSUME requests \in Seq(Packet), NEW p \in Packet, requests' = Append(requests, p)
    PROVE  /\ DOMAIN requests' = DOMAIN requests \cup {Len(requests) + 1}
           /\ Len(requests) + 1 \in Nat
           /\ \A i \in DOMAIN requests : requests'[i] = requests[i]
           /\ \A i \in DOMAIN requests : i \in Nat /\ i < Len(requests) + 1
           /\ requests'[Len(requests) + 1] = p
OBVIOUS

LEMMA TailFacts ==
    ASSUME requests \in Seq(Packet), requests # <<>>, requests' = Tail(requests)
    PROVE  /\ 1 \in DOMAIN requests /\ Head(requests) = requests[1]
           /\ \A i \in DOMAIN requests' : /\ i \in Nat /\ i + 1 \in DOMAIN requests
                                          /\ i + 1 # 1
                                          /\ requests'[i] = requests[i + 1]
           /\ \A j \in DOMAIN requests :
                 j \in Nat /\ (j > 1 => j - 1 \in DOMAIN requests' /\ requests'[j - 1] = requests[j])
OBVIOUS

LEMMA PlainPackets ==
    /\ \A op \in {"break", "+", "eof"} : Plain(op) \in Packet /\ Plain(op).op = op
    /\ \A p \in Packet : p.op \in Command \cup {"break", "+", "eof"}
BY DEF Plain, Packet, Command

(* A closed socket, and nobody at its other end.                           *)
LEMMA CloseKeepsSocketInv ==
    ASSUME rsp_client_close, pc' \notin Serving
    PROVE  SocketInv'
<1>1. gdb' = "absent" /\ inserted' = {} /\ requests' = <<>> /\ replies' = <<>>
  BY DEF rsp_client_close, Forgets
<1>2. DOMAIN requests' = {}
  BY <1>1
<1> QED BY <1>1, <1>2 DEF SocketInv, ClosedOutside, NobodyCounts, TargetRuns, ReplyIsAwaited,
           OneAck, OneCommand, BreakBeforeAck, TrueReply, RemovedFirst, InsertedIsArmed

(* The socket is left alone.                                               *)
LEMMA OthersKeepSocketInv ==
    ASSUME SocketInv, UNCHANGED <<pc, is_target_running, client, requests, replies, cpu.dvr>>
    PROVE  SocketInv'
BY DEF client, SocketInv, ClosedOutside, NobodyCounts, TargetRuns, ReplyIsAwaited, OneAck,
       OneCommand, Awaited, BreakBeforeAck, AckBehind, TrueReply, RemovedFirst,
       InsertedIsArmed, Armed

-----------------------------------------------------------------------------
(* GDB's steps.                                                            *)
LEMMA SendCommandKeepsSocketInv ==
    ASSUME Typed, SocketInv, NEW p \in Packet, SendCommand(p)
    PROVE  SocketInv'
<1> USE DEF SocketInv
<1>1. /\ gdb = "idle" /\ requests' = Append(requests, p) /\ UNCHANGED <<pc, rsp, cpu, replies>>
      /\ p.op \in Command /\ pending' = p
      /\ gdb' = IF p.op \in Resume THEN "running" ELSE "waiting"
      /\ inserted' = IF p.op = "z" THEN inserted \ {p.addr} ELSE inserted
  BY DEF SendCommand, MaySend, Command, Resume
<1>2. pc \in Serving /\ replies = <<>> /\ ~is_target_running
  BY <1>1 DEF ClosedOutside, ReplyIsAwaited, TargetRuns
<1>3. \A i \in DOMAIN requests : requests[i].op \notin Command
  BY <1>1 DEF OneCommand, Awaited, Resume
<1>4. PICK new \in Nat :
         /\ DOMAIN requests' = DOMAIN requests \cup {new} /\ requests'[new] = p
         /\ new \notin DOMAIN requests
         /\ \A i \in DOMAIN requests : requests'[i] = requests[i]
  BY <1>1, AppendFacts DEF Typed
<1>5. ClosedOutside' /\ NobodyCounts' /\ TargetRuns' /\ ReplyIsAwaited'
  BY <1>1, <1>2 DEF ClosedOutside, NobodyCounts, TargetRuns, ReplyIsAwaited, rsp
<1>6. OneAck'
  BY <1>1, <1>4 DEF OneAck, Command
<1>7. OneCommand'
  BY <1>1, <1>2, <1>3, <1>4 DEF OneCommand, Awaited
<1>8. BreakBeforeAck'
  <2> SUFFICES ASSUME NEW i \in DOMAIN requests', requests'[i].op = "break"
               PROVE  AckBehind(i)'
    BY DEF BreakBeforeAck
  <2>1. i \in DOMAIN requests /\ requests[i].op = "break"
    BY <1>1, <1>4 DEF Command
  <2>2. AckBehind(i)
    BY <1>1, <2>1 DEF BreakBeforeAck
  <2> QED BY <1>4, <2>2 DEF AckBehind
<1>9. TrueReply'
  BY <1>1, <1>2 DEF TrueReply
<1>10. RemovedFirst' /\ InsertedIsArmed'
  BY <1>1, <1>3, <1>4 DEF RemovedFirst, InsertedIsArmed, Command
<1> QED BY <1>5, <1>6, <1>7, <1>8, <1>9, <1>10

LEMMA SendBreakKeepsSocketInv ==
    ASSUME Typed, SocketInv, SendBreak
    PROVE  SocketInv'
<1> USE DEF SocketInv
<1> DEFINE p == Plain("break")
<1>1. /\ gdb = "running" /\ requests' = Append(requests, p) /\ p \in Packet /\ p.op = "break"
      /\ UNCHANGED <<pc, rsp, cpu, gdb, pending, inserted, replies>>
  BY PlainPackets DEF SendBreak
<1> HIDE DEF p
<1>2. PICK new \in Nat :
         /\ DOMAIN requests' = DOMAIN requests \cup {new} /\ requests'[new] = p
         /\ new \notin DOMAIN requests
         /\ \A i \in DOMAIN requests : requests'[i] = requests[i]
         /\ \A i \in DOMAIN requests' : ~(i > new)
  BY <1>1, AppendFacts DEF Typed
<1>3. ClosedOutside' /\ NobodyCounts' /\ TargetRuns' /\ ReplyIsAwaited'
  BY <1>1 DEF ClosedOutside, NobodyCounts, TargetRuns, ReplyIsAwaited, rsp
<1>4. OneAck'
  BY <1>1, <1>2 DEF OneAck
<1>5. OneCommand'
  BY <1>1, <1>2 DEF OneCommand, Awaited, Command
<1>6. BreakBeforeAck'
  <2> SUFFICES ASSUME NEW i \in DOMAIN requests', requests'[i].op = "break"
               PROVE  \/ AckBehind(i)'
                      \/ \A j \in DOMAIN requests' : j > i => requests'[j].op \notin Command
    BY <1>1 DEF BreakBeforeAck
  <2>1. CASE i \in DOMAIN requests
    <3>1. AckBehind(i) \/ \A j \in DOMAIN requests : j > i => requests[j].op \notin Command
      BY <1>1, <1>2, <2>1 DEF BreakBeforeAck
    <3> QED BY <1>1, <1>2, <3>1 DEF AckBehind, Command
  <2>2. CASE i = new
    BY <1>2, <2>2
  <2> QED BY <1>2, <2>1, <2>2
<1>7. TrueReply'
  BY <1>1 DEF TrueReply
<1>8. RemovedFirst' /\ InsertedIsArmed'
  BY <1>1, <1>2 DEF RemovedFirst, InsertedIsArmed
<1> QED BY <1>3, <1>4, <1>5, <1>6, <1>7, <1>8

LEMMA ReceiveReplyKeepsSocketInv ==
    ASSUME Typed, SocketInv, ReceiveReply
    PROVE  SocketInv'
<1> USE DEF SocketInv
<1> DEFINE p == Plain("+")
<1>1. /\ gdb \in {"waiting", "running"} /\ replies # <<>> /\ gdb' = "idle" /\ replies' = <<>>
      /\ requests' = Append(requests, p) /\ p \in Packet /\ p.op = "+"
      /\ UNCHANGED <<pc, rsp, cpu, pending>>
      /\ inserted' = IF pending.op = "Z" /\ Head(replies) = "OK"
                     THEN inserted \cup {pending.addr} ELSE inserted
  BY PlainPackets DEF ReceiveReply
<1> HIDE DEF p
<1>2. pc \in Waiting /\ ~is_target_running
  BY <1>1 DEF ReplyIsAwaited
<1>3. \A i \in DOMAIN requests : requests[i].op \notin Command /\ requests[i].op # "+"
  BY <1>1 DEF OneCommand, Awaited, OneAck
<1>4. PICK new \in Nat :
         /\ DOMAIN requests' = DOMAIN requests \cup {new} /\ requests'[new] = p
         /\ \A i \in DOMAIN requests : requests'[i] = requests[i] /\ new > i
  BY <1>1, AppendFacts DEF Typed
<1>5. ClosedOutside' /\ NobodyCounts' /\ TargetRuns' /\ ReplyIsAwaited'
  BY <1>1, <1>2 DEF ClosedOutside, NobodyCounts, TargetRuns, ReplyIsAwaited, rsp
<1>6. OneAck' /\ OneCommand'
  BY <1>1, <1>2, <1>3, <1>4 DEF OneAck, OneCommand, Command
<1>7. BreakBeforeAck'
  BY <1>1, <1>4 DEF BreakBeforeAck, AckBehind
<1>8. TrueReply'
  BY <1>1 DEF TrueReply
<1>9. InsertedIsArmed'
  BY <1>1 DEF InsertedIsArmed, TrueReply, Armed
<1>10. RemovedFirst'
  BY <1>1, <1>3, <1>4 DEF RemovedFirst, Command
<1> QED BY <1>5, <1>6, <1>7, <1>8, <1>9, <1>10

LEMMA LeaveKeepsSocketInv ==
    ASSUME Typed, SocketInv, Leave
    PROVE  SocketInv'
<1> USE DEF SocketInv
<1> DEFINE p == Plain("eof")
<1>1. /\ gdb # "absent" /\ gdb' = "absent" /\ inserted' = {}
      /\ requests' = Append(requests, p) /\ p \in Packet /\ p.op = "eof"
      /\ UNCHANGED <<pc, rsp, cpu, replies>>
  BY PlainPackets DEF Leave, Forgets
<1> HIDE DEF p
<1>2. PICK new \in Nat :
         /\ DOMAIN requests' = DOMAIN requests \cup {new} /\ requests'[new] = p
         /\ \A i \in DOMAIN requests : requests'[i] = requests[i]
  BY <1>1, AppendFacts DEF Typed
<1>3. ClosedOutside' /\ NobodyCounts' /\ TargetRuns' /\ ReplyIsAwaited'
  BY <1>1 DEF ClosedOutside, NobodyCounts, TargetRuns, ReplyIsAwaited, rsp
<1>4. OneAck' /\ OneCommand'
  BY <1>1, <1>2 DEF OneAck, OneCommand, Command
<1> QED BY <1>1, <1>3, <1>4 DEF BreakBeforeAck, TrueReply, RemovedFirst, InsertedIsArmed

LEMMA ConnectKeepsSocketInv ==
    ASSUME Typed, SocketInv, Connect
    PROVE  SocketInv'
<1>1. /\ pc \notin Serving /\ gdb' = "idle" /\ pc' = "polling" /\ is_target_running' = FALSE
      /\ UNCHANGED <<inserted, requests, replies>>
  BY DEF Connect, Serving, attach_to_cpu
<1>2. gdb = "absent" /\ inserted = {} /\ requests = <<>> /\ replies = <<>>
  BY <1>1 DEF SocketInv, ClosedOutside, NobodyCounts
<1>3. DOMAIN requests' = {} /\ pc' \in Serving
  BY <1>1, <1>2 DEF Serving
<1> QED BY <1>1, <1>2, <1>3 DEF SocketInv, ClosedOutside, NobodyCounts, TargetRuns,
           ReplyIsAwaited, OneAck, OneCommand, BreakBeforeAck, TrueReply, RemovedFirst,
           InsertedIsArmed

-----------------------------------------------------------------------------
(* The bridge's steps.  At the head of the server loop there is no         *)
(* acknowledgement and no reply on its way.                                *)
LEMMA AtPolling ==
    ASSUME SocketInv, pc = "polling"
    PROVE  replies = <<>> /\ \A i \in DOMAIN requests : requests[i].op # "+"
BY DEF SocketInv, ReplyIsAwaited, OneAck, Waiting

(* A packet is taken from the queue: what that alone preserves.            *)
LEMMA TakeKeeps ==
    ASSUME Typed, SocketInv, requests # <<>>, requests' = Tail(requests),
           Head(requests).op = "+" \/ pc = "polling",
           UNCHANGED client, \A a \in inserted : Armed(a)'
    PROVE  /\ \A i \in DOMAIN requests' : requests'[i].op # "+"
           /\ BreakBeforeAck' /\ RemovedFirst' /\ InsertedIsArmed' /\ NobodyCounts'
<1> USE DEF SocketInv
<1>1. /\ 1 \in DOMAIN requests /\ Head(requests) = requests[1]
      /\ \A i \in DOMAIN requests' : /\ i \in Nat /\ i + 1 \in DOMAIN requests
                                     /\ i + 1 # 1
                                     /\ requests'[i] = requests[i + 1]
  BY TailFacts DEF Typed
<1>2. \A i \in DOMAIN requests' : requests'[i].op # "+"
  BY <1>1, AtPolling DEF OneAck
<1>3. \A i \in DOMAIN requests : ~AckBehind(i) \/ i < 1
  <2>1. CASE pc = "polling"
    BY <2>1, AtPolling DEF AckBehind
  <2>2. CASE Head(requests).op = "+"
    <3> SUFFICES ASSUME NEW i \in DOMAIN requests, NEW j \in DOMAIN requests,
                        requests[j].op = "+", j > i
                 PROVE  i < 1
      BY DEF AckBehind
    <3>1. j = 1 /\ i \in Nat
      BY <1>1, <2>2 DEF OneAck, Typed
    <3> QED BY <3>1
  <2> QED BY <2>1, <2>2
<1>4. BreakBeforeAck'
  <2> SUFFICES ASSUME NEW i \in DOMAIN requests', requests'[i].op = "break", gdb' # "absent"
               PROVE  /\ gdb' = "running"
                      /\ \A j \in DOMAIN requests' : j > i => requests'[j].op \notin Command
    BY DEF BreakBeforeAck
  <2>1. i + 1 \in DOMAIN requests /\ requests[i + 1].op = "break" /\ ~AckBehind(i + 1)
    BY <1>1, <1>3
  <2>2. /\ gdb = "running"
        /\ \A j \in DOMAIN requests : j > i + 1 => requests[j].op \notin Command
    BY <2>1 DEF BreakBeforeAck, client
  <2> QED BY <1>1, <2>2 DEF client
<1>5. RemovedFirst' /\ InsertedIsArmed' /\ NobodyCounts'
  BY <1>1 DEF RemovedFirst, InsertedIsArmed, NobodyCounts, client, Armed
<1> QED BY <1>2, <1>4, <1>5

(* A command is taken and handled, and GDB knows what it has to wait for.  *)
LEMMA HeadCommand ==
    ASSUME Typed, SocketInv, requests # <<>>, requests' = Tail(requests)
    PROVE  /\ Head(requests).op \in Command =>
                /\ gdb = "absent" \/ Awaited(Head(requests))
                /\ \A i \in DOMAIN requests' : requests'[i].op \notin Command
           /\ Head(requests).op = "break" /\ pc = "polling" =>
                gdb = "absent" \/
                  /\ gdb = "running"
                  /\ \A i \in DOMAIN requests' : requests'[i].op \notin Command
<1> USE DEF SocketInv
<1>1. /\ 1 \in DOMAIN requests /\ Head(requests) = requests[1]
      /\ \A i \in DOMAIN requests' : /\ i \in Nat /\ i + 1 \in DOMAIN requests
                                     /\ i + 1 # 1 /\ i + 1 > 1
                                     /\ requests'[i] = requests[i + 1]
  BY TailFacts DEF Typed
<1>2. ASSUME Head(requests).op \in Command
      PROVE  /\ gdb = "absent" \/ Awaited(Head(requests))
             /\ \A i \in DOMAIN requests' : requests'[i].op \notin Command
  BY <1>1, <1>2 DEF OneCommand
<1>3. ASSUME Head(requests).op = "break", pc = "polling", gdb # "absent"
      PROVE  /\ gdb = "running"
             /\ \A i \in DOMAIN requests' : requests'[i].op \notin Command
  <2>1. ~AckBehind(1)
    BY <1>3, AtPolling DEF AckBehind
  <2>2. \A j \in DOMAIN requests : j > 1 => requests[j].op \notin Command
    BY <1>1, <1>3, <2>1 DEF BreakBeforeAck
  <2> QED BY <1>1, <1>3, <2>1, <2>2 DEF BreakBeforeAck
<1> QED BY <1>2, <1>3

LEMMA ReplyKeepsSocketInv ==
    ASSUME Typed, SocketInv, pc = "polling", requests # <<>>, NEW r \in Text, Reply(r),
           Head(requests).op \in (Command \ Resume) \cup {"break"}, ~is_target_running',
           \A a \in inserted : Armed(a)',
           r = "OK" => Head(requests).op \in Command,
           r = "OK" /\ Head(requests).op = "Z" =>
               \E i \in Slot : cpu'.dvr[i] = Head(requests).addr
    PROVE  SocketInv'
<1> USE DEF SocketInv
<1>1. /\ pc' = "in_request" /\ requests' = Tail(requests) /\ UNCHANGED client
      /\ replies' = Append(replies, r) /\ replies = <<>>
  BY AtPolling DEF Reply
<1>2. replies' = <<r>> /\ Head(replies') = r /\ replies' # <<>>
  BY <1>1
<1>3. /\ \A i \in DOMAIN requests' : requests'[i].op # "+"
      /\ BreakBeforeAck' /\ RemovedFirst' /\ InsertedIsArmed' /\ NobodyCounts'
  BY <1>1, TakeKeeps
<1>4. gdb = "absent" \/
        /\ gdb # "idle"
        /\ \A i \in DOMAIN requests' : requests'[i].op \notin Command
  BY <1>1, HeadCommand DEF Awaited
<1>5. ClosedOutside' /\ TargetRuns' /\ ReplyIsAwaited'
  <2>1. gdb # "idle"
    BY <1>4
  <2> QED BY <1>1, <2>1 DEF ClosedOutside, TargetRuns, ReplyIsAwaited, Serving, Waiting, client
<1>6. OneAck'
  BY <1>3 DEF OneAck
<1>7. OneCommand'
  <2>1. CASE gdb = "absent"
    <3>1. /\ 1 \in DOMAIN requests
          /\ \A i \in DOMAIN requests' : /\ i \in Nat /\ i + 1 \in DOMAIN requests
                                         /\ requests'[i] = requests[i + 1]
      BY <1>1, TailFacts DEF Typed
    <3>2. ASSUME NEW i \in DOMAIN requests', NEW j \in DOMAIN requests',
                 requests'[i].op \in Command, requests'[j].op \in Command
          PROVE  i = j
      <4>1. i + 1 = j + 1
        BY <3>1, <3>2 DEF OneCommand
      <4> QED BY <3>1, <4>1
    <3> QED BY <1>1, <2>1, <3>2 DEF OneCommand, client
  <2>2. CASE \A i \in DOMAIN requests' : requests'[i].op \notin Command
    BY <2>2 DEF OneCommand
  <2> QED BY <1>4, <2>1, <2>2
<1>8. TrueReply'
  <2> SUFFICES ASSUME r = "OK", gdb # "absent"
               PROVE  /\ gdb = "waiting"
                      /\ pending.op = "Z" => \E i \in Slot : cpu'.dvr[i] = pending.addr
    BY <1>1, <1>2 DEF TrueReply, client, Armed
  <2>1. Awaited(Head(requests)) /\ Head(requests).op \notin Resume
    BY <1>1, HeadCommand DEF Command, Resume
  <2>2. pending = Head(requests) /\ gdb = "waiting"
    BY <2>1 DEF Awaited
  <2> QED BY <2>2
<1> QED BY <1>3, <1>5, <1>6, <1>7, <1>8

LEMMA NoReplyKeepsSocketInv ==
    ASSUME Typed, SocketInv, pc = "polling", requests # <<>>, NoReply,
           Head(requests).op \in Resume, UNCHANGED cpu.dvr
    PROVE  SocketInv'
<1> USE DEF SocketInv
<1>1. /\ pc' = "polling" /\ requests' = Tail(requests) /\ UNCHANGED <<client, replies>>
      /\ replies = <<>>
  BY AtPolling DEF NoReply
<1>2. /\ \A i \in DOMAIN requests' : requests'[i].op # "+"
      /\ BreakBeforeAck' /\ RemovedFirst' /\ InsertedIsArmed' /\ NobodyCounts'
  BY <1>1, TakeKeeps DEF InsertedIsArmed, Armed
<1>3. /\ gdb \in {"absent", "running"}
      /\ \A i \in DOMAIN requests' : requests'[i].op \notin Command
  BY <1>1, HeadCommand DEF Awaited, Command, Resume
<1>4. ClosedOutside' /\ TargetRuns' /\ ReplyIsAwaited' /\ TrueReply'
  BY <1>1, <1>3 DEF ClosedOutside, TargetRuns, ReplyIsAwaited, TrueReply, Serving, client
<1>5. OneAck' /\ OneCommand'
  BY <1>2, <1>3 DEF OneAck, OneCommand
<1> QED BY <1>2, <1>4, <1>5

LEMMA PollKeepsSocketInv ==
    ASSUME Typed, SocketInv, poll_cpu
    PROVE  SocketInv'
<1> USE DEF SocketInv
<1>1. /\ pc = "polling" /\ is_target_running /\ ~is_target_running' /\ pc' = "in_poll"
      /\ requests = <<>> /\ replies' = Append(replies, "S")
      /\ UNCHANGED <<cpu, client, requests>>
  BY DEF poll_cpu, CollectStopReason
<1>2. replies = <<>> /\ gdb \in {"running", "absent"}
  BY <1>1, AtPolling DEF TargetRuns, Serving
<1>3. Head(replies') = "S" /\ DOMAIN requests' = {}
  BY <1>1, <1>2
<1> QED BY <1>1, <1>2, <1>3 DEF ClosedOutside, NobodyCounts, TargetRuns, ReplyIsAwaited, OneAck,
           OneCommand, BreakBeforeAck, TrueReply, RemovedFirst, InsertedIsArmed, Armed,
           Serving, Waiting, client

LEMMA AcknowledgedKeepsSocketInv ==
    ASSUME Typed, SocketInv, Acknowledged
    PROVE  SocketInv'
<1> USE DEF SocketInv
<1>1. /\ pc \in Waiting /\ pc' = "polling" /\ requests # <<>> /\ Head(requests).op = "+"
      /\ requests' = Tail(requests) /\ UNCHANGED <<rsp, cpu, client, replies>>
  BY DEF Acknowledged, Waiting
<1>2. /\ 1 \in DOMAIN requests /\ Head(requests) = requests[1]
      /\ \A i \in DOMAIN requests' : /\ i \in Nat /\ i + 1 \in DOMAIN requests
                                     /\ requests'[i] = requests[i + 1]
  BY <1>1, TailFacts DEF Typed
<1>3. replies = <<>>
  BY <1>1, <1>2 DEF OneAck
<1>4. /\ \A i \in DOMAIN requests' : requests'[i].op # "+"
      /\ BreakBeforeAck' /\ RemovedFirst' /\ InsertedIsArmed' /\ NobodyCounts'
  BY <1>1, TakeKeeps DEF InsertedIsArmed, Armed
<1>5. ClosedOutside' /\ TargetRuns' /\ ReplyIsAwaited' /\ TrueReply'
  BY <1>1, <1>3 DEF ClosedOutside, TargetRuns, ReplyIsAwaited, TrueReply, Serving, Waiting,
                    client, rsp
<1>6. OneAck'
  BY <1>4 DEF OneAck
<1>7. ASSUME NEW i \in DOMAIN requests', requests'[i].op \in Command
      PROVE  \/ gdb' = "absent"
             \/ /\ pending' = requests'[i] /\ replies' = <<>>
                /\ gdb' = IF requests'[i].op \in Resume THEN "running" ELSE "waiting"
  <2>1. gdb = "absent" \/ Awaited(requests[i + 1])
    BY <1>2, <1>7 DEF OneCommand
  <2> QED BY <1>1, <1>2, <2>1 DEF Awaited, client
<1>8. ASSUME NEW i \in DOMAIN requests', NEW j \in DOMAIN requests',
             requests'[i].op \in Command, requests'[j].op \in Command
      PROVE  i = j
  <2>1. i + 1 = j + 1
    BY <1>2, <1>8 DEF OneCommand
  <2> QED BY <1>2, <2>1
<1>9. OneCommand'
  BY <1>7, <1>8 DEF OneCommand, Awaited
<1> QED BY <1>4, <1>5, <1>6, <1>9

-----------------------------------------------------------------------------
(* Inserting fills a register that is free or holds the address, removing  *)
(* clears one that holds an address nobody counts on.                      *)
LEMMA WatchpointKeepsSocketInv ==
    ASSUME Typed, SocketInv, InsertWatchpoint \/ RemoveWatchpoint
    PROVE  SocketInv'
<1>1. /\ pc = "polling" /\ requests # <<>> /\ Head(requests).op \in {"Z", "z"}
      /\ ~is_target_running
  BY DEF InsertWatchpoint, RemoveWatchpoint, Receives
<1>2. Head(requests).op \in (Command \ Resume) \cup {"break"} /\ Head(requests).op \in Command
  BY <1>1 DEF Command, Resume
<1>3. cpu \in Cpu /\ watchpoint_addr = cpu.dvr
  BY <1>1 DEF Typed, Inv, CopiesAreExact, Serving
<1>4. Head(requests) = requests[1] /\ 1 \in DOMAIN requests /\ Head(requests) \in Packet
  BY <1>1 DEF Typed
<1>5. Head(requests).addr # Disabled
  BY <1>1, <1>4, GdbBridgeAssumption DEF Packet
<1>6. Disabled \notin inserted
  BY GdbBridgeAssumption DEF Typed
<1>7. CASE NoSlot
  BY <1>1, <1>2, <1>7, ReplyKeepsSocketInv
     DEF NoSlot, rsp, Text, SocketInv, InsertedIsArmed, Armed
<1>8. ASSUME NEW i \in Slot, NEW v \in Address \cup {Disabled}, WriteSlot(i, v),
             \A a \in inserted : a = v \/ cpu.dvr[i] # a,
             Head(requests).op = "Z" => v = Head(requests).addr
      PROVE  SocketInv'
  <2>1. cpu'.dvr = [cpu.dvr EXCEPT ![i] = v] /\ DOMAIN cpu.dvr = Slot
    BY <1>3, <1>8 DEF WriteSlot, Cpu, Watchpoints
  <2>2. cpu'.dvr[i] = v /\ \A j \in Slot : j # i => cpu'.dvr[j] = cpu.dvr[j]
    BY <2>1
  <2>3. Armed(v)'
    BY <1>8, <2>2 DEF Armed
  <2>4. \A a \in inserted : Armed(a)'
    <3> SUFFICES ASSUME NEW a \in inserted, a # v PROVE Armed(a)'
      BY <2>3
    <3>1. PICK j \in Slot : cpu.dvr[j] = a
      BY DEF SocketInv, InsertedIsArmed
    <3> QED BY <1>8, <2>2, <3>1 DEF Armed
  <2>5. ~is_target_running' /\ Reply("OK")
    BY <1>1, <1>8 DEF WriteSlot
  <2>6. Head(requests).op = "Z" => \E k \in Slot : cpu'.dvr[k] = Head(requests).addr
    BY <1>8, <2>2
  <2> QED BY <1>1, <1>2, <2>4, <2>5, <2>6, ReplyKeepsSocketInv DEF Text
<1>9. CASE InsertWatchpoint
  <2>1. Head(requests).op = "Z" /\ Head(requests).addr \in Address
    BY <1>4, <1>9 DEF InsertWatchpoint, Receives, Packet
  <2>2. ASSUME NEW i \in InsertSlot(Head(requests).addr),
               WriteSlot(i, Head(requests).addr)
        PROVE  SocketInv'
    <3>1. i \in Slot /\ cpu.dvr[i] \in {Head(requests).addr, Disabled}
      BY <1>3, <2>2 DEF InsertSlot, FirstSlotWith
    <3> QED BY <1>6, <1>8, <2>1, <2>2, <3>1
  <2> QED BY <1>7, <1>9, <2>2 DEF InsertWatchpoint
<1>10. CASE RemoveWatchpoint
  <2>1. Head(requests).op = "z"
    BY <1>10 DEF RemoveWatchpoint, Receives
  <2>2. Head(requests).addr \notin inserted
    BY <1>4, <2>1 DEF SocketInv, RemovedFirst
  <2>3. ASSUME NEW i \in FirstSlotWith({Head(requests).addr}), WriteSlot(i, Disabled)
        PROVE  SocketInv'
    <3>1. i \in Slot /\ cpu.dvr[i] = Head(requests).addr
      BY <1>3, <2>3 DEF FirstSlotWith
    <3> QED BY <1>8, <2>1, <2>2, <2>3, <3>1
  <2> QED BY <1>7, <1>10, <2>3 DEF RemoveWatchpoint
<1> QED BY <1>9, <1>10

-----------------------------------------------------------------------------
LEMMA BridgeKeepsSocketInv ==
    ASSUME Typed, SocketInv, Bridge
    PROVE  SocketInv'
<1>1. CASE Break
  <2>1. /\ pc = "polling" /\ requests # <<>> /\ Head(requests).op = "break" /\ Reply("S")
        /\ ~is_target_running' /\ cpu \in Cpu
    BY <1>1 DEF Break, Receives, CollectStopReason, rsp, Typed, Inv
  <2>2. cpu'.dvr = cpu.dvr
    BY <1>1, <2>1 DEF Break, Cpu
  <2> QED BY <2>1, <2>2, ReplyKeepsSocketInv DEF Text, SocketInv, InsertedIsArmed, Armed
<1>2. CASE rsp_continue \/ rsp_step
  <2>1. /\ pc = "polling" /\ requests # <<>> /\ Head(requests).op \in Resume /\ NoReply
        /\ cpu \in Cpu
    BY <1>2 DEF rsp_continue, rsp_step, Receives, Resume, Typed, Inv
  <2>2. UNCHANGED cpu.dvr
    BY <1>2, <2>1 DEF rsp_continue, rsp_step, Cpu
  <2> QED BY <2>1, <2>2, NoReplyKeepsSocketInv
<1>3. CASE Query
  <2>1. /\ pc = "polling" /\ requests # <<>> /\ Head(requests).op = "query" /\ Reply("OK")
        /\ ~is_target_running' /\ UNCHANGED cpu
    BY <1>3 DEF Query, Receives, rsp
  <2> QED BY <2>1, ReplyKeepsSocketInv
          DEF Text, Command, Resume, SocketInv, InsertedIsArmed, Armed
<1>4. CASE InsertWatchpoint \/ RemoveWatchpoint
  BY <1>4, WatchpointKeepsSocketInv
<1>5. CASE EndOfSession \/ RefusedInRequest \/ RefusedInPoll
  BY <1>5, CloseKeepsSocketInv
     DEF EndOfSession, RefusedInRequest, RefusedInPoll, GiveUpClient, Serving
<1>6. CASE poll_cpu \/ Acknowledged
  BY <1>6, PollKeepsSocketInv, AcknowledgedKeepsSocketInv
<1> QED BY <1>1, <1>2, <1>3, <1>4, <1>5, <1>6 DEF Bridge

(* The steps that end a session or happen outside of one.                  *)
LEMMA RestKeepsSocketInv ==
    ASSUME Typed, SocketInv, CpuTraps \/ CpuSteps \/ Exit \/ JtagLost \/ Restart
    PROVE  SocketInv'
<1>1. CASE CpuTraps \/ CpuSteps
  <2>1. UNCHANGED <<pc, rsp, client, requests, replies, cpu.dvr>>
    BY <1>1 DEF CpuTraps, CpuSteps, Typed, Inv, Cpu
  <2> QED BY <2>1, OthersKeepSocketInv DEF rsp
<1>2. CASE rsp_client_close /\ pc' \in {"exited", "crashed"}
  BY <1>2, CloseKeepsSocketInv DEF Serving
<1>3. CASE pc \notin Serving /\ pc' \notin Serving /\ UNCHANGED <<client, requests, replies>>
  <2>1. gdb = "absent" /\ inserted = {} /\ requests = <<>> /\ replies = <<>>
    BY <1>3 DEF SocketInv, ClosedOutside, NobodyCounts
  <2>2. gdb' = "absent" /\ inserted' = {} /\ requests' = <<>> /\ replies' = <<>>
    BY <1>3, <2>1 DEF client
  <2> QED BY <1>3, <2>2 DEF SocketInv, ClosedOutside, NobodyCounts,
          TargetRuns, ReplyIsAwaited, OneAck, OneCommand, BreakBeforeAck, TrueReply,
          RemovedFirst, InsertedIsArmed
<1> QED BY <1>1, <1>2, <1>3 DEF Exit, JtagLost, Restart, Serving

(* What the variables hold.                                                *)
LEMMA TypedStep ==
    ASSUME Typed, Next
    PROVE  Typed'
<1>1. Inv' /\ requests' \in Seq(Packet)
  BY NextInv, RequestsArePackets DEF Typed
<1>2. replies' \in Seq(Text)
  <2>1. \A r \in Text : Append(replies, r) \in Seq(Text)
    BY DEF Typed
  <2>2. "S" \in Text /\ "OK" \in Text /\ "E01" \in Text /\ <<>> \in Seq(Text)
    BY DEF Text
  <2>3. rsp_client_close \/ UNCHANGED replies => replies' \in Seq(Text)
    BY <2>2 DEF rsp_client_close, Typed
  <2>4. \A r \in Text : Reply(r) => replies' \in Seq(Text)
    BY <2>1 DEF Reply
  <2>5. CASE Bridge
    <3>1. CASE Break \/ Query \/ InsertWatchpoint \/ RemoveWatchpoint
      BY <2>2, <2>4, <3>1 DEF Break, Query, InsertWatchpoint, RemoveWatchpoint, NoSlot, WriteSlot
    <3>2. CASE rsp_continue \/ rsp_step \/ Acknowledged
      BY <2>3, <3>2 DEF rsp_continue, rsp_step, Acknowledged, NoReply
    <3>3. CASE EndOfSession \/ RefusedInRequest \/ RefusedInPoll
      BY <2>3, <3>3 DEF EndOfSession, RefusedInRequest, RefusedInPoll, GiveUpClient
    <3>4. CASE poll_cpu
      BY <2>1, <2>2, <3>4 DEF poll_cpu
    <3> QED BY <2>5, <3>1, <3>2, <3>3, <3>4 DEF Bridge
  <2>6. CASE ReceiveReply
    BY <2>2, <2>6 DEF ReceiveReply
  <2>7. CASE (\E p \in Packet : SendCommand(p)) \/ SendBreak \/ Leave \/ Connect
             \/ CpuTraps \/ CpuSteps \/ Exit \/ JtagLost \/ Restart
    BY <2>3, <2>7 DEF SendCommand, SendBreak, Leave, Connect, CpuTraps, CpuSteps, Exit,
                      JtagLost, Restart
  <2> QED BY <2>5, <2>6, <2>7 DEF Next
<1>3. pending' \in Packet /\ inserted' \subseteq Address
  <2>1. Plain("query") \in Packet
    BY DEF Plain, Packet
  <2>2. Forgets \/ UNCHANGED client => pending' \in Packet /\ inserted' \subseteq Address
    BY <2>1 DEF Forgets, client, Typed
  <2>3. CASE (\E p \in Packet : SendCommand(p)) \/ SendBreak \/ Connect
    BY <2>3 DEF SendCommand, SendBreak, Connect, Typed
  <2>4. CASE ReceiveReply
    <3>1. pending.op = "Z" => pending.addr \in Address
      BY DEF Typed, Packet
    <3> QED BY <2>4, <3>1 DEF ReceiveReply, Typed
  <2>5. CASE Bridge
    BY <2>2, <2>5 DEF Bridge, Break, rsp_continue, rsp_step, Query, InsertWatchpoint,
       RemoveWatchpoint, NoSlot, WriteSlot, Reply, NoReply, EndOfSession, RefusedInRequest,
       RefusedInPoll, GiveUpClient, rsp_client_close, poll_cpu, Acknowledged
  <2>6. CASE Leave \/ CpuTraps \/ CpuSteps \/ Exit \/ JtagLost \/ Restart
    BY <2>2, <2>6 DEF Leave, CpuTraps, CpuSteps, Exit, JtagLost, Restart, rsp_client_close
  <2> QED BY <2>3, <2>4, <2>5, <2>6 DEF Next
<1> QED BY <1>1, <1>2, <1>3 DEF Typed

LEMMA SocketStep ==
    ASSUME Typed, SocketInv, [Next]_vars
    PROVE  Typed' /\ SocketInv'
<1>1. CASE Next
  <2>1. SocketInv'
    BY <1>1, SendCommandKeepsSocketInv, SendBreakKeepsSocketInv, ReceiveReplyKeepsSocketInv,
       LeaveKeepsSocketInv, ConnectKeepsSocketInv, BridgeKeepsSocketInv, RestKeepsSocketInv
       DEF Next
  <2> QED BY <1>1, <2>1, TypedStep
<1>2. CASE UNCHANGED vars
  <2>1. SocketInv'
    BY <1>2, OthersKeepSocketInv DEF vars, rsp
  <2>2. Inv'
    BY <1>2, OthersKeepInv DEF vars, Typed
  <2> QED BY <1>2, <2>1, <2>2 DEF Typed, vars, client
<1> QED BY <1>1, <1>2

-----------------------------------------------------------------------------
(* What may be on its way, in every reachable state.                       *)
LEMMA SocketInvariant == Spec => [](Typed /\ SocketInv)
<1>1. Init => Typed /\ SocketInv
  <2> SUFFICES ASSUME Init PROVE Typed /\ SocketInv
    OBVIOUS
  <2>1. Typed
    BY InitInv DEF Init, Typed, Plain, Packet
  <2>2. gdb = "absent" /\ inserted = {} /\ requests = <<>> /\ replies = <<>> /\ pc \notin Serving
    BY DEF Init, Serving
  <2>3. DOMAIN requests = {}
    BY <2>2
  <2> QED BY <2>1, <2>2, <2>3 DEF SocketInv, ClosedOutside, NobodyCounts, TargetRuns,
          ReplyIsAwaited, OneAck, OneCommand, BreakBeforeAck, TrueReply, RemovedFirst,
          InsertedIsArmed
<1>2. Typed /\ SocketInv /\ [Next]_vars => (Typed /\ SocketInv)'
  BY SocketStep
<1> QED BY <1>1, <1>2, PTL DEF Spec

(* Every hardware breakpoint that GDB was told is set, and has not asked   *)
(* to remove since, is in a breakpoint register of the CPU: rsp_watchpoint *)
(* finds the right register whatever earlier clients left there, and no    *)
(* reply or removal is taken for another one's.                            *)
THEOREM InsertedBreakpointsAreArmed == Spec => []InsertedIsArmed
<1>1. SocketInv => InsertedIsArmed
  BY DEF SocketInv
<1> QED BY <1>1, SocketInvariant, PTL

-----------------------------------------------------------------------------
(* How much can be on its way to the bridge: GDB leaves once, and sends a  *)
(* second break only when the first one is in front of an acknowledgement. *)
OneEof ==
    /\ \A i \in DOMAIN requests : requests[i].op = "eof" => gdb = "absent"
    /\ \A i, j \in DOMAIN requests :
          requests[i].op = "eof" /\ requests[j].op = "eof" => i = j
OneBreakPerStop ==
    /\ \A i \in DOMAIN requests : requests[i].op = "break" =>
          \/ gdb = "absent" \/ AckBehind(i)
          \/ gdb = "running" /\ broke
    /\ \A i, j \in DOMAIN requests :
          /\ requests[i].op = "break" /\ requests[j].op = "break"
          /\ AckBehind(i) <=> AckBehind(j)
          => i = j

(* The ranges of what is not a queue.                                      *)
Ranges ==
    /\ pc \in Serving \cup {"starting", "listening", "exited", "crashed"}
    /\ is_target_running \in BOOLEAN /\ is_in_single_step_mode \in BOOLEAN
    /\ cpu_poll_speed \in {"SLOW", "MIDDLE", "FAST"}
    /\ watchpoint_addr \in Watchpoints
    /\ gdb \in {"absent", "idle", "waiting", "running"} /\ broke \in BOOLEAN

(* The invariant that counts the packets on their way.                     *)
TrafficInv == OneEof /\ OneBreakPerStop /\ Len(replies) <= 1

(* A packet that GDB sends.                                                *)
LEMMA SendKeepsTraffic ==
    ASSUME Typed, SocketInv, TrafficInv,
           (\E p \in Packet : SendCommand(p)) \/ SendBreak \/ ReceiveReply \/ Leave
    PROVE  OneEof' /\ OneBreakPerStop'
<1>1. PICK p \in Packet : requests' = Append(requests, p) /\
        \/ /\ p.op \in Command /\ gdb = "idle"
        \/ /\ p.op = "break" /\ gdb = "running" /\ ~broke /\ gdb' = gdb /\ broke'
        \/ /\ p.op = "+" /\ replies # <<>> /\ gdb # "absent"
        \/ /\ p.op = "eof" /\ gdb # "absent" /\ gdb' = "absent"
  BY PlainPackets DEF SendCommand, MaySend, SendBreak, ReceiveReply, Leave, Forgets, Command
<1>2. PICK new \in Nat :
         /\ DOMAIN requests' = DOMAIN requests \cup {new} /\ requests'[new] = p
         /\ \A i \in DOMAIN requests : requests'[i] = requests[i] /\ new > i /\ i \in Nat
  BY <1>1, AppendFacts DEF Typed
<1>3. gdb # "absent" /\ \A i \in DOMAIN requests : requests[i].op # "eof"
  BY <1>1 DEF TrafficInv, OneEof
<1>4. OneEof'
  BY <1>1, <1>2, <1>3 DEF OneEof, Command
<1>5. CASE p.op = "+"
  <2>1. \A i \in DOMAIN requests : requests[i].op # "+"
    BY <1>1, <1>5 DEF SocketInv, OneAck, Command
  <2>2. \A i, j \in DOMAIN requests :
          requests[i].op = "break" /\ requests[j].op = "break" => i = j
    BY <2>1 DEF TrafficInv, OneBreakPerStop, AckBehind
  <2>3. \A i \in DOMAIN requests : AckBehind(i)'
    BY <1>2, <1>5 DEF AckBehind
  <2> QED BY <1>2, <1>4, <1>5, <2>2, <2>3 DEF OneBreakPerStop
<1>6. CASE p.op # "+"
  <2>1. \A i \in DOMAIN requests : AckBehind(i)' <=> AckBehind(i)
    BY <1>2, <1>6 DEF AckBehind
  <2>2. ~AckBehind(new)'
    BY <1>2, <1>6 DEF AckBehind
  <2>3. CASE p.op = "break"
    <3>1. \A i \in DOMAIN requests : requests[i].op = "break" => AckBehind(i)
      BY <1>1, <2>3 DEF TrafficInv, OneBreakPerStop, Command
    <3> QED BY <1>1, <1>2, <1>4, <2>1, <2>2, <2>3, <3>1
        DEF OneBreakPerStop, TrafficInv, Command
  <2>4. CASE p.op = "eof"
    BY <1>1, <1>2, <1>4, <2>1, <2>4 DEF OneBreakPerStop, TrafficInv, Command
  <2>5. CASE p.op \in Command
    <3>1. gdb = "idle" /\ p.op # "break"
      BY <1>1, <2>5 DEF Command
    <3>2. \A i \in DOMAIN requests : requests[i].op = "break" => AckBehind(i)
      BY <3>1 DEF TrafficInv, OneBreakPerStop
    <3> QED BY <1>2, <1>4, <2>1, <3>1, <3>2 DEF OneBreakPerStop, TrafficInv
  <2> QED BY <1>1, <1>6, <2>3, <2>4, <2>5
<1> QED BY <1>4, <1>5, <1>6

(* A packet that the bridge takes.                                         *)
LEMMA TakeKeepsTraffic ==
    ASSUME Typed, SocketInv, TrafficInv, requests # <<>>, requests' = Tail(requests),
           Head(requests).op = "+" \/ pc = "polling", UNCHANGED client
    PROVE  OneEof' /\ OneBreakPerStop'
<1>1. /\ 1 \in DOMAIN requests /\ Head(requests) = requests[1]
      /\ \A i \in DOMAIN requests' : /\ i \in Nat /\ i + 1 \in DOMAIN requests
                                     /\ i + 1 # 1
                                     /\ requests'[i] = requests[i + 1]
  BY TailFacts DEF Typed
<1>2. \A j \in DOMAIN requests : requests[j].op = "+" => j = 1
  BY <1>1, AtPolling DEF SocketInv, OneAck
<1>3. \A i \in DOMAIN requests' : ~AckBehind(i + 1) /\ ~AckBehind(i)'
  BY <1>1, <1>2 DEF AckBehind
<1>4. \A i, j \in DOMAIN requests' : i + 1 = j + 1 => i = j
  BY <1>1
<1>5. OneEof'
  BY <1>1, <1>4 DEF TrafficInv, OneEof, client
<1>6. \A i \in DOMAIN requests' :
         requests'[i].op = "break" =>
            gdb' = "absent" \/ (gdb' = "running" /\ broke')
  BY <1>1, <1>3 DEF TrafficInv, OneBreakPerStop, client
<1>7. \A i, j \in DOMAIN requests' :
         requests'[i].op = "break" /\ requests'[j].op = "break" => i = j
  BY <1>1, <1>3, <1>4 DEF TrafficInv, OneBreakPerStop
<1> QED BY <1>5, <1>6, <1>7 DEF OneBreakPerStop


(* A step of the bridge takes a packet, ends the session or leaves the     *)
(* queue alone.                                                            *)
LEMMA BridgeTakes ==
    ASSUME Bridge
    PROVE  \/ rsp_client_close
           \/ UNCHANGED <<requests, client>>
           \/ /\ requests # <<>> /\ requests' = Tail(requests) /\ UNCHANGED client
              /\ Head(requests).op = "+" \/ pc = "polling"
<1>1. CASE Break \/ rsp_continue \/ rsp_step \/ Query
  BY <1>1 DEF Break, rsp_continue, rsp_step, Query, Receives, Reply, NoReply
<1>2. CASE InsertWatchpoint \/ RemoveWatchpoint
  <2>1. pc = "polling" /\ requests # <<>>
    BY <1>2 DEF InsertWatchpoint, RemoveWatchpoint, Receives
  <2>2. requests' = Tail(requests) /\ UNCHANGED client
    BY <1>2 DEF InsertWatchpoint, RemoveWatchpoint, NoSlot, WriteSlot, Reply
  <2> QED BY <2>1, <2>2
<1>3. CASE EndOfSession \/ RefusedInRequest \/ RefusedInPoll
  BY <1>3 DEF EndOfSession, RefusedInRequest, RefusedInPoll, GiveUpClient
<1>4. CASE poll_cpu \/ Acknowledged
  BY <1>4 DEF poll_cpu, Acknowledged
<1> QED BY <1>1, <1>2, <1>3, <1>4 DEF Bridge

(* There is one reply at most: the bridge sends none before the last one   *)
(* is acknowledged.                                                        *)
LEMMA OneReplyStep ==
    ASSUME Typed, SocketInv, Len(replies) <= 1, [Next]_vars
    PROVE  Len(replies') <= 1
<1>1. Len(<<>>) <= 1 /\ \A r \in Text : Len(Append(<<>>, r)) <= 1
  OBVIOUS
<1>2. rsp_client_close \/ UNCHANGED replies => Len(replies') <= 1
  BY <1>1 DEF rsp_client_close
<1>3. ASSUME pc = "polling", NEW r \in Text, replies' = Append(replies, r)
      PROVE  Len(replies') <= 1
  BY <1>1, <1>3, AtPolling
<1>4. CASE Bridge
  <2>1. CASE Break \/ Query \/ InsertWatchpoint \/ RemoveWatchpoint
    <3>1. pc = "polling" /\ \E r \in Text : replies' = Append(replies, r)
      BY <2>1 DEF Break, Query, InsertWatchpoint, RemoveWatchpoint, NoSlot, WriteSlot,
                  Reply, Receives, Text
    <3> QED BY <1>3, <3>1
  <2>2. CASE poll_cpu
    BY <1>3, <2>2 DEF poll_cpu, Text
  <2>3. CASE rsp_continue \/ rsp_step \/ Acknowledged \/ EndOfSession
             \/ RefusedInRequest \/ RefusedInPoll
    BY <1>2, <2>3 DEF rsp_continue, rsp_step, Acknowledged, NoReply, EndOfSession,
                      RefusedInRequest, RefusedInPoll, GiveUpClient
  <2> QED BY <1>4, <2>1, <2>2, <2>3 DEF Bridge
<1>5. CASE ReceiveReply
  BY <1>1, <1>5 DEF ReceiveReply
<1>6. CASE \/ \E p \in Packet : SendCommand(p)
           \/ SendBreak \/ Leave \/ Connect \/ CpuTraps \/ CpuSteps
           \/ Exit \/ JtagLost \/ Restart \/ UNCHANGED vars
  BY <1>2, <1>6 DEF SendCommand, SendBreak, Leave, Connect, CpuTraps, CpuSteps, Exit,
                    JtagLost, Restart, vars
<1> QED BY <1>4, <1>5, <1>6 DEF Next

(* Every step keeps the packets counted.                                   *)
LEMMA TrafficStep ==
    ASSUME Typed, SocketInv, TrafficInv, [Next]_vars
    PROVE  TrafficInv'
<1>1. Len(replies') <= 1
  BY OneReplyStep DEF TrafficInv
<1>2. ASSUME requests' = <<>> PROVE OneEof' /\ OneBreakPerStop'
  <2>1. DOMAIN requests' = {}
    BY <1>2
  <2> QED BY <2>1 DEF OneEof, OneBreakPerStop
<1>3. ASSUME UNCHANGED <<requests, gdb, broke>> PROVE OneEof' /\ OneBreakPerStop'
  BY <1>3 DEF TrafficInv, OneEof, OneBreakPerStop, AckBehind
<1>4. CASE (\E p \in Packet : SendCommand(p)) \/ SendBreak \/ ReceiveReply \/ Leave
  BY <1>1, <1>4, SendKeepsTraffic DEF TrafficInv
<1>5. CASE Bridge
  BY <1>1, <1>2, <1>3, <1>5, BridgeTakes, TakeKeepsTraffic
     DEF TrafficInv, rsp_client_close, client
<1>6. CASE Connect
  <2>1. requests' = <<>>
    BY <1>6 DEF Connect, SocketInv, ClosedOutside, Serving
  <2> QED BY <1>1, <1>2, <2>1 DEF TrafficInv
<1>7. CASE Exit \/ JtagLost \/ CpuTraps \/ CpuSteps \/ Restart \/ UNCHANGED vars
  <2>1. rsp_client_close \/ UNCHANGED <<requests, client>>
    BY <1>7 DEF Exit, JtagLost, CpuTraps, CpuSteps, Restart, vars
  <2> QED BY <1>1, <1>2, <1>3, <2>1 DEF TrafficInv, rsp_client_close, client
<1> QED BY <1>4, <1>5, <1>6, <1>7 DEF Next

(* One command, one acknowledgement, one end of file, and a break on each  *)
(* side of the acknowledgement: five.                                      *)
LEMMA FiveAtMost ==
    ASSUME Typed, SocketInv, TrafficInv
    PROVE  Len(requests) <= 5
<1> DEFINE kind(i) == IF requests[i].op \in Command THEN 1
                      ELSE IF requests[i].op = "+" THEN 2
                      ELSE IF requests[i].op = "eof" THEN 3
                      ELSE IF AckBehind(i) THEN 4 ELSE 5
<1>1. \A i \in DOMAIN requests : requests[i].op \in Command \cup {"+", "eof", "break"}
  BY PlainPackets DEF Typed
<1>2. \A i, j \in DOMAIN requests : kind(i) = kind(j) => i = j
  BY <1>1 DEF SocketInv, OneCommand, OneAck, TrafficInv, OneEof, OneBreakPerStop, Command
<1>3. \A i \in DOMAIN requests : kind(i) \in 1 .. 5
  OBVIOUS
<1> HIDE DEF kind
<1>4. SUFFICES ASSUME Len(requests) > 5 PROVE FALSE
  BY DEF Typed
<1>5. \A i \in 1 .. 6 : i \in DOMAIN requests
  BY <1>4 DEF Typed
<1> QED BY <1>2, <1>3, <1>5

(* ... and the other variables in their ranges.                            *)
LEMMA RangesStep ==
    ASSUME Typed, Ranges, [Next]_vars
    PROVE  Ranges'
<1>1. watchpoint_addr' \in Watchpoints
  <2>1. cpu.dvr \in Watchpoints
    BY DEF Typed, Inv, Cpu
  <2>2. ASSUME NEW i \in Slot, NEW a \in Address \cup {Disabled}, WriteSlot(i, a)
        PROVE  watchpoint_addr' \in Watchpoints
    BY <2>2 DEF WriteSlot, Ranges, Watchpoints
  <2>3. CASE InsertWatchpoint
    <3>1. Head(requests).addr \in Address
      BY <2>3 DEF InsertWatchpoint, Receives, Typed, Packet
    <3> QED BY <2>2, <2>3, <3>1
        DEF InsertWatchpoint, NoSlot, rsp, Ranges, InsertSlot, FirstSlotWith
  <2>4. CASE RemoveWatchpoint
    BY <2>2, <2>4 DEF RemoveWatchpoint, NoSlot, rsp, Ranges, FirstSlotWith
  <2>5. CASE \/ \E p \in Packet : SendCommand(p)
             \/ SendBreak \/ ReceiveReply \/ Leave \/ Connect \/ CpuTraps \/ CpuSteps
             \/ Break \/ rsp_continue \/ rsp_step \/ Query \/ EndOfSession
    BY <2>1, <2>5 DEF SendCommand, SendBreak, ReceiveReply, Leave, Connect, attach_to_cpu,
       CpuTraps, CpuSteps, Break, CollectStopReason, rsp_continue, rsp_step, Query,
       EndOfSession, GiveUpClient, detach_from_cpu, rsp, Ranges
  <2>6. CASE poll_cpu \/ Acknowledged \/ RefusedInRequest \/ RefusedInPoll
             \/ Exit \/ JtagLost \/ Restart \/ UNCHANGED vars
    BY <2>1, <2>6 DEF poll_cpu, CollectStopReason, Acknowledged, RefusedInRequest,
       RefusedInPoll, GiveUpClient, detach_from_cpu, Exit, JtagLost, Restart, rsp, vars, Ranges
  <2> QED BY <2>3, <2>4, <2>5, <2>6 DEF Next, Bridge
<1> DEFINE Others == /\ pc \in Serving \cup {"starting", "listening", "exited", "crashed"}
                     /\ is_target_running \in BOOLEAN /\ is_in_single_step_mode \in BOOLEAN
                     /\ cpu_poll_speed \in {"SLOW", "MIDDLE", "FAST"}
                     /\ gdb \in {"absent", "idle", "waiting", "running"} /\ broke \in BOOLEAN
<1>2. Others'
  <2>1. Others
    BY DEF Ranges
  <2>2. CASE \/ \E p \in Packet : SendCommand(p)
             \/ SendBreak \/ ReceiveReply \/ Leave \/ Connect \/ CpuTraps \/ CpuSteps
    BY <2>1, <2>2 DEF SendCommand, SendBreak, ReceiveReply, Leave, Forgets, Connect,
       attach_to_cpu, CpuTraps, CpuSteps, rsp, client, Serving
  <2>3. CASE Break \/ rsp_continue \/ rsp_step \/ Query
    BY <2>1, <2>3 DEF Break, CollectStopReason, rsp_continue, rsp_step, Query, Reply, NoReply,
       rsp, client, Serving
  <2>4. CASE InsertWatchpoint \/ RemoveWatchpoint
    <3>1. /\ pc' = "in_request" /\ UNCHANGED client
          /\ UNCHANGED <<is_target_running, is_in_single_step_mode, cpu_poll_speed>>
      BY <2>4 DEF InsertWatchpoint, RemoveWatchpoint, NoSlot, WriteSlot, Reply, rsp
    <3> QED BY <2>1, <3>1 DEF client, Serving
  <2>5. CASE poll_cpu \/ Acknowledged \/ RefusedInRequest \/ RefusedInPoll \/ EndOfSession
             \/ Exit \/ JtagLost \/ Restart \/ UNCHANGED vars
    BY <2>1, <2>5 DEF poll_cpu, CollectStopReason, Acknowledged, RefusedInRequest,
       RefusedInPoll, EndOfSession, GiveUpClient, detach_from_cpu, Exit, JtagLost, Restart,
       rsp_client_close, Forgets, rsp, client, vars, Serving
  <2> QED BY <2>2, <2>3, <2>4, <2>5 DEF Next, Bridge
<1> QED BY <1>1, <1>2 DEF Ranges

(* Every variable of the bridge and of the debug unit keeps its type, for  *)
(* any number of registers and addresses, and never more than five packets *)
(* are on their way to the bridge and one reply to GDB.                    *)
THEOREM BridgeTypeCorrect == Spec => []TypeOK
<1> DEFINE All == Typed /\ SocketInv /\ TrafficInv /\ Ranges
<1>1. Init => TrafficInv /\ Ranges
  <2> SUFFICES ASSUME Init PROVE TrafficInv /\ Ranges
    OBVIOUS
  <2>1. DOMAIN requests = {} /\ Len(replies) <= 1
    BY DEF Init
  <2> QED BY <2>1 DEF Init, TrafficInv, OneEof, OneBreakPerStop, Ranges, Watchpoints
<1>2. Typed /\ SocketInv /\ TrafficInv /\ Ranges /\ [Next]_vars => TrafficInv' /\ Ranges'
  BY TrafficStep, RangesStep
<1>3. Typed /\ SocketInv /\ TrafficInv /\ Ranges => TypeOK
  <2> SUFFICES ASSUME Typed, SocketInv, TrafficInv, Ranges PROVE TypeOK
    OBVIOUS
  <2>1. Len(requests) <= 5
    BY FiveAtMost
  <2> QED BY <2>1 DEF Typed, TrafficInv, Ranges, TypeOK, Inv, Cpu, Text
<1> QED BY <1>1, <1>2, <1>3, SocketInvariant, PTL DEF Spec
=============================================================================

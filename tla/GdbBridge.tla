----------------------------- MODULE GdbBridge -----------------------------
(***************************************************************************)
(* GdbToJtagBridge: the server loop of rsp_server.cpp and the handlers of  *)
(* rsp_or10.cpp, between one GDB client and the debug unit of the CPU.     *)
(*                                                                         *)
(* One action is one handler.  A handler makes several accesses over JTAG, *)
(* but the CPU can move only before the access that stalls it, which is    *)
(* the first, or after the one that lets it run, which is the last.        *)
(* Sending a reply ends with a blocking read of GDB's acknowledgement from *)
(* the same socket that carries its requests, and is a step of its own.    *)
(***************************************************************************)
EXTENDS Naturals, Sequences

CONSTANTS
    Address,        \* addresses GDB puts hardware breakpoints at
    Disabled,       \* WATCHPOINT_ADDR_DISABLED
    SlotCount       \* OR1200_DU_WATCHPOINT_COUNT

ASSUME GdbBridgeAssumption ==
    /\ Disabled \notin Address
    /\ SlotCount \in Nat

VARIABLES
    pc,             \* where handle_rsp is
    is_target_running, is_in_single_step_mode, cpu_poll_speed, watchpoint_addr,
    cpu,            \* debug unit: stalled, DRR, DSR[TE], DMR1[ST], DVR
    gdb,            \* what GDB believes it is waiting for
    broke,          \* GDB has sent a break since it resumed the target
    pending,        \* the packet GDB is waiting an answer for
    inserted,       \* hardware breakpoints GDB counts on
    requests, replies   \* the two directions of client_fd

rsp == <<is_target_running, is_in_single_step_mode, cpu_poll_speed, watchpoint_addr>>
client == <<gdb, broke, pending, inserted>>
vars == <<pc, rsp, cpu, client, requests, replies>>

Slot == 0 .. SlotCount - 1
Watchpoints == [Slot -> Address \cup {Disabled}]
Serving == {"polling", "in_request", "in_poll"}

Packet == [op : {"c", "s", "bad", "query", "break", "+", "eof"}, addr : {Disabled}]
            \cup [op : {"Z", "z"}, addr : Address]
Plain(op) == [op |-> op, addr |-> Disabled]

TypeOK ==
    /\ pc \in Serving \cup {"starting", "listening", "exited", "crashed"}
    /\ is_target_running \in BOOLEAN /\ is_in_single_step_mode \in BOOLEAN
    /\ cpu_poll_speed \in {"SLOW", "MIDDLE", "FAST"}
    /\ watchpoint_addr \in Watchpoints
    /\ cpu \in [stalled : BOOLEAN, drr : {"none", "TE"}, dsr : BOOLEAN, st : BOOLEAN,
                dvr : Watchpoints]
    /\ gdb \in {"absent", "idle", "waiting", "running"}
    /\ broke \in BOOLEAN /\ pending \in Packet /\ inserted \subseteq Address
    /\ requests \in Seq(Packet) /\ Len(requests) <= 5
    /\ replies \in Seq({"S", "OK", "E01"}) /\ Len(replies) <= 1

-----------------------------------------------------------------------------
(* GDB, as get_packet and put_packet expect it.                            *)

\* GDB may insert what is there already, and remove what is not.
MaySend(p) == p.op \in {"c", "s", "bad", "query", "Z", "z"}

SendCommand(p) ==
    /\ gdb = "idle" /\ MaySend(p)
    /\ gdb' = IF p.op \in {"c", "s"} THEN "running" ELSE "waiting"
    /\ pending' = p /\ broke' = FALSE
    /\ inserted' = IF p.op = "z" THEN inserted \ {p.addr} ELSE inserted
    /\ requests' = Append(requests, p)
    /\ UNCHANGED <<pc, rsp, cpu, replies>>

\* Ctrl+C of the user while the target runs.
SendBreak ==
    /\ gdb = "running" /\ ~broke
    /\ broke' = TRUE /\ requests' = Append(requests, Plain("break"))
    /\ UNCHANGED <<pc, rsp, cpu, gdb, pending, inserted, replies>>

ReceiveReply ==
    /\ gdb \in {"waiting", "running"} /\ replies # <<>>
    /\ gdb' = "idle" /\ replies' = <<>>
    /\ requests' = Append(requests, Plain("+"))
    /\ inserted' = IF pending.op = "Z" /\ Head(replies) = "OK"
                   THEN inserted \cup {pending.addr} ELSE inserted
    /\ UNCHANGED <<pc, rsp, cpu, broke, pending>>

Forgets == gdb' = "absent" /\ inserted' = {} /\ broke' = FALSE /\ pending' = Plain("query")

\* GDB closes its end of the connection, or dies.
Leave ==
    /\ gdb # "absent" /\ Forgets
    /\ requests' = Append(requests, Plain("eof"))
    /\ UNCHANGED <<pc, rsp, cpu, replies>>

-----------------------------------------------------------------------------
(* The CPU under the debug unit.                                           *)

\* An l.trap or a watchpoint, which DSR[TE] hands to the debug unit.
CpuTraps ==
    /\ ~cpu.stalled /\ cpu.dsr
    /\ cpu' = [cpu EXCEPT !.stalled = TRUE, !.drr = "TE"]
    /\ UNCHANGED <<pc, rsp, client, requests, replies>>

\* The end of a single step leaves no trace in DRR.
CpuSteps ==
    /\ ~cpu.stalled /\ cpu.st
    /\ cpu' = [cpu EXCEPT !.stalled = TRUE]
    /\ UNCHANGED <<pc, rsp, client, requests, replies>>

-----------------------------------------------------------------------------
(* Attaching and detaching.                                                *)

\* Mutant: a single step of an earlier session is not called off.
AttachedCpuKeepsStepping == [cpu EXCEPT !.stalled = TRUE, !.dsr = TRUE]

AttachedCpu == [cpu EXCEPT !.stalled = TRUE, !.dsr = TRUE, !.st = FALSE]

attach_to_cpu ==
    /\ cpu' = AttachedCpu /\ watchpoint_addr' = cpu.dvr
    /\ is_target_running' = FALSE /\ is_in_single_step_mode' = FALSE
    /\ cpu_poll_speed' = "SLOW"

\* accept_incoming_gdb_client_connection
Connect ==
    /\ pc \in {"starting", "listening"} /\ gdb = "absent"
    /\ gdb' = "idle" /\ pc' = "polling" /\ attach_to_cpu
    /\ UNCHANGED <<broke, pending, inserted, requests, replies>>

\* Mutant: the single-step mode is left on.
ReleasedCpuKeepsStepping == [cpu EXCEPT !.stalled = FALSE, !.dsr = FALSE]

ReleasedCpu == [cpu EXCEPT !.stalled = FALSE, !.dsr = FALSE, !.st = FALSE]

detach_from_cpu ==
    /\ cpu' = ReleasedCpu
    /\ is_target_running' = TRUE /\ is_in_single_step_mode' = FALSE
    /\ UNCHANGED <<cpu_poll_speed, watchpoint_addr>>

\* Mutant: what the old client has sent is read by the next one's session.
CloseKeepsInput == Forgets /\ requests' = requests /\ replies' = <<>>

rsp_client_close == Forgets /\ requests' = <<>> /\ replies' = <<>>

-----------------------------------------------------------------------------
(* process_client_command                                                  *)

Receives(op) == pc = "polling" /\ requests # <<>> /\ Head(requests).op = op

\* The poll speed, set once the reply is acknowledged, is not read before.
CollectStopReason ==
    /\ is_target_running' = FALSE /\ watchpoint_addr' = cpu.dvr
    /\ cpu_poll_speed' = "SLOW" /\ UNCHANGED is_in_single_step_mode

\* The handler returns to the server loop without sending anything.
NoReply == pc' = "polling" /\ requests' = Tail(requests) /\ UNCHANGED <<client, replies>>

Reply(r) ==
    /\ pc' = "in_request" /\ requests' = Tail(requests)
    /\ replies' = Append(replies, r) /\ UNCHANGED client

\* Mutant: the target is only marked as stopped.
BreakWithoutStall ==
    /\ Receives("break") /\ CollectStopReason
    /\ UNCHANGED cpu /\ Reply("S")

Break ==
    /\ Receives("break") /\ Reply("S")
    /\ IF is_target_running
       THEN cpu' = [cpu EXCEPT !.stalled = TRUE] /\ CollectStopReason
       ELSE UNCHANGED <<cpu, rsp>>

\* Mutant: the single-step mode is left in the CPU.
ContinueKeepsStepping ==
    /\ Receives("c") /\ ~is_target_running
    /\ cpu' = [cpu EXCEPT !.drr = "none", !.stalled = FALSE]
    /\ is_target_running' = TRUE /\ is_in_single_step_mode' = FALSE
    /\ cpu_poll_speed' = "MIDDLE"
    /\ UNCHANGED watchpoint_addr /\ NoReply

rsp_continue ==
    /\ Receives("c") /\ ~is_target_running
    /\ cpu' = [cpu EXCEPT !.drr = "none", !.stalled = FALSE,
                          !.st = IF is_in_single_step_mode THEN FALSE ELSE @]
    /\ is_target_running' = TRUE /\ is_in_single_step_mode' = FALSE
    /\ cpu_poll_speed' = "MIDDLE"
    /\ UNCHANGED watchpoint_addr /\ NoReply

rsp_step ==
    /\ Receives("s") /\ ~is_target_running
    /\ cpu' = [cpu EXCEPT !.drr = "none", !.stalled = FALSE,
                          !.st = IF is_in_single_step_mode THEN @ ELSE TRUE]
    /\ is_target_running' = TRUE /\ is_in_single_step_mode' = TRUE
    /\ cpu_poll_speed' = "FAST"
    /\ UNCHANGED watchpoint_addr /\ NoReply

\* Registers, memory, thread and query packets, and the unsupported ones.
Query ==
    /\ Receives("query") /\ ~is_target_running
    /\ UNCHANGED <<cpu, rsp>> /\ Reply("OK")

WriteSlot(i, a) ==
    /\ cpu' = [cpu EXCEPT !.dvr[i] = a]
    /\ watchpoint_addr' = [watchpoint_addr EXCEPT ![i] = a]
    /\ UNCHANGED <<is_target_running, is_in_single_step_mode, cpu_poll_speed>>
    /\ Reply("OK")

NoSlot == UNCHANGED <<cpu, rsp>> /\ Reply("E01")

\* The loops of rsp_watchpoint stop at the first slot with one of these.
FirstSlotWith(values) ==
    {i \in Slot : /\ watchpoint_addr[i] \in values
                  /\ \A j \in 0 .. i - 1 : watchpoint_addr[j] \notin values}

\* Mutant: any slot will do.
InsertSlotTaken(a) == Slot

InsertSlot(a) == FirstSlotWith({a, Disabled})

\* Writing the slot that holds the address already changes nothing.
InsertWatchpoint ==
    /\ Receives("Z") /\ ~is_target_running
    /\ LET a == Head(requests).addr
       IN  \/ \E i \in InsertSlot(a) : WriteSlot(i, a)
           \/ InsertSlot(a) = {} /\ NoSlot

RemoveWatchpoint ==
    /\ Receives("z") /\ ~is_target_running
    /\ LET found == FirstSlotWith({Head(requests).addr})
       IN  IF found = {} THEN NoSlot ELSE \E i \in found : WriteSlot(i, Disabled)

\* Whatever a handler or get_packet throws, the client is given up.
GiveUpClient == pc' = "listening" /\ detach_from_cpu /\ rsp_client_close

\* The end of the connection, what cannot be served, and anything but a
\* break while the target runs.
EndOfSession ==
    /\ pc = "polling" /\ requests # <<>>
    /\ Head(requests).op \in {"bad", "eof", "+"} \cup
         (IF is_target_running THEN {"c", "s", "query", "Z", "z"} ELSE {})
    /\ GiveUpClient

-----------------------------------------------------------------------------
(* poll_cpu, after poll() has timed out.                                   *)

\* Mutant: only single steps are looked after.
PollWhileStepping ==
    /\ pc = "polling" /\ requests = <<>> /\ is_target_running /\ cpu.stalled
    /\ is_in_single_step_mode
    /\ CollectStopReason
    /\ pc' = "in_poll" /\ replies' = Append(replies, "S")
    /\ UNCHANGED <<cpu, client, requests>>

poll_cpu ==
    /\ pc = "polling" /\ requests = <<>> /\ is_target_running /\ cpu.stalled
    /\ CollectStopReason
    /\ pc' = "in_poll" /\ replies' = Append(replies, "S")
    /\ UNCHANGED <<cpu, client, requests>>

-----------------------------------------------------------------------------
(* The end of put_packet: the acknowledgement.                             *)

Acknowledged ==
    /\ pc \in {"in_request", "in_poll"} /\ requests # <<>> /\ Head(requests).op = "+"
    /\ pc' = "polling" /\ requests' = Tail(requests)
    /\ UNCHANGED <<rsp, cpu, client, replies>>

\* process_rsp_client_request catches it ...
RefusedInRequest ==
    /\ pc = "in_request" /\ requests # <<>> /\ Head(requests).op # "+"
    /\ GiveUpClient

\* ... poll_cpu does not, and the process ends without detaching.
RefusedInPoll ==
    /\ pc = "in_poll" /\ requests # <<>> /\ Head(requests).op # "+"
    /\ pc' = "crashed" /\ rsp_client_close /\ UNCHANGED <<rsp, cpu>>

-----------------------------------------------------------------------------
(* The process as a whole.                                                 *)

\* exit_request, set by a signal handler.
Exit ==
    \/ pc = "polling" /\ pc' = "exited" /\ detach_from_cpu /\ rsp_client_close
    \/ pc = "listening" /\ pc' = "exited"
       /\ UNCHANGED <<rsp, cpu, client, requests, replies>>

\* The JTAG connection is lost: the next access throws, detaching throws
\* again, and the process ends.  A handler cut short may have written any
\* of the registers it writes.
JtagLost ==
    /\ pc' = "crashed" /\ rsp_client_close /\ UNCHANGED rsp
    /\ \/ pc = "listening" /\ UNCHANGED cpu
       \/ /\ pc \in Serving
          /\ \E stalled, dsr, st \in BOOLEAN, drr \in {"none", "TE"} :
                cpu' = [cpu EXCEPT !.stalled = stalled, !.dsr = dsr, !.st = st, !.drr = drr]

\* The user starts the program again.
Restart ==
    /\ pc \in {"exited", "crashed"} /\ pc' = "starting"
    /\ UNCHANGED <<rsp, cpu, client, requests, replies>>

Init ==
    /\ pc = "starting"
    /\ is_target_running = FALSE /\ is_in_single_step_mode = FALSE
    /\ cpu_poll_speed = "SLOW" /\ watchpoint_addr = [i \in Slot |-> Disabled]
    /\ cpu = [stalled |-> FALSE, drr |-> "none", dsr |-> FALSE, st |-> FALSE,
              dvr |-> [i \in Slot |-> Disabled]]
    /\ gdb = "absent" /\ broke = FALSE /\ pending = Plain("query") /\ inserted = {}
    /\ requests = <<>> /\ replies = <<>>

Bridge ==
    \/ Break \/ rsp_continue \/ rsp_step \/ Query
    \/ InsertWatchpoint \/ RemoveWatchpoint \/ EndOfSession
    \/ poll_cpu \/ Acknowledged \/ RefusedInRequest \/ RefusedInPoll

Next ==
    \/ \E p \in Packet : SendCommand(p)
    \/ SendBreak \/ ReceiveReply \/ Leave \/ Connect
    \/ CpuTraps \/ CpuSteps
    \/ Bridge \/ Exit \/ JtagLost \/ Restart

Spec == Init /\ [][Next]_vars

\* The server loop runs (poll() returns or times out), and GDB acknowledges
\* the replies it gets for as long as it is there.
FairSpec == Spec /\ WF_vars(Bridge) /\ WF_vars(ReceiveReply)

-----------------------------------------------------------------------------
(***************************************************************************)
(* Safety                                                                  *)
(***************************************************************************)

\* Once the bridge has told GDB that the target has stopped, or accepts a
\* command because of it, the CPU is stalled, whatever the CPU was doing when
\* a break, an attachment or the end of a step reached it.
StoppedMeansStalled ==
    pc \in Serving /\ ~is_target_running => cpu.stalled

\* The copies the bridge decides by (is_in_single_step_mode when it resumes,
\* watchpoint_addr when it looks for a slot) are what the CPU holds, after
\* earlier sessions and crashes too.
CopiesAreExact ==
    pc \in Serving =>
        /\ is_in_single_step_mode = cpu.st
        /\ watchpoint_addr = cpu.dvr
        /\ cpu.dsr

\* A hardware breakpoint that GDB was told is set is set, in spite of the
\* breakpoints that earlier sessions left behind.
InsertedIsArmed == \A a \in inserted : \E i \in Slot : cpu.dvr[i] = a

\* A client that goes, is given up or is cut off by the end of the program
\* leaves a CPU that runs and that the debug unit does not stop again
\* (detach_from_cpu: "otherwise it will forever remain stalled").
CpuIsReleased ==
    pc \in {"listening", "exited"} => ~cpu.stalled /\ ~cpu.dsr /\ ~cpu.st

\* The assertions of process_client_command on the poll speed and of
\* collect_cpu_stop_reason on a CPU that stopped without a reason.
AssertionsHold ==
    /\ pc = "polling" /\ ~is_target_running => cpu_poll_speed = "SLOW"
    /\ pc = "polling" /\ is_target_running /\ cpu.stalled =>
           cpu.drr = "TE" \/ is_in_single_step_mode

\* process_client_command takes a break that comes when the target has just
\* stopped: it never ends the program.
BreakIsHandled ==
    [][pc = "in_poll" /\ pc' = "crashed" /\ requests # <<>>
          => Head(requests).op # "break"]_vars

(***************************************************************************)
(* Liveness                                                                *)
(***************************************************************************)

\* GDB, waiting for a target it has resumed, hears of every stop of the CPU
\* and of every break it sends, or loses the connection.
StopsReachGdb ==
    /\ gdb = "running" /\ is_target_running /\ cpu.stalled ~> gdb # "running"
    /\ gdb = "running" /\ broke ~> gdb # "running"

=============================================================================

----------------------------- MODULE DebugCalls -----------------------------
(***************************************************************************)
(* What the rest of GdbToJtagBridge takes a dbg_cpu0_* function for: one   *)
(* command to the CPU, carried out once, whose answer it returns.  A call  *)
(* that throws may have been carried out or not.                           *)
(***************************************************************************)
EXTENDS Integers, Sequences

CONSTANTS
    Calls,       \* the calls made
    NoCall,
    Failed,      \* the result of a call that throws
    NoData       \* what a read whose error bit is set returns

VARIABLES
    call,
    taken,       \* what the CPU has carried out since the call: [cmd, answer]
    result       \* of a call, at the time it returns

vars == <<call, taken, result>>

\* dbg_cpu0_write_and_read_spr is a write whose answer carries data.
Command(c) ==
    CASE c.kind = "stalled" -> [kind |-> "stalled"]
      [] c.kind = "read" -> [kind |-> "read", spr |-> c.spr]
      [] OTHER -> [kind |-> "write", spr |-> c.spr, data |-> c.data]

Result(c, answer) ==
    CASE c.kind = "stalled" -> answer
      [] c.kind = "write" -> [err |-> answer.err]
      [] OTHER -> IF answer.err = 1 THEN [err |-> 1, data |-> NoData] ELSE answer

Init == call = NoCall /\ taken = <<>>

Call ==
    /\ call = NoCall /\ call' \in Calls
    /\ UNCHANGED taken

Perform ==
    /\ call # NoCall /\ taken = <<>>
    /\ Len(taken') = 1 /\ taken'[1].cmd = Command(call)
    /\ UNCHANGED <<call, result>>

Return ==
    /\ call # NoCall /\ call' = NoCall /\ taken' = <<>>
    /\ \/ result' = Failed
       \/ taken # <<>> /\ result' = Result(call, taken[1].answer)

\* The caller has the result.
Forget ==
    /\ call = NoCall
    /\ UNCHANGED <<call, taken>>

Next == Call \/ Perform \/ Return \/ Forget

Spec == Init /\ [][Next]_vars
=============================================================================

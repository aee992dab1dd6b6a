------------------------------ MODULE JtagTap -------------------------------
(***************************************************************************)
(* The TAP controller of tap_top.v, which is the one of IEEE 1149.1, and   *)
(* the sequences of clocks with which chain_commands.cpp takes it from one *)
(* state to another.                                                       *)
(***************************************************************************)
EXTENDS Integers, Sequences

\* get_next_state: by TMS, 0 and 1.
get_next_state == [
    test_logic_reset |-> <<"run_test_idle", "test_logic_reset">>,
    run_test_idle    |-> <<"run_test_idle", "select_dr_scan">>,
    select_dr_scan   |-> <<"capture_dr", "select_ir_scan">>,
    capture_dr       |-> <<"shift_dr", "exit1_dr">>,
    shift_dr         |-> <<"shift_dr", "exit1_dr">>,
    exit1_dr         |-> <<"pause_dr", "update_dr">>,
    pause_dr         |-> <<"pause_dr", "exit2_dr">>,
    exit2_dr         |-> <<"shift_dr", "update_dr">>,
    update_dr        |-> <<"run_test_idle", "select_dr_scan">>,
    select_ir_scan   |-> <<"capture_ir", "test_logic_reset">>,
    capture_ir       |-> <<"shift_ir", "exit1_ir">>,
    shift_ir         |-> <<"shift_ir", "exit1_ir">>,
    exit1_ir         |-> <<"pause_ir", "update_ir">>,
    pause_ir         |-> <<"pause_ir", "exit2_ir">>,
    exit2_ir         |-> <<"shift_ir", "update_ir">>,
    update_ir        |-> <<"run_test_idle", "select_dr_scan">>]

State == DOMAIN get_next_state

After(state, tms) == get_next_state[state][tms + 1]

-----------------------------------------------------------------------------
(* What one clock carries.  A TRST that is not wired does nothing.         *)
Packet == [tdi : {0, 1}, tms : {0, 1}, trst : BOOLEAN]
Zero == [tdi |-> 0, tms |-> 0, trst |-> FALSE]
TMS  == [tdi |-> 0, tms |-> 1, trst |-> FALSE]
TRST == [tdi |-> 0, tms |-> 0, trst |-> TRUE]

\* A stream, with TMS set during the transfer of the last bit or not.
Stream(bits, with_tms) ==
    [i \in DOMAIN bits |->
        [tdi |-> bits[i], trst |-> FALSE,
         tms |-> IF with_tms /\ i = Len(bits) THEN 1 ELSE 0]]
Zeros(n) == [i \in 1 .. n |-> 0]

\* Mutant: without the first clock, which the code thinks unnecessary.
tap_reset_without_zero == <<TMS, TMS, TMS, TMS, TMS, TMS, TMS, TMS, TRST, Zero>>
tap_reset == <<Zero, TMS, TMS, TMS, TMS, TMS, TMS, TMS, TMS, TRST, Zero>>
tap_move_from_idle_to_shift_dr == <<TMS, Zero, Zero>>
tap_move_from_exit_1_to_idle == <<TMS, Zero>>
tap_set_ir(opcode) ==
    <<TMS, TMS, Zero, Zero>> \o Stream(opcode, TRUE) \o <<TMS, Zero>>
=============================================================================

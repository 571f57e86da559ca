------------------------------- MODULE E2ETest -------------------------------
(***************************************************************************)
(* The end-to-end test crates/rust-daq/tests/e2e_test.py: connect, upload  *)
(* a script, start it, read its status once, print a summary.  It is one   *)
(* caller of the control channel of ControlPlane; every test function but  *)
(* the status check ends the process with sys.exit(1) when its call        *)
(* raises.                                                                 *)
(***************************************************************************)
EXTENDS ControlPlane

CONSTANTS
    Prog        \* the caller running e2e_test.main, one of Callers

VARIABLES
    pc,         \* the next test of main, or "summary" / "exit1"
    script_id,  \* what test_script_upload returned
    exec_id,    \* what test_script_execution returned
    status_ok   \* test_status_check returned a status (not None)

pvars == <<pc, script_id, exec_id, status_ok>>
vars == <<cvars, pvars>>

Init ==
    /\ ControlInit
    /\ pc = "connect" /\ script_id = None /\ exec_id = None
    /\ status_ok = FALSE

(* test_basic_connection (lines 21-33): grpc.insecure_channel connects     *)
(* lazily, so constructing the client does not raise.                      *)
Connect ==
    /\ pc = "connect"
    /\ pc' = "upload"
    /\ UNCHANGED <<cvars, script_id, exec_id, status_ok>>

(* test_script_upload (lines 36-56).                                       *)
Upload ==
    /\ pc = "upload"
    /\ UploadScript(Prog, "valid")
    /\ IF raised'[Prog]
         THEN pc' = "exit1" /\ UNCHANGED script_id
         ELSE pc' = "start" /\ script_id' = next_script'
    /\ UNCHANGED <<exec_id, status_ok>>

(* test_script_execution (lines 59-72).                                    *)
Start ==
    /\ pc = "start"
    /\ StartScript(Prog, script_id)
    /\ IF raised'[Prog]
         THEN pc' = "exit1" /\ UNCHANGED exec_id
         ELSE pc' = "status" /\ exec_id' = next_exec'
    /\ UNCHANGED <<script_id, status_ok>>

(* test_status_check (lines 75-90): one get_status; a RuntimeError is      *)
(* printed and the function returns None.                                  *)
Status ==
    /\ pc = "status"
    /\ GetStatus(Prog, exec_id)
    /\ status_ok' = ~raised'[Prog]
    /\ pc' = "summary"
    /\ UNCHANGED <<script_id, exec_id>>

Next ==
    \/ Connect \/ Upload \/ Start \/ Status
    \/ \E e \in ExecIds : Finish(e) /\ UNCHANGED pvars

Spec == Init /\ [][Next]_vars

(* Spec section 8's end-to-end scenario: the status of the started        *)
(* execution is COMPLETED.  The test prints "End-to-End test completed    *)
(* successfully" (lines 106-116) only after reading that state.           *)
SuccessOnlyIfCompleted ==
    pc = "summary" => status_ok /\ read[Prog][exec_id] = StateCode("COMPLETED")
=============================================================================

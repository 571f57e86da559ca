----------------------------- MODULE BasicUsage -----------------------------
(***************************************************************************)
(* The example program clients/python/examples/basic_usage.py: upload a   *)
(* script, start it, then poll get_status until the state is COMPLETED or  *)
(* ERROR or max_wait has passed.  It is one caller of the control channel  *)
(* of ControlPlane; time is counted in poll intervals of 0.5 s.            *)
(***************************************************************************)
EXTENDS ControlPlane

CONSTANTS
    Prog,       \* the caller running basic_usage.main, one of Callers
    MaxWait     \* max_wait (line 58) in poll intervals

VARIABLES
    pc,         \* where main is
    script_id,  \* local script_id (line 48)
    exec_id,    \* local exec_id (line 53)
    elapsed     \* time.time() - start_time, in poll intervals

pvars == <<pc, script_id, exec_id, elapsed>>
vars == <<cvars, pvars>>

(* Python values the comparison at line 66 sees, tagged with their type;   *)
(* == between an int and a str is False.                                   *)
PyInt(n) == [type |-> "int", val |-> n]
PyStr(s) == [type |-> "str", val |-> s]
PyEq(x, y) == x.type = y.type /\ x.val = y.val
PyIn(x, list) == \E i \in DOMAIN list : PyEq(x, list[i])

(* status['state'] as get_status returns it: response.state, an int.       *)
StatusState == PyInt(read'[Prog][exec_id])

(* The test of line 66.                                                    *)
IsTerminalAsCoded(v) == PyIn(v, <<PyStr("COMPLETED"), PyStr("ERROR")>>)

Init ==
    /\ ControlInit
    /\ pc = "upload"
    /\ script_id = None
    /\ exec_id = None
    /\ elapsed = 0

\* Line 48; a RuntimeError goes to the handler of line 79.
Upload ==
    /\ pc = "upload"
    /\ UploadScript(Prog, "valid")
    /\ IF raised'[Prog]
         THEN pc' = "error" /\ UNCHANGED script_id
         ELSE pc' = "start" /\ script_id' = next_script'
    /\ UNCHANGED <<exec_id, elapsed>>

\* Line 53.
Start ==
    /\ pc = "start"
    /\ StartScript(Prog, script_id)
    /\ IF raised'[Prog]
         THEN pc' = "error" /\ UNCHANGED exec_id
         ELSE pc' = "poll" /\ exec_id' = next_exec'
    /\ UNCHANGED <<script_id, elapsed>>

\* One iteration of the loop of lines 61-73, while time is left.
Poll ==
    /\ pc = "poll"
    /\ elapsed < MaxWait
    /\ GetStatus(Prog, exec_id)
    /\ pc' = CASE raised'[Prog]                 -> "error"
               [] IsTerminalAsCoded(StatusState) -> "done"
               [] OTHER                          -> "sleep"
    /\ UNCHANGED <<script_id, exec_id, elapsed>>

\* time.sleep(0.5), line 73.
Sleep ==
    /\ pc = "sleep"
    /\ elapsed < MaxWait
    /\ elapsed' = elapsed + 1
    /\ pc' = "poll"
    /\ UNCHANGED <<cvars, script_id, exec_id>>

\* The loop condition fails: the while's else branch, lines 74-75.
Timeout ==
    /\ pc = "poll"
    /\ elapsed >= MaxWait
    /\ pc' = "timeout"
    /\ UNCHANGED <<cvars, script_id, exec_id, elapsed>>

\* Wall-clock time also passes while a call is in flight.
Tick ==
    /\ pc \in {"poll", "sleep"}
    /\ elapsed < MaxWait
    /\ elapsed' = elapsed + 1
    /\ UNCHANGED <<cvars, pc, script_id, exec_id>>

Next ==
    \/ Upload \/ Start \/ Poll \/ Sleep \/ Timeout \/ Tick
    \/ \E e \in ExecIds : Finish(e) /\ UNCHANGED pvars

Spec == Init /\ [][Next]_vars

(* The loop is commented "Poll status until complete" (line 56) and spec   *)
(* section 8 expects polling to return COMPLETED within the timeout: the   *)
(* program reports a timeout only if no status it read was terminal.       *)
TimeoutOnlyIfUnfinished ==
    pc = "timeout" =>
        read[Prog][exec_id] \notin {StateCode("COMPLETED"), StateCode("ERROR")}
=============================================================================

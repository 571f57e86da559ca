---------------------------- MODULE ControlPlane ----------------------------
(***************************************************************************)
(* The control channel: DaqClient's four synchronous calls                 *)
(* (clients/python/daq_client.py) against the daemon's script store and    *)
(* execution state machine (spec section 4.1; the daemon is not in this    *)
(* repository).  Every call crosses an unreliable transport: the request   *)
(* may be lost before the daemon sees it, or the response may be lost     *)
(* after the daemon acted.  Either way grpc raises RpcError, which the     *)
(* client turns into RuntimeError.  Several callers share one daemon.      *)
(***************************************************************************)
EXTENDS Naturals, FiniteSets

CONSTANTS
    Callers,      \* the programs holding a DaqClient
    None,         \* "no value"; also the empty id string of a failed response
    MaxScripts,   \* bound on uploads the daemon accepts
    MaxExecs,     \* bound on executions the daemon creates
    MaxLost       \* bound on lost requests and responses

ASSUME ControlNoneAssumption == None \notin Nat \cup Callers
ASSUME ControlBoundsAssumption ==
    MaxScripts \in Nat /\ MaxExecs \in Nat /\ MaxLost \in Nat

ScriptIds == 1..MaxScripts
ExecIds == 1..MaxExecs
\* Script contents the scripting engine accepts or rejects.
Contents == {"valid", "malformed"}
\* Daemon-side state of an execution id; "NONE" means never created.
ExecStates == {"NONE", "RUNNING", "COMPLETED", "ERROR"}
Terminal == {"COMPLETED", "ERROR"}
\* The ExecutionState enum of GetScriptStatus in declaration order (spec 6).
EnumNames == <<"IDLE", "RUNNING", "COMPLETED", "ERROR">>

VARIABLES
    scripts,        \* daemon: uploaded script ids
    next_script,    \* daemon: last script id issued
    exec_state,     \* daemon: state of each execution id
    exec_script,    \* daemon: script an execution runs
    requester,      \* daemon: caller whose StartScript created an execution
    next_exec,      \* daemon: last execution id issued
    lost,           \* transport: requests or responses lost so far
    held_scripts,   \* client: script ids upload_script returned to a caller
    held_execs,     \* client: execution ids start_script returned
    read,           \* client: the 'state' value get_status last returned
    raised,         \* client: the caller's last call raised RuntimeError
    start_comm_errors \* client: start_script calls that raised on RpcError

daemon == <<scripts, next_script, exec_state, exec_script, requester, next_exec>>
client == <<held_scripts, held_execs, read, raised, start_comm_errors>>
cvars == <<daemon, lost, client>>

\* A mutant numbering the enum from one.
StateCodeOneBased(st) == CHOOSE i \in 1..4 : EnumNames[i] = st

(* What the proto enum field looks like to Python: an int, not a name.     *)
StateCode(st) == CHOOSE i \in 0..3 : EnumNames[i + 1] = st

TypeOK ==
    /\ scripts \subseteq ScriptIds
    /\ next_script \in 0..MaxScripts
    /\ exec_state \in [ExecIds -> ExecStates]
    /\ exec_script \in [ExecIds -> ScriptIds \cup {None}]
    /\ requester \in [ExecIds -> Callers \cup {None}]
    /\ next_exec \in 0..MaxExecs
    /\ lost \in 0..MaxLost
    /\ held_scripts \in [Callers -> SUBSET (ScriptIds \cup {None})]
    /\ held_execs \in [Callers -> SUBSET (ExecIds \cup {None})]
    /\ read \in [Callers -> [ExecIds -> 0..3 \cup {None}]]
    /\ raised \in [Callers -> BOOLEAN]
    /\ start_comm_errors \in [Callers -> Nat]

ControlInit ==
    /\ scripts = {}
    /\ next_script = 0
    /\ exec_state = [e \in ExecIds |-> "NONE"]
    /\ exec_script = [e \in ExecIds |-> None]
    /\ requester = [e \in ExecIds |-> None]
    /\ next_exec = 0
    /\ lost = 0
    /\ held_scripts = [c \in Callers |-> {}]
    /\ held_execs = [c \in Callers |-> {}]
    /\ read = [c \in Callers |-> [e \in ExecIds |-> None]]
    /\ raised = [c \in Callers |-> FALSE]
    /\ start_comm_errors = [c \in Callers |-> 0]

(* The transport loses one message.                                        *)
Lose == lost < MaxLost /\ lost' = lost + 1

(***************************************************************************)
(* Daemon handlers, from spec section 4.1.                                 *)
(***************************************************************************)
UploadAccepted(content) == content = "valid"

DaemonUpload(content) ==
    /\ next_script < MaxScripts
    /\ IF UploadAccepted(content)
         THEN /\ next_script' = next_script + 1
              /\ scripts' = scripts \cup {next_script + 1}
         ELSE UNCHANGED <<scripts, next_script>>
    /\ UNCHANGED <<exec_state, exec_script, requester, next_exec>>

\* Start is refused for an unknown script, or while another execution holds
\* the instruments every script of this system drives.
StartAccepted(sid) ==
    sid \in scripts /\ \A e \in ExecIds : exec_state[e] # "RUNNING"

DaemonStart(c, sid) ==
    /\ next_exec < MaxExecs
    /\ IF StartAccepted(sid)
         THEN LET e == next_exec + 1 IN
              /\ next_exec' = e
              /\ exec_state' = [exec_state EXCEPT ![e] = "RUNNING"]
              /\ exec_script' = [exec_script EXCEPT ![e] = sid]
              /\ requester' = [requester EXCEPT ![e] = c]
         ELSE UNCHANGED <<exec_state, exec_script, requester, next_exec>>
    /\ UNCHANGED <<scripts, next_script>>

\* Stop of a RUNNING execution moves it to a terminal state; otherwise no effect.
DaemonStop(e) ==
    /\ IF e \in ExecIds /\ exec_state[e] = "RUNNING"
         THEN \E t \in Terminal : exec_state' = [exec_state EXCEPT ![e] = t]
         ELSE UNCHANGED exec_state
    /\ UNCHANGED <<scripts, next_script, exec_script, requester, next_exec>>

(* A running script finishes on its own, successfully or with an error.    *)
Finish(e) ==
    /\ exec_state[e] = "RUNNING"
    /\ \E t \in Terminal : exec_state' = [exec_state EXCEPT ![e] = t]
    /\ UNCHANGED <<scripts, next_script, exec_script, requester, next_exec,
                   lost, client>>

(***************************************************************************)
(* Client calls.  Each is synchronous: the request is lost, or the daemon  *)
(* handles it and then the response is lost, or the response arrives.     *)
(***************************************************************************)
Raise(c) == raised' = [raised EXCEPT ![c] = TRUE]
Returns(c) == raised' = [raised EXCEPT ![c] = FALSE]

\* A mutant of the success check: the script_id of a failed response ("") is
\* returned as if it were an id.
UploadScriptNoSuccessCheck(c, content) ==
    /\ \/ /\ Lose
          /\ UNCHANGED <<daemon, held_scripts>>
          /\ Raise(c)
       \/ /\ DaemonUpload(content)
          /\ Lose
          /\ UNCHANGED held_scripts
          /\ Raise(c)
       \/ /\ DaemonUpload(content)
          /\ UNCHANGED lost
          /\ held_scripts' = [held_scripts EXCEPT ![c] = @ \cup
                 {IF UploadAccepted(content) THEN next_script' ELSE None}]
          /\ Returns(c)
    /\ UNCHANGED <<held_execs, read, start_comm_errors>>

(* upload_script: RpcError becomes RuntimeError (lines 47-50); a response  *)
(* with success = false raises (52-53); otherwise the id is returned.      *)
UploadScript(c, content) ==
    /\ \/ /\ Lose
          /\ UNCHANGED daemon
          /\ Raise(c)
       \/ /\ DaemonUpload(content)
          /\ Lose
          /\ Raise(c)
       \/ /\ DaemonUpload(content)
          /\ UNCHANGED lost
          /\ IF UploadAccepted(content) THEN Returns(c) ELSE Raise(c)
    /\ held_scripts' = IF ~raised'[c]
                         THEN [held_scripts EXCEPT ![c] = @ \cup {next_script'}]
                         ELSE held_scripts
    /\ UNCHANGED <<held_execs, read, start_comm_errors>>

RaiseComm(c) ==
    /\ Raise(c)
    /\ start_comm_errors' = [start_comm_errors EXCEPT ![c] = @ + 1]

\* A mutant that swallows the RpcError, as the streaming calls of this class
\* do: start_script prints it and returns None, leaving the caller no id.
StartScriptSwallowsRpcError(c, sid) ==
    /\ \/ Lose /\ UNCHANGED daemon
       \/ DaemonStart(c, sid) /\ Lose
    /\ Returns(c)
    /\ UNCHANGED <<held_scripts, held_execs, read, start_comm_errors>>

(* start_script: RpcError becomes RuntimeError (lines 72-75), even when   *)
(* the daemon already started the execution; started = false raises      *)
(* (77-78); otherwise the execution id is returned.                       *)
StartScript(c, sid) ==
    /\ \/ /\ Lose
          /\ UNCHANGED <<daemon, held_execs>>
          /\ RaiseComm(c)
       \/ /\ DaemonStart(c, sid)
          /\ Lose
          /\ UNCHANGED held_execs
          /\ RaiseComm(c)
       \/ /\ DaemonStart(c, sid)
          /\ UNCHANGED <<lost, start_comm_errors>>
          /\ IF StartAccepted(sid)
               THEN /\ held_execs' = [held_execs EXCEPT ![c] = @ \cup {next_exec'}]
                    /\ Returns(c)
               ELSE /\ UNCHANGED held_execs
                    /\ Raise(c)
    /\ UNCHANGED <<held_scripts, read>>

(* get_status: a pure read.  RpcError becomes RuntimeError (99-102); an    *)
(* unknown id is an error status of the daemon (spec 4.1), also raised;    *)
(* otherwise the dict carries response.state, the enum's number (106).     *)
GetStatus(c, e) ==
    /\ \/ /\ Lose
          /\ UNCHANGED read
          /\ Raise(c)
       \/ /\ UNCHANGED lost
          /\ IF e \in ExecIds /\ exec_state[e] # "NONE"
               THEN /\ read' = [read EXCEPT ![c][e] = StateCode(exec_state[e])]
                    /\ Returns(c)
               ELSE /\ UNCHANGED read
                    /\ Raise(c)
    /\ UNCHANGED <<daemon, held_scripts, held_execs, start_comm_errors>>

(* stop_script: RpcError becomes RuntimeError (127-130); otherwise         *)
(* response.stopped is returned, False when the execution was not running. *)
StopScript(c, e) ==
    /\ \/ /\ Lose
          /\ UNCHANGED daemon
          /\ Raise(c)
       \/ /\ DaemonStop(e)
          /\ Lose
          /\ Raise(c)
       \/ /\ DaemonStop(e)
          /\ UNCHANGED lost
          /\ Returns(c)
    /\ UNCHANGED <<held_scripts, held_execs, read, start_comm_errors>>

(* Callers use the ids their calls returned them, in any order.            *)
ControlNext ==
    \/ \E c \in Callers :
         \/ \E content \in Contents : UploadScript(c, content)
         \/ \E sid \in held_scripts[c] : StartScript(c, sid)
         \/ \E e \in held_execs[c] : GetStatus(c, e) \/ StopScript(c, e)
    \/ \E e \in ExecIds : Finish(e)

ControlSpec == ControlInit /\ [][ControlNext]_cvars

(***************************************************************************)
(* Properties                                                              *)
(***************************************************************************)

(* Every id a caller holds names a daemon object the caller may use:       *)
(* upload_script returns only ids of scripts the daemon stored (the        *)
(* success check, line 52), and start_script only ids of executions the    *)
(* daemon created for this caller from one of its scripts (line 77).       *)
ClientIdsValid ==
    \A c \in Callers :
        /\ held_scripts[c] \subseteq scripts
        /\ \A e \in held_execs[c] :
              e \in ExecIds /\ requester[e] = c /\ exec_script[e] \in held_scripts[c]

(* Executions a caller started but holds no id for.                        *)
Unheld(c) == {e \in ExecIds : requester[e] = c /\ e \notin held_execs[c]}

(* An execution the daemon started for a caller never goes unreported:     *)
(* each one whose id start_script did not return is matched by a           *)
(* start_script call that raised on a communication error (lines 72-75).   *)
NoSilentOrphan ==
    \A c \in Callers : Cardinality(Unheld(c)) <= start_comm_errors[c]

(* The strengthening behind ClientIdsValid and NoSilentOrphan: execution  *)
(* ids the daemon has not issued yet belong to no caller.                  *)
ExecIdsFresh == \A e \in ExecIds : e > next_exec => requester[e] = None

(* Spec section 7 calls a communication error recoverable by the caller    *)
(* retrying the control call.  That needs every running execution to be    *)
(* known to some caller, who can stop it or read its status; start_script  *)
(* raising on a lost response (lines 72-75) leaves it known to nobody,     *)
(* and it holds the instruments, so a retried start is refused.            *)
NoOrphanExecution ==
    \A e \in ExecIds : exec_state[e] = "RUNNING" => \E c \in Callers : e \in held_execs[c]
=============================================================================

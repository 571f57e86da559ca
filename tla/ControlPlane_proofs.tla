------------------------- MODULE ControlPlane_proofs -------------------------
(***************************************************************************)
(* Proofs about the control channel, for every number of callers and every *)
(* bound on scripts, executions and lost messages.                         *)
(***************************************************************************)
EXTENDS ControlPlane, FiniteSetTheorems, TLAPS

(* ControlNext, split into the calls and the daemon's own step.            *)
LEMMA ControlNextSplit ==
  ASSUME [ControlNext]_cvars
  PROVE  \/ \E c \in Callers, content \in Contents : UploadScript(c, content)
         \/ \E c \in Callers : \E sid \in held_scripts[c] : StartScript(c, sid)
         \/ \E c \in Callers : \E e \in held_execs[c] : GetStatus(c, e)
         \/ \E c \in Callers : \E e \in held_execs[c] : StopScript(c, e)
         \/ \E e \in ExecIds : Finish(e)
         \/ UNCHANGED cvars
  BY DEF ControlNext

(* The daemon handlers keep the daemon's variables in their types.         *)
LEMMA DaemonStartType ==
  ASSUME TypeOK, NEW c \in Callers, NEW sid, DaemonStart(c, sid)
  PROVE  /\ exec_state' \in [ExecIds -> ExecStates]
         /\ exec_script' \in [ExecIds -> ScriptIds \cup {None}]
         /\ requester' \in [ExecIds -> Callers \cup {None}]
         /\ next_exec' \in 0..MaxExecs
         /\ UNCHANGED <<scripts, next_script>>
  <1> USE ControlBoundsAssumption DEF TypeOK
  <1>1. CASE StartAccepted(sid)
    <2>1. next_exec + 1 \in ExecIds /\ next_exec + 1 \in 0..MaxExecs
      BY DEF DaemonStart, ExecIds
    <2>2. sid \in ScriptIds
      BY <1>1 DEF StartAccepted
    <2>3. /\ next_exec' = next_exec + 1
          /\ exec_state' = [exec_state EXCEPT ![next_exec + 1] = "RUNNING"]
          /\ exec_script' = [exec_script EXCEPT ![next_exec + 1] = sid]
          /\ requester' = [requester EXCEPT ![next_exec + 1] = c]
          /\ UNCHANGED <<scripts, next_script>>
      BY <1>1 DEF DaemonStart
    <2>4. QED
      BY <2>1, <2>2, <2>3 DEF ExecStates
  <1>2. CASE ~StartAccepted(sid)
    BY <1>2 DEF DaemonStart
  <1>3. QED
    BY <1>1, <1>2

LEMMA DaemonStopType ==
  ASSUME TypeOK, NEW e, DaemonStop(e)
  PROVE  /\ exec_state' \in [ExecIds -> ExecStates]
         /\ UNCHANGED <<scripts, next_script, exec_script, requester, next_exec>>
  <1>1. CASE e \in ExecIds /\ exec_state[e] = "RUNNING"
    BY <1>1 DEF TypeOK, DaemonStop, ExecStates, Terminal
  <1>2. CASE ~(e \in ExecIds /\ exec_state[e] = "RUNNING")
    BY <1>2 DEF TypeOK, DaemonStop
  <1>3. QED
    BY <1>1, <1>2

LEMMA DaemonUploadType ==
  ASSUME TypeOK, NEW content, DaemonUpload(content)
  PROVE  /\ scripts' \subseteq ScriptIds
         /\ next_script' \in 0..MaxScripts
         /\ UploadAccepted(content) => next_script' \in ScriptIds
         /\ UNCHANGED <<exec_state, exec_script, requester, next_exec>>
  <1> USE ControlBoundsAssumption DEF TypeOK
  <1>1. CASE UploadAccepted(content)
    <2>1. next_script + 1 \in ScriptIds /\ next_script + 1 \in 0..MaxScripts
      BY DEF DaemonUpload, ScriptIds
    <2>2. QED
      BY <1>1, <2>1 DEF DaemonUpload
  <1>2. CASE ~UploadAccepted(content)
    BY <1>2 DEF DaemonUpload
  <1>3. QED
    BY <1>1, <1>2

(* Facts about the two outcomes a call reports.                            *)
LEMMA RaiseReturnType ==
  ASSUME TypeOK, NEW c \in Callers
  PROVE  /\ Raise(c) => raised' \in [Callers -> BOOLEAN] /\ raised'[c]
         /\ Returns(c) => raised' \in [Callers -> BOOLEAN] /\ ~raised'[c]
  BY DEF TypeOK, Raise, Returns

LEMMA UploadType ==
  ASSUME TypeOK, NEW c \in Callers, NEW content, UploadScript(c, content)
  PROVE  TypeOK'
  <1> USE ControlBoundsAssumption
  <1>1. /\ scripts' \subseteq ScriptIds /\ next_script' \in 0..MaxScripts
        /\ lost' \in 0..MaxLost /\ raised' \in [Callers -> BOOLEAN]
        /\ ~raised'[c] => next_script' \in ScriptIds
        /\ UNCHANGED <<exec_state, exec_script, requester, next_exec>>
    <2>1. CASE Lose /\ UNCHANGED daemon /\ Raise(c)
      BY <2>1, RaiseReturnType DEF TypeOK, Lose, daemon
    <2>2. CASE DaemonUpload(content) /\ Lose /\ Raise(c)
      BY <2>2, DaemonUploadType, RaiseReturnType DEF TypeOK, Lose
    <2>3. CASE /\ DaemonUpload(content)
               /\ UNCHANGED lost
               /\ IF UploadAccepted(content) THEN Returns(c) ELSE Raise(c)
      BY <2>3, DaemonUploadType, RaiseReturnType DEF TypeOK
    <2>2q. QED
      BY <2>1, <2>2, <2>3 DEF UploadScript
  <1>2. held_scripts' \in [Callers -> SUBSET (ScriptIds \cup {None})]
    BY <1>1 DEF UploadScript, TypeOK
  <1>3. QED
    BY <1>1, <1>2 DEF UploadScript, TypeOK

LEMMA StartType ==
  ASSUME TypeOK, NEW c \in Callers, NEW sid, StartScript(c, sid)
  PROVE  TypeOK'
  <1> USE ControlBoundsAssumption
  <1>1. CASE Lose /\ UNCHANGED <<daemon, held_execs>> /\ RaiseComm(c)
    BY <1>1 DEF StartScript, TypeOK, Lose, RaiseComm, Raise, daemon
  <1>2. CASE DaemonStart(c, sid) /\ Lose /\ UNCHANGED held_execs /\ RaiseComm(c)
    BY <1>2, DaemonStartType DEF StartScript, TypeOK, Lose, RaiseComm, Raise
  <1>3. CASE /\ DaemonStart(c, sid)
             /\ UNCHANGED <<lost, start_comm_errors>>
             /\ IF StartAccepted(sid)
                  THEN /\ held_execs' = [held_execs EXCEPT ![c] = @ \cup {next_exec'}]
                       /\ Returns(c)
                  ELSE /\ UNCHANGED held_execs
                       /\ Raise(c)
    <2>1. StartAccepted(sid) => next_exec' \in ExecIds
      BY <1>3 DEF DaemonStart, TypeOK, ExecIds
    <2>2. held_execs' \in [Callers -> SUBSET (ExecIds \cup {None})]
      BY <1>3, <2>1 DEF TypeOK
    <2>3. QED
      BY <1>3, <2>2, DaemonStartType, RaiseReturnType DEF StartScript, TypeOK
  <1>4. QED
    BY <1>1, <1>2, <1>3 DEF StartScript

LEMMA StatusType ==
  ASSUME TypeOK, NEW c \in Callers, NEW e, GetStatus(c, e)
  PROVE  TypeOK'
  <1>1. \A st \in ExecStates \ {"NONE"} : StateCode(st) \in 0..3
    BY DEF StateCode, EnumNames, ExecStates
  <1>2. CASE Lose /\ UNCHANGED read /\ Raise(c)
    BY <1>2, RaiseReturnType, ControlBoundsAssumption DEF GetStatus, TypeOK, Lose, daemon
  <1>3. CASE /\ UNCHANGED lost
             /\ IF e \in ExecIds /\ exec_state[e] # "NONE"
                  THEN /\ read' = [read EXCEPT ![c][e] = StateCode(exec_state[e])]
                       /\ Returns(c)
                  ELSE /\ UNCHANGED read
                       /\ Raise(c)
    <2>1. CASE e \in ExecIds /\ exec_state[e] # "NONE"
      <3>1. StateCode(exec_state[e]) \in 0..3
        BY <1>1, <2>1 DEF TypeOK
      <3>2. read' = [read EXCEPT ![c][e] = StateCode(exec_state[e])]
        BY <1>3, <2>1
      <3>3. read' \in [Callers -> [ExecIds -> 0..3 \cup {None}]]
        BY <3>1, <3>2 DEF TypeOK
      <3>4. QED
        BY <1>3, <2>1, <3>3, RaiseReturnType DEF GetStatus, TypeOK, daemon
    <2>2. CASE ~(e \in ExecIds /\ exec_state[e] # "NONE")
      BY <1>3, <2>2, RaiseReturnType DEF GetStatus, TypeOK, daemon
    <2>3. QED
      BY <2>1, <2>2
  <1>4. QED
    BY <1>2, <1>3 DEF GetStatus

LEMMA StopType ==
  ASSUME TypeOK, NEW c \in Callers, NEW e, StopScript(c, e)
  PROVE  TypeOK'
  <1> USE ControlBoundsAssumption
  <1>1. CASE Lose /\ UNCHANGED daemon /\ Raise(c)
    BY <1>1, RaiseReturnType DEF StopScript, TypeOK, Lose, daemon
  <1>2. CASE DaemonStop(e) /\ Lose /\ Raise(c)
    BY <1>2, DaemonStopType, RaiseReturnType DEF StopScript, TypeOK, Lose
  <1>3. CASE DaemonStop(e) /\ UNCHANGED lost /\ Returns(c)
    BY <1>3, DaemonStopType, RaiseReturnType DEF StopScript, TypeOK
  <1>4. QED
    BY <1>1, <1>2, <1>3 DEF StopScript

(* Every step of ControlSpec keeps every variable in its type.             *)
LEMMA ControlTypeStep ==
  ASSUME TypeOK, [ControlNext]_cvars
  PROVE  TypeOK'
  <1>1. ASSUME NEW e \in ExecIds, Finish(e) PROVE TypeOK'
    BY <1>1 DEF Finish, TypeOK, ExecStates, Terminal, client
  <1>2. CASE UNCHANGED cvars
    BY <1>2 DEF TypeOK, cvars, daemon, client
  <1>3. QED
    BY <1>1, <1>2, UploadType, StartType, StatusType, StopType, ControlNextSplit

(* TypeOK holds in every reachable state of ControlSpec.                   *)
THEOREM ControlTypeCorrect == ControlSpec => []TypeOK
  <1>1. ControlInit => TypeOK
    BY ControlBoundsAssumption DEF ControlInit, TypeOK, ExecStates
  <1>2. QED
    BY <1>1, ControlTypeStep, PTL DEF ControlSpec
-----------------------------------------------------------------------------
(* The ids callers hold.                                                   *)

CInv == TypeOK /\ ExecIdsFresh /\ ClientIdsValid /\ NoSilentOrphan

(* The executions a caller has not been told of form a finite set.         *)
LEMMA UnheldFinite ==
  ASSUME NEW c
  PROVE  IsFiniteSet(Unheld(c)) /\ Cardinality(Unheld(c)) \in Nat
  <1>1. IsFiniteSet(ExecIds)
    BY ControlBoundsAssumption, FS_Interval DEF ExecIds
  <1>2. Unheld(c) \subseteq ExecIds
    BY DEF Unheld
  <1>3. QED
    BY <1>1, <1>2, FS_Subset, FS_CardinalityType

(* A step that changes none of the ids keeps CInv.                         *)
LEMMA CInvFrame ==
  ASSUME CInv, TypeOK',
         UNCHANGED <<scripts, exec_script, requester, next_exec, held_scripts,
                     held_execs, start_comm_errors>>
  PROVE  CInv'
  BY DEF CInv, ExecIdsFresh, ClientIdsValid, NoSilentOrphan, Unheld

(* upload_script only adds scripts, and hands a caller only the id of a    *)
(* script the daemon has just stored.                                      *)
LEMMA CInvUpload ==
  ASSUME CInv, NEW c \in Callers, NEW content, UploadScript(c, content)
  PROVE  CInv'
  <1> USE DEF CInv
  <1>1. TypeOK'
    BY UploadType
  <1>2. UNCHANGED <<exec_script, requester, next_exec, held_execs, start_comm_errors>>
    BY DEF UploadScript, DaemonUpload, daemon
  <1>3. scripts \subseteq scripts'
    BY DEF UploadScript, DaemonUpload, daemon
  <1>4. ~raised'[c] => next_script' \in scripts'
    <2>1. CASE Lose /\ UNCHANGED daemon /\ Raise(c)
      BY <2>1 DEF Raise, TypeOK
    <2>2. CASE DaemonUpload(content) /\ Lose /\ Raise(c)
      BY <2>2 DEF Raise, TypeOK
    <2>3. CASE /\ DaemonUpload(content)
               /\ UNCHANGED lost
               /\ IF UploadAccepted(content) THEN Returns(c) ELSE Raise(c)
      BY <2>3 DEF DaemonUpload, Raise, TypeOK
    <2>4. QED
      BY <2>1, <2>2, <2>3 DEF UploadScript
  <1>5. \A d \in Callers : held_scripts[d] \subseteq held_scripts'[d]
                           /\ held_scripts'[d] \subseteq held_scripts[d] \cup scripts'
    BY <1>4 DEF UploadScript, TypeOK
  <1>6. ClientIdsValid'
    BY <1>2, <1>3, <1>5 DEF ClientIdsValid
  <1>7. QED
    BY <1>1, <1>2, <1>6 DEF ExecIdsFresh, NoSilentOrphan, Unheld

(* What an accepted start does: it issues the next execution id, which no  *)
(* caller holds yet, to the requesting caller.                             *)
LEMMA StartAcceptedEffect ==
  ASSUME CInv, NEW c \in Callers, NEW sid, DaemonStart(c, sid), StartAccepted(sid)
  PROVE  /\ next_exec + 1 \in ExecIds
         /\ next_exec' = next_exec + 1
         /\ requester' = [requester EXCEPT ![next_exec + 1] = c]
         /\ exec_script' = [exec_script EXCEPT ![next_exec + 1] = sid]
         /\ \A d \in Callers : next_exec + 1 \notin held_execs[d]
         /\ next_exec + 1 \notin Unheld(c)
         /\ UNCHANGED <<scripts, next_script>>
  <1> USE DEF CInv, TypeOK
  <1>1. next_exec + 1 \in ExecIds
    BY ControlBoundsAssumption DEF DaemonStart, ExecIds
  <1>2. requester[next_exec + 1] = None
    BY <1>1 DEF ExecIdsFresh
  <1>3. \A d \in Callers : next_exec + 1 \notin held_execs[d]
    BY <1>2, ControlNoneAssumption DEF ClientIdsValid
  <1>4. next_exec + 1 \notin Unheld(c)
    BY <1>2, ControlNoneAssumption DEF Unheld
  <1>5. QED
    BY <1>1, <1>3, <1>4 DEF DaemonStart

(* A refused start changes nothing at the daemon but the transport.        *)
LEMMA StartRefusedEffect ==
  ASSUME NEW c, NEW sid, DaemonStart(c, sid), ~StartAccepted(sid)
  PROVE  UNCHANGED <<scripts, next_script, exec_state, exec_script, requester, next_exec>>
  BY DEF DaemonStart

(* start_script hands a caller only the id of the execution just started   *)
(* for it, from one of its scripts; when it raises on a communication      *)
(* error it counts it, which covers the execution whose id was lost.       *)
LEMMA CInvStart ==
  ASSUME CInv, NEW c \in Callers, NEW sid \in held_scripts[c], StartScript(c, sid)
  PROVE  CInv'
  <1> USE DEF CInv
  <1>1. TypeOK'
    BY StartType
  <1>2. UNCHANGED <<held_scripts, read>>
    BY DEF StartScript
  <1>3. CASE Lose /\ UNCHANGED <<daemon, held_execs>> /\ RaiseComm(c)
    <2>1. start_comm_errors' = [start_comm_errors EXCEPT ![c] = @ + 1]
      BY <1>3 DEF RaiseComm
    <2>2. \A d \in Callers : Unheld(d)' = Unheld(d)
      BY <1>3 DEF Unheld, daemon
    <2>3. NoSilentOrphan'
      BY <2>1, <2>2, UnheldFinite DEF NoSilentOrphan, TypeOK
    <2>4. QED
      BY <1>1, <1>2, <1>3, <2>3 DEF daemon, ExecIdsFresh, ClientIdsValid
  <1>4. CASE DaemonStart(c, sid) /\ Lose /\ UNCHANGED held_execs /\ RaiseComm(c)
    <2>1. start_comm_errors' = [start_comm_errors EXCEPT ![c] = @ + 1]
      BY <1>4 DEF RaiseComm
    <2>2. CASE StartAccepted(sid)
      <3> DEFINE e0 == next_exec + 1
      <3>1. /\ e0 \in ExecIds /\ next_exec' = e0
            /\ requester' = [requester EXCEPT ![e0] = c]
            /\ exec_script' = [exec_script EXCEPT ![e0] = sid]
            /\ \A d \in Callers : e0 \notin held_execs[d]
            /\ e0 \notin Unheld(c)
            /\ UNCHANGED <<scripts, next_script>>
        BY <1>4, <2>2, StartAcceptedEffect
      <3>2. ExecIdsFresh'
        BY <3>1 DEF ExecIdsFresh, TypeOK, ExecIds
      <3>3. ClientIdsValid'
        BY <1>2, <1>4, <3>1 DEF ClientIdsValid, TypeOK
      <3>4. Unheld(c)' = Unheld(c) \cup {e0}
        BY <1>4, <3>1 DEF Unheld, TypeOK
      <3>5. \A d \in Callers \ {c} : Unheld(d)' = Unheld(d)
        <4> SUFFICES ASSUME NEW d \in Callers \ {c}, NEW e \in ExecIds
                     PROVE  (requester'[e] = d /\ e \notin held_execs'[d])
                              <=> (requester[e] = d /\ e \notin held_execs[d])
          BY DEF Unheld
        <4>1. requester'[e] = d <=> requester[e] = d
          <5>1. CASE e = e0
            BY <3>1, <5>1, ControlNoneAssumption DEF TypeOK, ExecIdsFresh, ExecIds
          <5>2. CASE e # e0
            BY <3>1, <5>2 DEF TypeOK
          <5>3. QED
            BY <5>1, <5>2
        <4>2. QED
          BY <1>4, <4>1
      <3>6. Cardinality(Unheld(c)') = Cardinality(Unheld(c)) + 1
        BY <3>1, <3>4, UnheldFinite, FS_AddElement
      <3>7. NoSilentOrphan'
        BY <2>1, <3>5, <3>6, UnheldFinite DEF NoSilentOrphan, TypeOK
      <3>8. QED
        BY <1>1, <3>2, <3>3, <3>7
    <2>3. CASE ~StartAccepted(sid)
      <3>1. UNCHANGED <<scripts, exec_script, requester, next_exec, held_execs>>
        BY <1>4, <2>3, StartRefusedEffect
      <3>2. \A d \in Callers : Unheld(d)' = Unheld(d)
        BY <3>1 DEF Unheld
      <3>3. NoSilentOrphan'
        BY <2>1, <3>2, UnheldFinite DEF NoSilentOrphan, TypeOK
      <3>4. QED
        BY <1>1, <1>2, <3>1, <3>3 DEF ExecIdsFresh, ClientIdsValid
    <2>4. QED
      BY <2>2, <2>3
  <1>5. CASE /\ DaemonStart(c, sid)
             /\ UNCHANGED <<lost, start_comm_errors>>
             /\ IF StartAccepted(sid)
                  THEN /\ held_execs' = [held_execs EXCEPT ![c] = @ \cup {next_exec'}]
                       /\ Returns(c)
                  ELSE /\ UNCHANGED held_execs
                       /\ Raise(c)
    <2>1. CASE StartAccepted(sid)
      <3> DEFINE e0 == next_exec + 1
      <3>1. /\ e0 \in ExecIds /\ next_exec' = e0
            /\ requester' = [requester EXCEPT ![e0] = c]
            /\ exec_script' = [exec_script EXCEPT ![e0] = sid]
            /\ \A d \in Callers : e0 \notin held_execs[d]
            /\ e0 \notin Unheld(c)
            /\ UNCHANGED <<scripts, next_script>>
        BY <1>5, <2>1, StartAcceptedEffect
      <3>2. held_execs' = [held_execs EXCEPT ![c] = @ \cup {e0}]
        BY <1>5, <2>1, <3>1
      <3>3. ExecIdsFresh'
        BY <3>1 DEF ExecIdsFresh, TypeOK, ExecIds
      <3>4. ClientIdsValid'
        BY <1>2, <3>1, <3>2 DEF ClientIdsValid, TypeOK
      <3>5. \A d \in Callers : Unheld(d)' = Unheld(d)
        <4> SUFFICES ASSUME NEW d \in Callers, NEW e \in ExecIds
                     PROVE  (requester'[e] = d /\ e \notin held_execs'[d])
                              <=> (requester[e] = d /\ e \notin held_execs[d])
          BY DEF Unheld
        <4>1. CASE e = e0
          <5>1. requester'[e] = c /\ e \in held_execs'[c]
            BY <3>1, <3>2, <4>1 DEF TypeOK
          <5>2. requester[e] # d
            BY <3>1, <4>1, ControlNoneAssumption DEF ExecIdsFresh, ExecIds, TypeOK
          <5>3. QED
            BY <5>1, <5>2
        <4>2. CASE e # e0
          <5>1. requester'[e] = requester[e]
            BY <3>1, <4>2 DEF TypeOK
          <5>2. held_execs'[d] \ {e0} = held_execs[d] \ {e0}
            BY <3>2 DEF TypeOK
          <5>3. QED
            BY <4>2, <5>1, <5>2
        <4>3. QED
          BY <4>1, <4>2
      <3>6. NoSilentOrphan'
        BY <1>5, <3>5 DEF NoSilentOrphan
      <3>7. QED
        BY <1>1, <3>3, <3>4, <3>6
    <2>2. CASE ~StartAccepted(sid)
      <3>1. UNCHANGED <<scripts, exec_script, requester, next_exec, held_execs>>
        BY <1>5, <2>2, StartRefusedEffect
      <3>2. QED
        BY <1>1, <1>2, <1>5, <3>1, CInvFrame
    <2>3. QED
      BY <2>1, <2>2
  <1>6. QED
    BY <1>3, <1>4, <1>5 DEF StartScript

(* Every step of ControlSpec keeps CInv: get_status, stop_script and the   *)
(* daemon finishing a script change no id, upload_script and start_script  *)
(* are CInvUpload and CInvStart.                                           *)
LEMMA CInvStep ==
  ASSUME CInv, [ControlNext]_cvars
  PROVE  CInv'
  <1>1. TypeOK'
    BY ControlTypeStep DEF CInv
  <1>2. ASSUME NEW c \in Callers, NEW e, GetStatus(c, e) PROVE CInv'
    BY <1>1, <1>2, CInvFrame DEF GetStatus, daemon
  <1>3. ASSUME NEW c \in Callers, NEW e, StopScript(c, e) PROVE CInv'
    BY <1>1, <1>3, CInvFrame DEF StopScript, DaemonStop, daemon
  <1>4. ASSUME NEW e \in ExecIds, Finish(e) PROVE CInv'
    BY <1>1, <1>4, CInvFrame DEF Finish, client
  <1>5. CASE UNCHANGED cvars
    BY <1>1, <1>5, CInvFrame DEF cvars, daemon, client
  <1>6. QED
    BY <1>2, <1>3, <1>4, <1>5, CInvUpload, CInvStart, ControlNextSplit

(* CInv holds initially: nobody holds an id and no execution exists.       *)
LEMMA CInvInit ==
  ASSUME ControlInit
  PROVE  CInv
  <1>1. TypeOK
    BY ControlBoundsAssumption DEF ControlInit, TypeOK, ExecStates
  <1>2. \A c \in Callers : Unheld(c) = {}
    BY ControlNoneAssumption DEF ControlInit, Unheld
  <1>3. NoSilentOrphan
    <2> SUFFICES ASSUME NEW c \in Callers
                 PROVE  Cardinality(Unheld(c)) <= start_comm_errors[c]
      BY DEF NoSilentOrphan
    <2>1. Cardinality(Unheld(c)) = 0
      BY <1>2, FS_EmptySet
    <2>2. start_comm_errors[c] = 0
      BY DEF ControlInit
    <2>3. QED
      BY <2>1, <2>2
  <1>4. QED
    BY <1>1, <1>3 DEF CInv, ControlInit, ExecIdsFresh, ClientIdsValid

(* CInv holds in every reachable state of ControlSpec.                     *)
LEMMA CInvariant == ControlSpec => []CInv
  BY CInvInit, CInvStep, PTL DEF ControlSpec

(* upload_script returns only ids of scripts the daemon stored, and        *)
(* start_script only ids of executions the daemon created for the caller,  *)
(* from one of the caller's scripts, whatever messages are lost.           *)
THEOREM ClientIdsValidHolds == ControlSpec => []ClientIdsValid
  BY CInvariant, PTL DEF CInv

(* start_script turns every failed RPC into a RuntimeError (lines 72-75):  *)
(* a caller that was never told the id of an execution it started has     *)
(* seen at least as many communication errors from start_script.           *)
THEOREM NoSilentOrphanHolds == ControlSpec => []NoSilentOrphan
  BY CInvariant, PTL DEF CInv
=============================================================================

------------------------- MODULE EventStreams_proofs -------------------------
(***************************************************************************)
(* Proofs about ParameterSubscription and DeviceStateStream used one task *)
(* per object (EventStreams!Spec), for every number of objects, calls,    *)
(* events and every buffer size.                                           *)
(***************************************************************************)
EXTENDS EventStreams, TLAPS

(* The iterator an object holds is a call its own __aenter__ issued.      *)
OwnIterator ==
  \A s \in Subs : iterator[s] # None =>
      iterator[s] \in 1..next_call /\ owner[iterator[s]] = s

(* With one task per object, __anext__ only ever awaits the object's       *)
(* current iterator: __aexit__ abandons the await of its own task.         *)
AwaitsOwnIterator == \A s \in Subs : awaiting[s] \subseteq {iterator[s]}

(* __aenter__ sets _iterator and __aexit__ clears it.                      *)
ScopeHasIterator == \A s \in Subs : in_scope[s] <=> iterator[s] # None

(* Until a DeviceStateStream opened with include_snapshot returns its     *)
(* first update, its call's buffer starts with the snapshot, or is empty  *)
(* on a call that will receive nothing more.                               *)
SnapshotAtHead ==
  \A s \in DeviceSubs :
    (in_scope[s] /\ include_snapshot[s] /\ first_returned[s] = None) =>
       \/ queue[iterator[s]] # <<>> /\ Head(queue[iterator[s]]) = "snapshot"
       \/ queue[iterator[s]] = <<>> /\ call[iterator[s]] # "open"

IInv ==
  /\ TypeOK /\ OwnIterator /\ AwaitsOwnIterator /\ ScopeHasIterator
  /\ SnapshotAtHead /\ SnapshotFirst

(* Python's None is neither an event nor a call number.                    *)
LEMMA NoneFacts == None \notin Calls /\ None \notin Events
  BY EventStreamsAssumption DEF Calls, Events

(* The initial state satisfies the invariant.                              *)
LEMMA InitIInv == Init => IInv
<1> SUFFICES ASSUME Init PROVE IInv
  OBVIOUS
<1>1. TypeOK
  BY EventStreamsAssumption DEF Init, TypeOK, Calls, CallStates
<1>2. \A s \in Subs : iterator[s] = None /\ awaiting[s] = {} /\ ~in_scope[s]
  BY DEF Init
<1>3. QED
  BY <1>1, <1>2
  DEF IInv, OwnIterator, AwaitsOwnIterator, ScopeHasIterator, SnapshotAtHead,
      SnapshotFirst, Subs

(* __aenter__ of either class: the new call is one no object holds yet,   *)
(* and for a DeviceStateStream with include_snapshot it starts with the   *)
(* snapshot.                                                               *)
LEMMA OpenScopeStep ==
  ASSUME IInv, NEW s \in Subs, NEW fm \in Seq(Events),
         (s \in DeviceSubs /\ include_snapshot[s]) => fm = <<"snapshot">>,
         OpenScope(s, fm)
  PROVE  IInv'
<1> DEFINE nc == next_call + 1
<1>1. nc \in Calls /\ nc \notin 1..next_call /\ nc # None
  BY EventStreamsAssumption DEF OpenScope, IInv, TypeOK, Calls
<1>2. /\ iterator' = [iterator EXCEPT ![s] = nc]
      /\ call' = [call EXCEPT ![nc] = "open"]
      /\ queue' = [queue EXCEPT ![nc] = fm]
      /\ owner' = [owner EXCEPT ![nc] = s]
      /\ next_call' = nc
      /\ in_scope' = [in_scope EXCEPT ![s] = TRUE]
      /\ active' = [active EXCEPT ![s] = TRUE]
      /\ count' = [count EXCEPT ![s] = 0]
      /\ first_returned' = [first_returned EXCEPT ![s] = None]
      /\ UNCHANGED <<include_snapshot, awaiting, produced>>
      /\ ~in_scope[s]
  BY DEF OpenScope
<1>3. iterator[s] = None /\ awaiting[s] = {}
  BY <1>2, NoneFacts DEF IInv, ScopeHasIterator, AwaitsOwnIterator, TypeOK
<1>4. \A t \in Subs \ {s} : iterator[t] # nc
  BY <1>1 DEF IInv, OwnIterator
<1>5. TypeOK'
  <2>1. iterator' \in [Subs -> Calls \cup {None}] /\ owner' \in [Calls -> Subs \cup {None}]
    BY <1>1, <1>2 DEF IInv, TypeOK
  <2>2. call' \in [Calls -> CallStates] /\ queue' \in [Calls -> Seq(Events)]
    BY <1>1, <1>2 DEF IInv, TypeOK, CallStates
  <2>3. next_call' \in 0..MaxCalls
    BY <1>1, <1>2, EventStreamsAssumption DEF Calls
  <2>4. /\ in_scope' \in [Subs -> BOOLEAN] /\ active' \in [Subs -> BOOLEAN]
        /\ count' \in [Subs -> Nat]
        /\ first_returned' \in [Subs -> Events \cup {None}]
    BY <1>2 DEF IInv, TypeOK
  <2>5. QED
    BY <2>1, <2>2, <2>3, <2>4, <1>2 DEF IInv, TypeOK
<1>6. OwnIterator'
  BY <1>1, <1>2, <1>4 DEF IInv, OwnIterator, TypeOK
<1>7. AwaitsOwnIterator'
  BY <1>2, <1>3 DEF IInv, AwaitsOwnIterator, TypeOK
<1>8. ScopeHasIterator'
  BY <1>1, <1>2 DEF IInv, ScopeHasIterator, TypeOK
<1>9. SnapshotAtHead'
  <2> SUFFICES ASSUME NEW t \in DeviceSubs,
                      in_scope'[t], include_snapshot'[t], first_returned'[t] = None
               PROVE  \/ queue'[iterator'[t]] # <<>>
                         /\ Head(queue'[iterator'[t]]) = "snapshot"
                      \/ queue'[iterator'[t]] = <<>> /\ call'[iterator'[t]] # "open"
    BY DEF SnapshotAtHead
  <2>1. CASE t = s
    <3>1. include_snapshot[s] /\ s \in DeviceSubs
      BY <2>1, <1>2
    <3>2. fm = <<"snapshot">>
      BY <3>1
    <3>3. iterator'[t] = nc /\ queue'[nc] = fm
      BY <2>1, <1>1, <1>2 DEF IInv, TypeOK, Subs
    <3>4. QED
      BY <3>2, <3>3
  <2>2. CASE t # s
    <3>1. iterator'[t] = iterator[t] /\ iterator[t] # nc /\ in_scope[t]
          /\ first_returned[t] = None /\ iterator[t] \in Calls
      BY <2>2, <1>2, <1>4, NoneFacts DEF IInv, TypeOK, Subs, ScopeHasIterator
    <3>2. queue'[iterator[t]] = queue[iterator[t]] /\ call'[iterator[t]] = call[iterator[t]]
      BY <3>1, <1>2 DEF IInv, TypeOK
    <3>3. QED
      BY <3>1, <3>2, <1>2 DEF IInv, SnapshotAtHead
  <2>6. QED
    BY <2>1, <2>2
<1>10. SnapshotFirst'
  BY <1>2 DEF IInv, SnapshotFirst, TypeOK, Subs
<1>11. QED
  BY <1>5, <1>6, <1>7, <1>8, <1>9, <1>10 DEF IInv


(* __aexit__ by the task that runs the body: the object leaves its scope  *)
(* and drops its iterator together with its own pending await.             *)
LEMMA AExitStep ==
  ASSUME IInv, NEW s \in Subs, AExit(s)
  PROVE  IInv'
<1>1. /\ in_scope' = [in_scope EXCEPT ![s] = FALSE]
      /\ active' = [active EXCEPT ![s] = FALSE]
      /\ iterator' = [iterator EXCEPT ![s] = None]
      /\ awaiting' = [awaiting EXCEPT ![s] = @ \ {iterator[s]}]
      /\ UNCHANGED <<include_snapshot, count, first_returned, call, queue,
                     owner, next_call, produced>>
  BY DEF AExit
<1>2. awaiting'[s] = {}
  BY <1>1 DEF IInv, AwaitsOwnIterator, TypeOK
<1>3. TypeOK'
  BY <1>1 DEF IInv, TypeOK
<1>4. OwnIterator' /\ ScopeHasIterator'
  BY <1>1 DEF IInv, TypeOK, OwnIterator, ScopeHasIterator
<1>5. AwaitsOwnIterator'
  BY <1>1, <1>2 DEF IInv, TypeOK, AwaitsOwnIterator
<1>6. SnapshotAtHead' /\ SnapshotFirst'
  BY <1>1 DEF IInv, TypeOK, SnapshotAtHead, SnapshotFirst, Subs
<1>7. QED
  BY <1>3, <1>4, <1>5, <1>6 DEF IInv

(* __anext__ up to its await: the task suspends on the current iterator.  *)
LEMMA ANextBeginStep ==
  ASSUME IInv, NEW s \in Subs, ANextBegin(s)
  PROVE  IInv'
<1>1. /\ awaiting' = [awaiting EXCEPT ![s] = @ \cup {iterator[s]}]
      /\ iterator[s] # None
      /\ UNCHANGED <<include_snapshot, in_scope, active, iterator, count,
                     first_returned, call, queue, owner, next_call, produced>>
  BY DEF ANextBegin
<1>2. iterator[s] \in Calls
  BY <1>1 DEF IInv, TypeOK
<1>3. QED
  BY <1>1, <1>2
  DEF IInv, TypeOK, OwnIterator, AwaitsOwnIterator, ScopeHasIterator,
      SnapshotAtHead, SnapshotFirst

(* The call a task is suspended on is the object's own iterator, which no *)
(* other object holds.                                                     *)
LEMMA AwaitedIsOwn ==
  ASSUME IInv, NEW s \in Subs, NEW c \in awaiting[s]
  PROVE  /\ c = iterator[s] /\ c \in Calls
         /\ \A t \in Subs \ {s} : iterator[t] # c
<1>1. c = iterator[s] /\ c \in Calls
  BY DEF IInv, AwaitsOwnIterator, TypeOK
<1>2. owner[c] = s
  BY <1>1, NoneFacts DEF IInv, OwnIterator
<1>3. ASSUME NEW t \in Subs, iterator[t] = c PROVE t = s
  BY <1>1, <1>2, <1>3, NoneFacts DEF IInv, OwnIterator
<1>4. QED
  BY <1>1, <1>3

(* The await returns the head of the buffer.  A DeviceStateStream always  *)
(* returns what it counted, so its first returned update is that head,    *)
(* which SnapshotAtHead says is the snapshot.                              *)
LEMMA ResumeStep ==
  ASSUME IInv, NEW s \in Subs, NEW c \in Calls, NEW r \in BOOLEAN,
         s \in DeviceSubs => r,
         Resume(s, c, r)
  PROVE  IInv'
<1>1. /\ c \in awaiting[s] /\ queue[c] # <<>>
      /\ awaiting' = [awaiting EXCEPT ![s] = @ \ {c}]
      /\ queue' = [queue EXCEPT ![c] = Tail(@)]
      /\ count' = [count EXCEPT ![s] = @ + 1]
      /\ first_returned' =
           IF r /\ first_returned[s] = None
             THEN [first_returned EXCEPT ![s] = Head(queue[c])]
             ELSE first_returned
      /\ UNCHANGED <<include_snapshot, in_scope, active, iterator, call, owner,
                     next_call, produced>>
  BY DEF Resume
<1>2. c = iterator[s] /\ \A t \in Subs \ {s} : iterator[t] # c
  BY <1>1, AwaitedIsOwn
<1>3. queue[c] \in Seq(Events) /\ Head(queue[c]) \in Events
  BY <1>1 DEF IInv, TypeOK
<1>4. TypeOK'
  BY <1>1, <1>3 DEF IInv, TypeOK
<1>5. OwnIterator' /\ ScopeHasIterator' /\ AwaitsOwnIterator'
  BY <1>1, <1>2 DEF IInv, TypeOK, OwnIterator, ScopeHasIterator,
                    AwaitsOwnIterator
<1>6. ASSUME NEW t \in DeviceSubs, in_scope[t], include_snapshot[t]
      PROVE  /\ first_returned'[t] \in {None, "snapshot"}
             /\ first_returned'[t] = None =>
                  \/ queue'[iterator[t]] # <<>>
                     /\ Head(queue'[iterator[t]]) = "snapshot"
                  \/ queue'[iterator[t]] = <<>> /\ call[iterator[t]] # "open"
  <2>1. CASE t = s
    <3>1. r
      BY <2>1
    <3>2. CASE first_returned[s] = None
      <4>1. Head(queue[c]) = "snapshot"
        BY <1>1, <1>2, <2>1, <3>2, <1>6 DEF IInv, SnapshotAtHead
      <4>2. first_returned' = [first_returned EXCEPT ![s] = Head(queue[c])]
        BY <3>1, <3>2, <1>1
      <4>3. first_returned'[t] = "snapshot"
        BY <4>1, <4>2, <2>1 DEF IInv, TypeOK
      <4>4. QED
        BY <4>3, NoneFacts DEF Events
    <3>3. CASE first_returned[s] # None
      BY <3>3, <2>1, <1>1, <1>6 DEF IInv, SnapshotFirst
    <3>4. QED
      BY <3>2, <3>3
  <2>2. CASE t # s
    <3>1. first_returned'[t] = first_returned[t] /\ t \in Subs
      BY <2>2, <1>1 DEF IInv, TypeOK, Subs
    <3>2. iterator[t] \in Calls /\ iterator[t] # c
      BY <1>6, <2>2, <1>2, NoneFacts DEF IInv, ScopeHasIterator, TypeOK, Subs
    <3>3. queue'[iterator[t]] = queue[iterator[t]]
      BY <3>2, <1>1 DEF IInv, TypeOK
    <3>4. QED
      BY <3>1, <3>3, <1>6 DEF IInv, SnapshotAtHead, SnapshotFirst
  <2>3. QED
    BY <2>1, <2>2
<1>7. SnapshotAtHead' /\ SnapshotFirst'
  BY <1>1, <1>6 DEF SnapshotAtHead, SnapshotFirst
<1>8. QED
  BY <1>4, <1>5, <1>7 DEF IInv


(* The await ends: StopAsyncIteration clears _active, an RPC error ends   *)
(* the call; neither touches a buffer.                                     *)
LEMMA ANextEndStep ==
  ASSUME IInv, NEW s \in Subs, NEW c \in Calls, ANextEnd(s, c) \/ ANextError(s, c)
  PROVE  IInv'
<1>1. c = iterator[s] /\ awaiting' = [awaiting EXCEPT ![s] = @ \ {c}]
  BY AwaitedIsOwn DEF ANextEnd, ANextError
<1>2. CASE ANextEnd(s, c)
  <2>1. /\ active' = [active EXCEPT ![s] = FALSE]
        /\ UNCHANGED <<include_snapshot, in_scope, iterator, count,
                       first_returned, call, queue, owner, next_call, produced>>
    BY <1>2 DEF ANextEnd
  <2>2. QED
    BY <1>1, <2>1
    DEF IInv, TypeOK, OwnIterator, AwaitsOwnIterator, ScopeHasIterator,
        SnapshotAtHead, SnapshotFirst
<1>3. CASE ANextError(s, c)
  <2>1. /\ call[c] = "failed" /\ call' = [call EXCEPT ![c] = "ended"]
        /\ UNCHANGED <<include_snapshot, in_scope, active, iterator, count,
                       first_returned, queue, owner, next_call, produced>>
    BY <1>3 DEF ANextError
  <2>2. \A d \in Calls : call'[d] = "open" <=> call[d] = "open"
    BY <2>1 DEF IInv, TypeOK
  <2>3. QED
    BY <1>1, <2>1, <2>2
    DEF IInv, TypeOK, OwnIterator, AwaitsOwnIterator, ScopeHasIterator,
        SnapshotAtHead, SnapshotFirst, CallStates
<1>4. QED
  BY <1>2, <1>3

(* A step of the daemon or the transport on call c keeps the snapshot at  *)
(* the head of its buffer: it appends, or empties a call it ends, or      *)
(* leaves the buffer alone and does not reopen the call.  An empty buffer *)
(* of an open call, which SnapshotAtHead excludes, may become anything.    *)
KeepsHead(c) ==
  \/ queue[c] # <<>> /\ queue'[c] # <<>> /\ Head(queue'[c]) = Head(queue[c])
  \/ queue'[c] = <<>> /\ call'[c] # "open"
  \/ queue'[c] = queue[c] /\ (call[c] # "open" => call'[c] # "open")
  \/ queue[c] = <<>> /\ call[c] = "open"

(* The daemon, the transport and the finalizer leave the client's state   *)
(* alone, so every step of theirs that keeps each buffer's head and the   *)
(* types keeps the invariant.                                              *)
LEMMA EnvironmentStep ==
  ASSUME IInv, TypeOK',
         UNCHANGED <<include_snapshot, client, owner, next_call>>,
         \A c \in Calls : KeepsHead(c)
  PROVE  IInv'
<1>1. OwnIterator' /\ AwaitsOwnIterator' /\ ScopeHasIterator' /\ SnapshotFirst'
  BY DEF client, IInv, OwnIterator, AwaitsOwnIterator, ScopeHasIterator,
         SnapshotFirst
<1>2. SnapshotAtHead'
  <2> SUFFICES ASSUME NEW t \in DeviceSubs,
                      in_scope'[t], include_snapshot'[t], first_returned'[t] = None
               PROVE  \/ queue'[iterator'[t]] # <<>>
                         /\ Head(queue'[iterator'[t]]) = "snapshot"
                      \/ queue'[iterator'[t]] = <<>> /\ call'[iterator'[t]] # "open"
    BY DEF SnapshotAtHead
  <2>1. iterator[t] \in Calls /\ iterator'[t] = iterator[t]
    BY NoneFacts DEF client, IInv, ScopeHasIterator, TypeOK, Subs
  <2>2. \/ queue[iterator[t]] # <<>> /\ Head(queue[iterator[t]]) = "snapshot"
        \/ queue[iterator[t]] = <<>> /\ call[iterator[t]] # "open"
    BY DEF client, IInv, SnapshotAtHead
  <2>3. KeepsHead(iterator[t])
    BY <2>1
  <2>4. QED
    BY <2>1, <2>2, <2>3 DEF KeepsHead
<1>3. QED
  BY <1>1, <1>2 DEF IInv


(* The daemon broadcasts an event: open calls with room append it.         *)
LEMMA BroadcastStep ==
  ASSUME IInv, NEW kind \in SUBSET Subs, NEW e \in Events, Broadcast(kind, e)
  PROVE  IInv'
<1>1. /\ produced < MaxEvents /\ produced' = produced + 1
      /\ queue' = [c \in Calls |->
                     IF call[c] = "open" /\ owner[c] \in kind /\ Len(queue[c]) < QueueCap
                       THEN Append(queue[c], e) ELSE queue[c]]
      /\ UNCHANGED <<include_snapshot, client, call, owner, next_call>>
  BY DEF Broadcast
<1>2. TypeOK'
  BY <1>1, EventStreamsAssumption DEF IInv, TypeOK, client
<1>3. ASSUME NEW c \in Calls PROVE KeepsHead(c)
  <2>1. queue[c] \in Seq(Events)
    BY DEF IInv, TypeOK
  <2>2. CASE call[c] = "open" /\ owner[c] \in kind /\ Len(queue[c]) < QueueCap
    <3>1. queue'[c] = Append(queue[c], e)
      BY <1>1, <2>2
    <3>2. queue[c] = <<>> \/ (queue[c] # <<>> /\ Head(queue'[c]) = Head(queue[c]))
      BY <3>1, <2>1
    <3>3. queue[c] = <<>> => queue'[c] = <<e>>
      BY <3>1
    <3>4. QED
      BY <3>1, <3>2, <3>3, <2>2, <1>1 DEF KeepsHead
  <2>3. CASE ~(call[c] = "open" /\ owner[c] \in kind /\ Len(queue[c]) < QueueCap)
    BY <1>1, <2>3 DEF KeepsHead
  <2>4. QED
    BY <2>2, <2>3
<1>4. QED
  BY <1>1, <1>2, <1>3, EnvironmentStep

(* The daemon ends call c; its buffer is still delivered.                  *)
LEMMA ServerEndStep ==
  ASSUME IInv, NEW c \in Calls, ServerEnd(c)
  PROVE  IInv'
<1>1. /\ call' = [call EXCEPT ![c] = "ended"]
      /\ UNCHANGED <<include_snapshot, client, queue, owner, next_call, produced>>
  BY DEF ServerEnd
<1>2. TypeOK'
  BY <1>1 DEF IInv, TypeOK, client, CallStates
<1>3. \A d \in Calls : KeepsHead(d)
  BY <1>1 DEF IInv, TypeOK, KeepsHead
<1>4. QED
  BY <1>1, <1>2, <1>3, EnvironmentStep

(* The connection drops: every open call fails and loses its buffer.       *)
LEMMA ConnectionLostStep ==
  ASSUME IInv, ConnectionLost
  PROVE  IInv'
<1>1. /\ call' = [c \in Calls |-> IF call[c] = "open" THEN "failed" ELSE call[c]]
      /\ queue' = [c \in Calls |-> IF call[c] = "open" THEN <<>> ELSE queue[c]]
      /\ UNCHANGED <<include_snapshot, client, owner, next_call, produced>>
  BY DEF ConnectionLost
<1>2. TypeOK'
  BY <1>1 DEF IInv, TypeOK, client, CallStates
<1>3. \A d \in Calls : KeepsHead(d)
  BY <1>1 DEF KeepsHead
<1>4. QED
  BY <1>1, <1>2, <1>3, EnvironmentStep

(* The finalizer cancels an unreferenced open call and drops its buffer.   *)
LEMMA FinalizeStep ==
  ASSUME IInv, NEW c \in Calls, Finalize(c)
  PROVE  IInv'
<1>1. /\ call' = [call EXCEPT ![c] = "cancelled"]
      /\ queue' = [queue EXCEPT ![c] = <<>>]
      /\ UNCHANGED <<include_snapshot, client, owner, next_call, produced>>
  BY DEF Finalize
<1>2. TypeOK'
  BY <1>1 DEF IInv, TypeOK, client, CallStates
<1>3. \A d \in Calls : KeepsHead(d)
  BY <1>1 DEF IInv, TypeOK, KeepsHead
<1>4. QED
  BY <1>1, <1>2, <1>3, EnvironmentStep


(* Every step of the single-task specification keeps the invariant.       *)
LEMMA IInvStep == IInv /\ [Next]_vars => IInv'
<1> SUFFICES ASSUME IInv, [Next]_vars PROVE IInv'
  OBVIOUS
<1>1. ASSUME NEW s \in ParamSubs, ParamAEnter(s) PROVE IInv'
  <2>1. s \in Subs /\ s \notin DeviceSubs /\ <<>> \in Seq(Events)
    BY EventStreamsAssumption DEF Subs
  <2>2. QED
    BY <1>1, <2>1, OpenScopeStep DEF ParamAEnter
<1>2. ASSUME NEW s \in DeviceSubs, DeviceAEnter(s) PROVE IInv'
  <2> DEFINE fm == IF include_snapshot[s] THEN <<"snapshot">> ELSE <<>>
  <2>1. <<"snapshot">> \in Seq(Events) /\ <<>> \in Seq(Events)
    BY DEF Events
  <2>2. s \in Subs /\ fm \in Seq(Events)
    BY <2>1 DEF Subs
  <2>3. include_snapshot[s] => fm = <<"snapshot">>
    OBVIOUS
  <2>4. QED
    BY <1>2, <2>2, <2>3, OpenScopeStep DEF DeviceAEnter
<1>3. ASSUME NEW s \in ParamSubs, NEW c \in Calls,
             ParamANextChange(s, c) \/ ParamANextCallbackRaises(s, c)
      PROVE  IInv'
  <2>1. s \in Subs /\ s \notin DeviceSubs
    BY EventStreamsAssumption DEF Subs
  <2>2. QED
    BY <1>3, <2>1, ResumeStep DEF ParamANextChange, ParamANextCallbackRaises
<1>4. ASSUME NEW s \in DeviceSubs, NEW c \in Calls, DeviceANextUpdate(s, c)
      PROVE  IInv'
  BY <1>4, ResumeStep DEF DeviceANextUpdate, Subs
<1>5. ASSUME NEW kind \in {ParamSubs, DeviceSubs}, NEW e \in Events,
             Broadcast(kind, e)
      PROVE  IInv'
  BY <1>5, BroadcastStep DEF Subs
<1>6. CASE UNCHANGED vars
  BY <1>6
  DEF vars, IInv, TypeOK, OwnIterator, AwaitsOwnIterator, ScopeHasIterator,
      SnapshotAtHead, SnapshotFirst
<1>7. QED
  BY <1>1, <1>2, <1>3, <1>4, <1>5, <1>6, AExitStep, ANextBeginStep,
     ANextEndStep, ServerEndStep, ConnectionLostStep, FinalizeStep
  DEF Next, ParamChanged, DeviceChanged, Events

(* The strengthened invariant holds in every reachable state.              *)
THEOREM IInvHolds == Spec => []IInv
<1>1. Init => IInv
  BY InitIInv
<1>2. IInv /\ [Next]_vars => IInv'
  BY IInvStep
<1>3. QED
  BY <1>1, <1>2, PTL DEF Spec

(* The variables of ParameterSubscription, DeviceStateStream and their    *)
(* calls keep their types, for any number of objects and calls.           *)
THEOREM TypeOKHolds == Spec => []TypeOK
  BY IInvHolds, PTL DEF IInv

(* Spec 4.5 and 8, for every number of objects, calls, events and every   *)
(* buffer size: while each object is used by one task, a                   *)
(* DeviceStateStream opened with include_snapshot returns the snapshot as  *)
(* its first update, before any delta (streaming.py 360-404).             *)
THEOREM SnapshotFirstHolds == Spec => []SnapshotFirst
  BY IInvHolds, PTL DEF IInv


-----------------------------------------------------------------------------
(* Refinement of the abstract Subscription.                                *)

absvars == <<in_scope, count, [s \in Subs |-> None]>>

(* The await that resumes is on the object's current iterator, so the      *)
(* object is inside its `async with` body when it counts an event.        *)
LEMMA ResumeInScope ==
  ASSUME IInv, NEW s \in Subs, NEW c \in Calls, c \in awaiting[s]
  PROVE  in_scope[s]
<1>1. c = iterator[s]
  BY DEF IInv, AwaitsOwnIterator
<1>2. iterator[s] # None
  BY <1>1, NoneFacts
<1>3. QED
  BY <1>2 DEF IInv, ScopeHasIterator

(* __aenter__ opens the abstract subscription, __aexit__ closes it, an     *)
(* event counted by __anext__ is a Yield without a limit, and every other *)
(* step leaves the open flag and the count alone.                          *)
LEMMA RefinementStep ==
  ASSUME IInv, [Next]_vars
  PROVE  [Abs!SNext]_absvars
<1> USE DEF IInv, TypeOK
<1>1. ASSUME NEW s \in Subs, NEW fm, OpenScope(s, fm) PROVE Abs!Open(s)
  BY <1>1 DEF OpenScope, Abs!Open
<1>2. ASSUME NEW s \in Subs, AExit(s) PROVE Abs!Close(s)
  BY <1>2 DEF AExit, Abs!Close
<1>3. ASSUME NEW s \in Subs, NEW c \in Calls, NEW r, Resume(s, c, r)
      PROVE  Abs!Yield(s)
  <2>1. in_scope[s]
    BY <1>3, ResumeInScope DEF Resume
  <2>2. QED
    BY <1>3, <2>1 DEF Resume, Abs!Yield
<1>4. ASSUME \/ \E s \in Subs : ANextBegin(s)
             \/ \E s \in Subs, c \in Calls : ANextEnd(s, c) \/ ANextError(s, c)
             \/ ParamChanged \/ DeviceChanged \/ ConnectionLost
             \/ \E c \in Calls : ServerEnd(c) \/ Finalize(c)
             \/ UNCHANGED vars
      PROVE  UNCHANGED absvars
  BY <1>4 DEF ANextBegin, ANextEnd, ANextError, ParamChanged, DeviceChanged,
              Broadcast, ConnectionLost, ServerEnd, Finalize, client, vars,
              absvars
<1>5. QED
  <2>1. ASSUME NEW s \in ParamSubs, ParamAEnter(s) PROVE [Abs!SNext]_absvars
    BY <2>1, <1>1 DEF ParamAEnter, Subs, Abs!SNext
  <2>2. ASSUME NEW s \in DeviceSubs, DeviceAEnter(s) PROVE [Abs!SNext]_absvars
    BY <2>2, <1>1 DEF DeviceAEnter, Subs, Abs!SNext
  <2>3. ASSUME NEW s \in ParamSubs, NEW c \in Calls,
               ParamANextChange(s, c) \/ ParamANextCallbackRaises(s, c)
        PROVE  [Abs!SNext]_absvars
    BY <2>3, <1>3 DEF ParamANextChange, ParamANextCallbackRaises, Subs,
                      Abs!SNext
  <2>4. ASSUME NEW s \in DeviceSubs, NEW c \in Calls, DeviceANextUpdate(s, c)
        PROVE  [Abs!SNext]_absvars
    BY <2>4, <1>3 DEF DeviceANextUpdate, Subs, Abs!SNext
  <2>5. ASSUME NEW s \in Subs, AExit(s) PROVE [Abs!SNext]_absvars
    BY <2>5, <1>2 DEF Abs!SNext
  <2>6. QED
    BY <2>1, <2>2, <2>3, <2>4, <2>5, <1>4 DEF Next

(* Spec 4.2 and 5, for every number of objects, calls and events: used    *)
(* one task per object, ParameterSubscription and DeviceStateStream are   *)
(* Subscriptions without a limit, counting events only inside the         *)
(* `async with` body and from zero on each __aenter__.                     *)
THEOREM Refinement == Spec => ImplementsSubscription
<1>1. Init => Abs!SInit
  BY DEF Init, Abs!SInit
<1>2. IInv /\ [Next]_vars => [Abs!SNext]_absvars
  BY RefinementStep
<1>3. QED
  BY <1>1, <1>2, IInvHolds, PTL
     DEF Spec, ImplementsSubscription, Abs!SSpec, Abs!svars, absvars

=============================================================================

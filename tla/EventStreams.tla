---------------------------- MODULE EventStreams ----------------------------
(***************************************************************************)
(* ParameterSubscription and DeviceStateStream                             *)
(* (clients/python/src/rust_daq/streaming.py, lines 228-404), with the     *)
(* StreamParameterChanges and StreamDeviceState calls they open.           *)
(*                                                                         *)
(* Both classes have FrameStream's lifecycle without a cap: __aenter__     *)
(* resets the count and opens a call, __anext__ checks _active and         *)
(* _iterator, suspends on the call and counts what it gets, and __aexit__ *)
(* only drops the iterator.  ParameterSubscription calls on_change after   *)
(* counting a change; DeviceStateStream asks the daemon for a snapshot as  *)
(* the first message when include_snapshot is set.                         *)
(*                                                                         *)
(* The filters (device_id, parameter_names, device_ids, max_rate_hz) are   *)
(* applied by the daemon and fixed per object; no property tells events    *)
(* apart by device or name, so an event is only its kind: a parameter      *)
(* "change", or a device-state "snapshot" or "delta".  The daemon, the     *)
(* transport and the async-generator finalizer are modelled from spec      *)
(* sections 4.2, 4.4, 4.5 and 5.                                           *)
(***************************************************************************)
EXTENDS Naturals, Sequences

CONSTANTS
  ParamSubs,   \* the ParameterSubscription objects
  DeviceSubs,  \* the DeviceStateStream objects
  None,        \* Python's None
  MaxCalls,    \* bound: calls issued (one per __aenter__)
  MaxEvents,   \* bound: parameter changes and device updates produced
  QueueCap     \* events a call buffers before the transport drops more

ASSUME EventStreamsAssumption ==
  /\ ParamSubs \cap DeviceSubs = {}
  /\ None \notin {"change", "snapshot", "delta"} /\ None \notin Nat
  /\ MaxCalls \in Nat /\ MaxEvents \in Nat /\ QueueCap \in Nat \ {0}

Subs == ParamSubs \cup DeviceSubs
Calls == 1..MaxCalls
Events == {"change", "snapshot", "delta"}
CallStates == {"unissued", "open", "ended", "failed", "cancelled"}

VARIABLES
  include_snapshot, \* DeviceStateStream._include_snapshot
  in_scope,         \* the object's `async with` body is running
  active,           \* _active
  iterator,         \* _iterator: a call, or None
  count,            \* _change_count / _update_count
  awaiting,         \* calls a task is suspended on inside s.__anext__
  first_returned,   \* history: the first event __anext__ returned in this scope
  call,             \* the state of each call
  queue,            \* events sent on a call and not yet read
  owner,            \* the object whose __aenter__ issued the call
  next_call,        \* calls issued so far
  produced          \* events the daemon has produced

vars == <<include_snapshot, in_scope, active, iterator, count, awaiting,
          first_returned, call, queue, owner, next_call, produced>>

client == <<in_scope, active, iterator, count, awaiting, first_returned>>

TypeOK ==
  /\ include_snapshot \in [DeviceSubs -> BOOLEAN]
  /\ in_scope \in [Subs -> BOOLEAN]
  /\ active \in [Subs -> BOOLEAN]
  /\ iterator \in [Subs -> Calls \cup {None}]
  /\ count \in [Subs -> Nat]
  /\ awaiting \in [Subs -> SUBSET Calls]
  /\ first_returned \in [Subs -> Events \cup {None}]
  /\ call \in [Calls -> CallStates]
  /\ queue \in [Calls -> Seq(Events)]
  /\ owner \in [Calls -> Subs \cup {None}]
  /\ next_call \in 0..MaxCalls
  /\ produced \in 0..MaxEvents

Referenced(c) == \E s \in Subs : iterator[s] = c \/ c \in awaiting[s]

Init ==
  /\ include_snapshot \in [DeviceSubs -> BOOLEAN]
  /\ in_scope = [s \in Subs |-> FALSE]
  /\ active = [s \in Subs |-> FALSE]
  /\ iterator = [s \in Subs |-> None]
  /\ count = [s \in Subs |-> 0]
  /\ awaiting = [s \in Subs |-> {}]
  /\ first_returned = [s \in Subs |-> None]
  /\ call = [c \in Calls |-> "unissued"]
  /\ queue = [c \in Calls |-> <<>>]
  /\ owner = [c \in Calls |-> None]
  /\ next_call = 0
  /\ produced = 0

-----------------------------------------------------------------------------
(* Client: the methods of the two classes.                                 *)

(* Variant of OpenScope that does not reset the count.                    *)
OpenScopeKeepsCount(s, firstMessages) ==
  /\ ~in_scope[s]
  /\ next_call < MaxCalls
  /\ LET c == next_call + 1 IN
       /\ iterator' = [iterator EXCEPT ![s] = c]
       /\ call' = [call EXCEPT ![c] = "open"]
       /\ queue' = [queue EXCEPT ![c] = firstMessages]
       /\ owner' = [owner EXCEPT ![c] = s]
       /\ next_call' = c
  /\ in_scope' = [in_scope EXCEPT ![s] = TRUE]
  /\ active' = [active EXCEPT ![s] = TRUE]
  /\ first_returned' = [first_returned EXCEPT ![s] = None]
  /\ UNCHANGED <<include_snapshot, count, awaiting, produced>>

(* Variant of OpenScope with an off-by-one in the call it opens.          *)
OpenScopeOffByOne(s, firstMessages) ==
  /\ ~in_scope[s]
  /\ next_call < MaxCalls
  /\ LET c == next_call IN
       /\ iterator' = [iterator EXCEPT ![s] = c]
       /\ call' = [call EXCEPT ![c] = "open"]
       /\ queue' = [queue EXCEPT ![c] = firstMessages]
       /\ owner' = [owner EXCEPT ![c] = s]
       /\ next_call' = next_call + 1
  /\ in_scope' = [in_scope EXCEPT ![s] = TRUE]
  /\ active' = [active EXCEPT ![s] = TRUE]
  /\ count' = [count EXCEPT ![s] = 0]
  /\ first_returned' = [first_returned EXCEPT ![s] = None]
  /\ UNCHANGED <<include_snapshot, awaiting, produced>>

(* __aenter__: activate, reset the count, open a new call whose first     *)
(* messages are the ones the daemon sends on opening.                      *)
OpenScope(s, firstMessages) ==
  /\ ~in_scope[s]
  /\ next_call < MaxCalls
  /\ LET c == next_call + 1 IN
       /\ iterator' = [iterator EXCEPT ![s] = c]
       /\ call' = [call EXCEPT ![c] = "open"]
       /\ queue' = [queue EXCEPT ![c] = firstMessages]
       /\ owner' = [owner EXCEPT ![c] = s]
       /\ next_call' = c
  /\ in_scope' = [in_scope EXCEPT ![s] = TRUE]
  /\ active' = [active EXCEPT ![s] = TRUE]
  /\ count' = [count EXCEPT ![s] = 0]
  /\ first_returned' = [first_returned EXCEPT ![s] = None]
  /\ UNCHANGED <<include_snapshot, awaiting, produced>>

(* ParameterSubscription.__aenter__ opens stream_parameter_changes.        *)
ParamAEnter(s) == OpenScope(s, <<>>)

(* DeviceStateStream.__aenter__ opens stream_device_state; with            *)
(* include_snapshot the daemon's first message is the snapshot.            *)
DeviceAEnter(s) ==
  OpenScope(s, IF include_snapshot[s] THEN <<"snapshot">> ELSE <<>>)

(* Variant of AExit that leaves a pending __anext__ waiting on the call.   *)
AExitKeepsAwait(s) ==
  /\ in_scope[s]
  /\ in_scope' = [in_scope EXCEPT ![s] = FALSE]
  /\ active' = [active EXCEPT ![s] = FALSE]
  /\ iterator' = [iterator EXCEPT ![s] = None]
  /\ UNCHANGED <<include_snapshot, count, awaiting, first_returned, call,
                 queue, owner, next_call, produced>>

(* __aexit__ by the task running the body; a pending await of that task   *)
(* is abandoned.  The call is not closed, only dropped.                    *)
AExit(s) ==
  /\ in_scope[s]
  /\ in_scope' = [in_scope EXCEPT ![s] = FALSE]
  /\ active' = [active EXCEPT ![s] = FALSE]
  /\ iterator' = [iterator EXCEPT ![s] = None]
  /\ awaiting' = [awaiting EXCEPT ![s] = @ \ {iterator[s]}]
  /\ UNCHANGED <<include_snapshot, count, first_returned, call, queue, owner,
                 next_call, produced>>

(* __aexit__ by another task while one is suspended in __anext__.          *)
AExitWhileAwaited(s) ==
  /\ in_scope[s]
  /\ iterator[s] \in awaiting[s]
  /\ in_scope' = [in_scope EXCEPT ![s] = FALSE]
  /\ active' = [active EXCEPT ![s] = FALSE]
  /\ iterator' = [iterator EXCEPT ![s] = None]
  /\ UNCHANGED <<include_snapshot, count, awaiting, first_returned, call,
                 queue, owner, next_call, produced>>

(* __anext__ up to its await, past the StopAsyncIteration guard.           *)
ANextBegin(s) ==
  /\ active[s]
  /\ iterator[s] # None
  /\ iterator[s] \notin awaiting[s]
  /\ awaiting' = [awaiting EXCEPT ![s] = @ \cup {iterator[s]}]
  /\ UNCHANGED <<include_snapshot, in_scope, active, iterator, count,
                 first_returned, call, queue, owner, next_call, produced>>

(* The await on call c returns an event, which is counted and, if         *)
(* `returned`, handed to the consumer; nothing is checked again.           *)
Resume(s, c, returned) ==
  /\ c \in awaiting[s]
  /\ queue[c] # <<>>
  /\ awaiting' = [awaiting EXCEPT ![s] = @ \ {c}]
  /\ queue' = [queue EXCEPT ![c] = Tail(@)]
  /\ count' = [count EXCEPT ![s] = @ + 1]
  /\ first_returned' =
       IF returned /\ first_returned[s] = None
         THEN [first_returned EXCEPT ![s] = Head(queue[c])]
         ELSE first_returned
  /\ UNCHANGED <<include_snapshot, in_scope, active, iterator, call, owner,
                 next_call, produced>>

(* ParameterSubscription: build the ParameterChange, count it, call        *)
(* on_change, return the change.                                           *)
ParamANextChange(s, c) == Resume(s, c, TRUE)

(* on_change raises: the change was counted and is not returned.           *)
ParamANextCallbackRaises(s, c) == Resume(s, c, FALSE)

(* DeviceStateStream: count the update and return it.                      *)
DeviceANextUpdate(s, c) == Resume(s, c, TRUE)

(* The await raises StopAsyncIteration: _active = False, re-raise.         *)
ANextEnd(s, c) ==
  /\ c \in awaiting[s]
  /\ queue[c] = <<>>
  /\ call[c] = "ended"
  /\ awaiting' = [awaiting EXCEPT ![s] = @ \ {c}]
  /\ active' = [active EXCEPT ![s] = FALSE]
  /\ UNCHANGED <<include_snapshot, in_scope, iterator, count, first_returned,
                 call, queue, owner, next_call, produced>>

(* The await raises the RPC error, which propagates; _active is kept.      *)
ANextError(s, c) ==
  /\ c \in awaiting[s]
  /\ call[c] = "failed"
  /\ awaiting' = [awaiting EXCEPT ![s] = @ \ {c}]
  /\ call' = [call EXCEPT ![c] = "ended"]
  /\ UNCHANGED <<include_snapshot, in_scope, active, iterator, count,
                 first_returned, queue, owner, next_call, produced>>

-----------------------------------------------------------------------------
(* Environment: the daemon, the transport and the finalizer.               *)

(* The daemon pushes event e to every open call opened by an object of     *)
(* `kind`, dropping it where a buffer is full.                              *)
Broadcast(kind, e) ==
  /\ produced < MaxEvents
  /\ queue' = [c \in Calls |->
                 IF call[c] = "open" /\ owner[c] \in kind /\ Len(queue[c]) < QueueCap
                   THEN Append(queue[c], e) ELSE queue[c]]
  /\ produced' = produced + 1
  /\ UNCHANGED <<include_snapshot, client, call, owner, next_call>>

(* A parameter changes: StreamParameterChanges calls receive it.           *)
ParamChanged == Broadcast(ParamSubs, "change")

(* A device's state changes: StreamDeviceState calls receive a delta.      *)
DeviceChanged == Broadcast(DeviceSubs, "delta")

ServerEnd(c) ==
  /\ call[c] = "open"
  /\ call' = [call EXCEPT ![c] = "ended"]
  /\ UNCHANGED <<include_snapshot, client, queue, owner, next_call, produced>>

ConnectionLost ==
  /\ \E c \in Calls : call[c] = "open"
  /\ call' = [c \in Calls |-> IF call[c] = "open" THEN "failed" ELSE call[c]]
  /\ queue' = [c \in Calls |-> IF call[c] = "open" THEN <<>> ELSE queue[c]]
  /\ UNCHANGED <<include_snapshot, client, owner, next_call, produced>>

Finalize(c) ==
  /\ call[c] = "open"
  /\ ~Referenced(c)
  /\ call' = [call EXCEPT ![c] = "cancelled"]
  /\ queue' = [queue EXCEPT ![c] = <<>>]
  /\ UNCHANGED <<include_snapshot, client, owner, next_call, produced>>

-----------------------------------------------------------------------------
(* One task per object.                                                    *)
Next ==
  \/ \E s \in ParamSubs :
       \/ ParamAEnter(s)
       \/ \E c \in Calls : ParamANextChange(s, c) \/ ParamANextCallbackRaises(s, c)
  \/ \E s \in DeviceSubs :
       \/ DeviceAEnter(s)
       \/ \E c \in Calls : DeviceANextUpdate(s, c)
  \/ \E s \in Subs :
       \/ AExit(s)
       \/ ANextBegin(s)
       \/ \E c \in Calls : ANextEnd(s, c) \/ ANextError(s, c)
  \/ ParamChanged \/ DeviceChanged \/ ConnectionLost
  \/ \E c \in Calls : ServerEnd(c) \/ Finalize(c)

(* Another task may close an object while one iterates it (spec 9).        *)
NextCrossTask ==
  \/ Next
  \/ \E s \in Subs : AExitWhileAwaited(s)

Fairness == \A c \in Calls : WF_vars(Finalize(c))

Spec == Init /\ [][Next]_vars /\ Fairness

SpecCrossTask == Init /\ [][NextCrossTask]_vars /\ Fairness

-----------------------------------------------------------------------------
(* Properties.                                                             *)

(* Spec 4.5 and 8: a DeviceStateStream opened with include_snapshot=True   *)
(* yields a snapshot-flagged event strictly before any incremental event:  *)
(* the first update __anext__ returns in a scope is the snapshot, whatever *)
(* was left pending, buffered or dropped from an earlier scope.            *)
SnapshotFirst ==
  \A s \in DeviceSubs :
    (in_scope[s] /\ include_snapshot[s]) => first_returned[s] \in {None, "snapshot"}

(* The two classes as Subscriptions without a limit: open while the       *)
(* `async with` body runs, counting what __anext__ receives.               *)
Abs == INSTANCE Subscription
         WITH sub_open <- in_scope, yielded <- count,
              limit <- [s \in Subs |-> None],
              Limits <- {None}, NoLimit <- None

(* Spec 4.2 and 5: every behaviour of the two classes is one of the        *)
(* abstract subscription: events are counted only while the scope is open, *)
(* and each opening starts a new sequence whose count restarts at zero.    *)
ImplementsSubscription == Abs!SSpec

=============================================================================

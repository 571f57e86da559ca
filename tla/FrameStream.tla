----------------------------- MODULE FrameStream -----------------------------
(***************************************************************************)
(* The client-side stream lifecycle of FrameStream                         *)
(* (clients/python/src/rust_daq/streaming.py), together with the           *)
(* StreamFrames calls it opens on the daemon.                              *)
(*                                                                         *)
(* A FrameStream object is entered with `async with` (__aenter__), which   *)
(* opens one server call through AsyncClient.stream_frames and keeps the   *)
(* call's iterator in _iterator.  A consumer task iterates the object with *)
(* __anext__, which checks _active, _iterator and the max_frames cap,      *)
(* suspends on the iterator, and on resumption counts and returns the      *)
(* frame.  __aexit__ only resets _active and drops the reference to the    *)
(* iterator: the call is released later, by asyncio's async-generator     *)
(* finalizer, once nothing references the iterator any more.               *)
(*                                                                         *)
(* The daemon side (the camera producing frames, a call ending, the        *)
(* connection failing) and the finalizer are modelled from the spec:       *)
(* AsyncClient and the daemon are not part of the sources.                 *)
(***************************************************************************)
EXTENDS Naturals, Sequences, FiniteSets

CONSTANTS
  Subs,             \* the FrameStream objects of the client program
  MaxFramesChoices, \* the values the program passes as max_frames
  None,             \* Python's None: no iterator, no frame cap
  MaxCalls,         \* bound: StreamFrames calls issued (one per __aenter__)
  MaxFrameNumber,   \* bound: frames the camera produces
  QueueCap          \* frames a call buffers before the transport drops more

ASSUME NoneAssumption == None \notin Nat
ASSUME MaxFramesAssumption == MaxFramesChoices \subseteq Nat \cup {None}
ASSUME BoundsAssumption ==
  /\ MaxCalls \in Nat
  /\ MaxFrameNumber \in Nat
  /\ QueueCap \in Nat \ {0}

Calls == 1..MaxCalls

(* The life of one StreamFrames call as the client's iterator sees it.     *)
(* "ended": the server closed it normally, or the generator has finished   *)
(* after raising an error; "failed": the connection broke and the error is *)
(* not yet raised; "cancelled": the client released it.                    *)
CallStates == {"unissued", "open", "ended", "failed", "cancelled"}

VARIABLES
  max_frames,   \* _max_frames of each object (its constructor argument)
  in_scope,     \* the object's `async with` body is running
  active,       \* _active
  iterator,     \* _iterator: the call the object iterates, or None
  frame_count,  \* _frame_count
  awaiting,     \* awaiting[s]: calls a task is suspended on inside s.__anext__
  call,         \* the state of each call
  queue,        \* frames sent on a call that the client has not read yet
  owner,        \* the object whose __aenter__ issued the call
  next_call,    \* the number of calls issued so far
  frame_number  \* the camera's next frame number

vars == <<max_frames, in_scope, active, iterator, frame_count, awaiting,
          call, queue, owner, next_call, frame_number>>

client == <<in_scope, active, iterator, frame_count, awaiting>>

TypeOK ==
  /\ max_frames \in [Subs -> MaxFramesChoices]
  /\ in_scope \in [Subs -> BOOLEAN]
  /\ active \in [Subs -> BOOLEAN]
  /\ iterator \in [Subs -> Calls \cup {None}]
  /\ frame_count \in [Subs -> Nat]
  /\ awaiting \in [Subs -> SUBSET Calls]
  /\ call \in [Calls -> CallStates]
  /\ queue \in [Calls -> Seq(Nat)]
  /\ owner \in [Calls -> Subs \cup {None}]
  /\ next_call \in 0..MaxCalls
  /\ frame_number \in 0..MaxFrameNumber

(* `if self._max_frames and ...`: Python truthiness, so None and 0 both    *)
(* mean "no cap".                                                          *)
Capped(s) == max_frames[s] \notin {None, 0}

(* Some object still holds the call's iterator: as its _iterator, or in a  *)
(* task suspended on it.                                                   *)
Referenced(c) == \E s \in Subs : iterator[s] = c \/ c \in awaiting[s]

Init ==
  /\ max_frames \in [Subs -> MaxFramesChoices]
  /\ in_scope = [s \in Subs |-> FALSE]
  /\ active = [s \in Subs |-> FALSE]
  /\ iterator = [s \in Subs |-> None]
  /\ frame_count = [s \in Subs |-> 0]
  /\ awaiting = [s \in Subs |-> {}]
  /\ call = [c \in Calls |-> "unissued"]
  /\ queue = [c \in Calls |-> <<>>]
  /\ owner = [c \in Calls |-> None]
  /\ next_call = 0
  /\ frame_number = 0

-----------------------------------------------------------------------------
(* Client: the FrameStream methods.                                        *)

(* Variant of AEnter with an off-by-one in the call it opens.             *)
AEnterOffByOne(s) ==
  /\ ~in_scope[s]
  /\ next_call < MaxCalls
  /\ LET c == next_call IN
       /\ iterator' = [iterator EXCEPT ![s] = c]
       /\ call' = [call EXCEPT ![c] = "open"]
       /\ owner' = [owner EXCEPT ![c] = s]
       /\ next_call' = next_call + 1
  /\ in_scope' = [in_scope EXCEPT ![s] = TRUE]
  /\ active' = [active EXCEPT ![s] = TRUE]
  /\ frame_count' = [frame_count EXCEPT ![s] = 0]
  /\ UNCHANGED <<max_frames, awaiting, queue, frame_number>>

(* Variant of AEnter that does not reset _frame_count.                     *)
AEnterKeepsCount(s) ==
  /\ ~in_scope[s]
  /\ next_call < MaxCalls
  /\ LET c == next_call + 1 IN
       /\ iterator' = [iterator EXCEPT ![s] = c]
       /\ call' = [call EXCEPT ![c] = "open"]
       /\ owner' = [owner EXCEPT ![c] = s]
       /\ next_call' = c
  /\ in_scope' = [in_scope EXCEPT ![s] = TRUE]
  /\ active' = [active EXCEPT ![s] = TRUE]
  /\ UNCHANGED <<max_frames, frame_count, awaiting, queue, frame_number>>

(* __aenter__: activate, reset the count, open a new call.                 *)
AEnter(s) ==
  /\ ~in_scope[s]
  /\ next_call < MaxCalls
  /\ LET c == next_call + 1 IN
       /\ iterator' = [iterator EXCEPT ![s] = c]
       /\ call' = [call EXCEPT ![c] = "open"]
       /\ owner' = [owner EXCEPT ![c] = s]
       /\ next_call' = c
  /\ in_scope' = [in_scope EXCEPT ![s] = TRUE]
  /\ active' = [active EXCEPT ![s] = TRUE]
  /\ frame_count' = [frame_count EXCEPT ![s] = 0]
  /\ UNCHANGED <<max_frames, awaiting, queue, frame_number>>

(* Variant of AExit that keeps the reference to the iterator.             *)
AExitKeepsIterator(s) ==
  /\ in_scope[s]
  /\ in_scope' = [in_scope EXCEPT ![s] = FALSE]
  /\ active' = [active EXCEPT ![s] = FALSE]
  /\ awaiting' = [awaiting EXCEPT ![s] = @ \ {iterator[s]}]
  /\ UNCHANGED <<max_frames, iterator, frame_count, call, queue, owner,
                 next_call, frame_number>>

(* Variant of AExit that leaves a pending __anext__ waiting on the call.   *)
AExitKeepsAwait(s) ==
  /\ in_scope[s]
  /\ in_scope' = [in_scope EXCEPT ![s] = FALSE]
  /\ active' = [active EXCEPT ![s] = FALSE]
  /\ iterator' = [iterator EXCEPT ![s] = None]
  /\ UNCHANGED <<max_frames, frame_count, awaiting, call, queue, owner,
                 next_call, frame_number>>

(* __aexit__, run by the task that runs the body: it leaves the body       *)
(* normally, or because it was cancelled while suspended in __anext__, in  *)
(* which case that await is abandoned.  The call is not closed; only the   *)
(* reference to it is dropped.                                             *)
AExit(s) ==
  /\ in_scope[s]
  /\ in_scope' = [in_scope EXCEPT ![s] = FALSE]
  /\ active' = [active EXCEPT ![s] = FALSE]
  /\ iterator' = [iterator EXCEPT ![s] = None]
  /\ awaiting' = [awaiting EXCEPT ![s] = @ \ {iterator[s]}]
  /\ UNCHANGED <<max_frames, frame_count, call, queue, owner, next_call,
                 frame_number>>

(* __aexit__ run while another task is suspended in __anext__ on the same *)
(* object: that task's await is left pending on the old iterator.         *)
AExitWhileAwaited(s) ==
  /\ in_scope[s]
  /\ iterator[s] \in awaiting[s]
  /\ in_scope' = [in_scope EXCEPT ![s] = FALSE]
  /\ active' = [active EXCEPT ![s] = FALSE]
  /\ iterator' = [iterator EXCEPT ![s] = None]
  /\ UNCHANGED <<max_frames, frame_count, awaiting, call, queue, owner,
                 next_call, frame_number>>

(* Variant of ANextBegin whose cap check is off by one (> for >=).        *)
ANextBeginCapOffByOne(s) ==
  /\ active[s]
  /\ iterator[s] # None
  /\ ~(Capped(s) /\ frame_count[s] > max_frames[s])
  /\ iterator[s] \notin awaiting[s]
  /\ awaiting' = [awaiting EXCEPT ![s] = @ \cup {iterator[s]}]
  /\ UNCHANGED <<max_frames, in_scope, active, iterator, frame_count, call,
                 queue, owner, next_call, frame_number>>

(* __anext__ up to its await: the two early StopAsyncIteration returns are *)
(* its guard (they change nothing), then the task suspends on the          *)
(* iterator.  An async generator admits one pending __anext__ at a time.   *)
ANextBegin(s) ==
  /\ active[s]
  /\ iterator[s] # None
  /\ ~(Capped(s) /\ frame_count[s] >= max_frames[s])
  /\ iterator[s] \notin awaiting[s]
  /\ awaiting' = [awaiting EXCEPT ![s] = @ \cup {iterator[s]}]
  /\ UNCHANGED <<max_frames, in_scope, active, iterator, frame_count, call,
                 queue, owner, next_call, frame_number>>

(* The await on call c returns a frame: the object's count is incremented  *)
(* and the frame returned, with no second look at _active or _iterator.    *)
ANextFrame(s, c) ==
  /\ c \in awaiting[s]
  /\ queue[c] # <<>>
  /\ awaiting' = [awaiting EXCEPT ![s] = @ \ {c}]
  /\ queue' = [queue EXCEPT ![c] = Tail(@)]
  /\ frame_count' = [frame_count EXCEPT ![s] = @ + 1]
  /\ UNCHANGED <<max_frames, in_scope, active, iterator, call, owner,
                 next_call, frame_number>>

(* The await on call c raises StopAsyncIteration: the object is marked     *)
(* inactive and the exception re-raised.                                   *)
ANextEnd(s, c) ==
  /\ c \in awaiting[s]
  /\ queue[c] = <<>>
  /\ call[c] = "ended"
  /\ awaiting' = [awaiting EXCEPT ![s] = @ \ {c}]
  /\ active' = [active EXCEPT ![s] = FALSE]
  /\ UNCHANGED <<max_frames, in_scope, iterator, frame_count, call, queue,
                 owner, next_call, frame_number>>

(* The await on call c raises the RPC error, which __anext__ does not      *)
(* catch: _active is left as it is.  The generator is finished afterwards. *)
ANextError(s, c) ==
  /\ c \in awaiting[s]
  /\ call[c] = "failed"
  /\ awaiting' = [awaiting EXCEPT ![s] = @ \ {c}]
  /\ call' = [call EXCEPT ![c] = "ended"]
  /\ UNCHANGED <<max_frames, in_scope, active, iterator, frame_count, queue,
                 owner, next_call, frame_number>>

-----------------------------------------------------------------------------
(* Environment: the daemon, the transport and the asyncio finalizer.       *)

(* The camera emits a frame; every open call receives it unless its        *)
(* buffer is full, in which case the frame is dropped for that call.       *)
Produce ==
  /\ frame_number < MaxFrameNumber
  /\ queue' = [c \in Calls |->
                 IF call[c] = "open" /\ Len(queue[c]) < QueueCap
                   THEN Append(queue[c], frame_number) ELSE queue[c]]
  /\ frame_number' = frame_number + 1
  /\ UNCHANGED <<max_frames, client, call, owner, next_call>>

(* The daemon ends call c normally; frames already sent are still read.    *)
ServerEnd(c) ==
  /\ call[c] = "open"
  /\ call' = [call EXCEPT ![c] = "ended"]
  /\ UNCHANGED <<max_frames, client, queue, owner, next_call, frame_number>>

(* The connection breaks: every open call fails and its buffer is lost.    *)
ConnectionLost ==
  /\ \E c \in Calls : call[c] = "open"
  /\ call' = [c \in Calls |-> IF call[c] = "open" THEN "failed" ELSE call[c]]
  /\ queue' = [c \in Calls |-> IF call[c] = "open" THEN <<>> ELSE queue[c]]
  /\ UNCHANGED <<max_frames, client, owner, next_call, frame_number>>

(* Once no object references a call's iterator, the async-generator       *)
(* finalizer closes it and the daemon releases the call.                   *)
Finalize(c) ==
  /\ call[c] = "open"
  /\ ~Referenced(c)
  /\ call' = [call EXCEPT ![c] = "cancelled"]
  /\ queue' = [queue EXCEPT ![c] = <<>>]
  /\ UNCHANGED <<max_frames, client, owner, next_call, frame_number>>

-----------------------------------------------------------------------------
(* One task owns each object: it enters it, iterates it and exits it.      *)
Next ==
  \/ \E s \in Subs :
       \/ AEnter(s)
       \/ AExit(s)
       \/ ANextBegin(s)
       \/ \E c \in Calls : ANextFrame(s, c) \/ ANextEnd(s, c) \/ ANextError(s, c)
  \/ Produce
  \/ \E c \in Calls : ServerEnd(c) \/ Finalize(c)
  \/ ConnectionLost

(* A second task may close an object while the first iterates it.          *)
NextCrossTask ==
  \/ Next
  \/ \E s \in Subs : AExitWhileAwaited(s)

(* The finalizer runs as soon as the last reference is dropped (CPython    *)
(* reference counting) and asyncio schedules the close on its loop.        *)
Fairness == \A c \in Calls : WF_vars(Finalize(c))

Spec == Init /\ [][Next]_vars /\ Fairness

SpecCrossTask == Init /\ [][NextCrossTask]_vars /\ Fairness

-----------------------------------------------------------------------------
(* Properties.                                                             *)

(* Spec 8: a FrameStream opened with max_frames = N yields no frame after  *)
(* the Nth.  The count __anext__ keeps never exceeds the cap it was given. *)
CapRespected ==
  \A s \in Subs : max_frames[s] \in Nat => frame_count[s] <= max_frames[s]

(* Spec 4.3 and 9: when the max_frames cap is reached the client must      *)
(* close the call, or the daemon keeps streaming into it.                  *)
CapReleasesCall ==
  \A s \in Subs :
    (in_scope[s] /\ Capped(s) /\ frame_count[s] >= max_frames[s])
      => call[iterator[s]] # "open"

(* Spec 5: a subscription closed once never yields again.  A frame is     *)
(* returned by __anext__ only while the object is in its `async with`     *)
(* body, and only from the call that body opened.                         *)
YieldInScope ==
  \A s \in Subs :
    frame_count'[s] = frame_count[s] + 1 =>
      /\ in_scope[s]
      /\ awaiting[s] \ awaiting'[s] = {iterator[s]}

NoYieldAfterClose == [][YieldInScope]_vars

(* Spec 4.2: a subscription's sequence ends only when the server closes   *)
(* it or the client cancels it.  __anext__ sets _active = False when an    *)
(* await raises StopAsyncIteration (line 197); that must only happen while *)
(* the object is in scope if the call it iterates has really ended, never  *)
(* because of an await left over from an earlier scope.                    *)
InactiveOnlyWhenEnded ==
  \A s \in Subs : (in_scope[s] /\ ~active[s]) => call[iterator[s]] = "ended"

(* The scope that opened call c is over.                                   *)
ScopeExited(c) ==
  /\ owner[c] # None
  /\ ~(in_scope[owner[c]] /\ iterator[owner[c]] = c)

(* Spec 5: closing a subscription releases its resources.  Once the       *)
(* `async with` body that opened a call has exited, the call is           *)
(* eventually no longer open on the daemon, although __aexit__ only drops *)
(* the reference and leaves the close to the finalizer.                   *)
CallReleasedAfterExit ==
  \A c \in Calls : ScopeExited(c) ~> call[c] # "open"

(* FrameStream as a Subscription: the object is open while its `async    *)
(* with` body runs, its events are the frames __anext__ counts, and its    *)
(* limit is max_frames.                                                    *)
Abs == INSTANCE Subscription
         WITH sub_open <- in_scope, yielded <- frame_count, limit <- max_frames,
              Limits <- MaxFramesChoices, NoLimit <- None

(* Spec 4.3 and 5 together: every behaviour of FrameStream is one of the   *)
(* abstract subscription: frames are returned only while open, the count   *)
(* restarts at each opening and stays within max_frames.                   *)
ImplementsSubscription == Abs!SSpec

(* The strengthening behind CapRespected, for the single-task usage of     *)
(* Spec: an object out of its scope holds no iterator, and a task is      *)
(* suspended in __anext__ only on the object's current call, having passed *)
(* the cap check with room for the frame it is waiting for.                *)
CapInv ==
  \A s \in Subs :
    /\ ~in_scope[s] => iterator[s] = None
    /\ \A c \in awaiting[s] :
         /\ c = iterator[s]
         /\ Capped(s) => frame_count[s] < max_frames[s]
    /\ Capped(s) => frame_count[s] <= max_frames[s]

=============================================================================

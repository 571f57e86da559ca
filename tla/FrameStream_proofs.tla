-------------------------- MODULE FrameStream_proofs --------------------------
(***************************************************************************)
(* Proofs about FrameStream, for every value of its constants.             *)
(***************************************************************************)
EXTENDS FrameStream, TLAPS

(* Next, split into its actions.                                          *)
LEMMA NextSplit ==
  ASSUME [Next]_vars
  PROVE  \/ \E s \in Subs : AEnter(s)
         \/ \E s \in Subs : AExit(s)
         \/ \E s \in Subs : ANextBegin(s)
         \/ \E s \in Subs, c \in Calls : ANextFrame(s, c)
         \/ \E s \in Subs, c \in Calls : ANextEnd(s, c)
         \/ \E s \in Subs, c \in Calls : ANextError(s, c)
         \/ Produce
         \/ \E c \in Calls : ServerEnd(c)
         \/ \E c \in Calls : Finalize(c)
         \/ ConnectionLost
         \/ UNCHANGED vars
  BY DEF Next

(* A cap that Capped recognises is a positive number.                     *)
LEMMA CappedNat ==
  ASSUME NEW s \in Subs, max_frames \in [Subs -> MaxFramesChoices], Capped(s)
  PROVE  max_frames[s] \in Nat \ {0}
  <1>1. max_frames[s] \in Nat \cup {None}
    BY MaxFramesAssumption
  <1>2. max_frames[s] # None /\ max_frames[s] # 0
    BY DEF Capped
  <1>3. QED
    BY <1>1, <1>2

-----------------------------------------------------------------------------
(* Type correctness: every step keeps each variable in its type.           *)

(* Every variable keeps its type in every state of Spec, whichever task   *)
(* closes the object: also under the cross-task usage.                     *)
LEMMA TypeStep ==
  ASSUME TypeOK, [NextCrossTask]_vars
  PROVE  TypeOK'
  <1> USE BoundsAssumption DEF TypeOK
  <1>1. ASSUME NEW s \in Subs, AEnter(s) PROVE TypeOK'
    <2>1. next_call + 1 \in Calls /\ next_call + 1 \in 0..MaxCalls
      BY <1>1 DEF AEnter, Calls
    <2>2. iterator' \in [Subs -> Calls \cup {None}]
      BY <1>1, <2>1 DEF AEnter
    <2>3. call' \in [Calls -> CallStates] /\ owner' \in [Calls -> Subs \cup {None}]
      BY <1>1, <2>1 DEF AEnter, CallStates
    <2>4. next_call' \in 0..MaxCalls
      BY <1>1, <2>1 DEF AEnter
    <2>5. in_scope' \in [Subs -> BOOLEAN] /\ active' \in [Subs -> BOOLEAN]
          /\ frame_count' \in [Subs -> Nat]
      BY <1>1 DEF AEnter
    <2>6. QED
      BY <1>1, <2>2, <2>3, <2>4, <2>5 DEF AEnter
  <1>2. ASSUME NEW s \in Subs, AExit(s) PROVE TypeOK'
    BY <1>2 DEF AExit
  <1>3. ASSUME NEW s \in Subs, AExitWhileAwaited(s) PROVE TypeOK'
    BY <1>3 DEF AExitWhileAwaited
  <1>4. ASSUME NEW s \in Subs, ANextBegin(s) PROVE TypeOK'
    BY <1>4 DEF ANextBegin
  <1>5. ASSUME NEW s \in Subs, NEW c \in Calls, ANextFrame(s, c) PROVE TypeOK'
    BY <1>5 DEF ANextFrame
  <1>6. ASSUME NEW s \in Subs, NEW c \in Calls, ANextEnd(s, c) PROVE TypeOK'
    BY <1>6 DEF ANextEnd
  <1>7. ASSUME NEW s \in Subs, NEW c \in Calls, ANextError(s, c) PROVE TypeOK'
    BY <1>7 DEF ANextError, CallStates
  <1>8. CASE Produce
    BY <1>8 DEF Produce, client
  <1>9. ASSUME NEW c \in Calls, ServerEnd(c) PROVE TypeOK'
    BY <1>9 DEF ServerEnd, client, CallStates
  <1>10. ASSUME NEW c \in Calls, Finalize(c) PROVE TypeOK'
    BY <1>10 DEF Finalize, client, CallStates
  <1>11. CASE ConnectionLost
    BY <1>11 DEF ConnectionLost, client, CallStates
  <1>12. CASE UNCHANGED vars
    BY <1>12 DEF vars
  <1>13. QED
    BY <1>1, <1>2, <1>3, <1>4, <1>5, <1>6, <1>7, <1>8, <1>9, <1>10, <1>11,
       <1>12 DEF NextCrossTask, Next

(* TypeOK holds in every reachable state of Spec.                          *)
THEOREM TypeCorrect == Spec => []TypeOK
  <1>1. Init => TypeOK
    BY BoundsAssumption DEF Init, TypeOK, Calls, CallStates
  <1>2. TypeOK /\ [Next]_vars => TypeOK'
    BY TypeStep DEF NextCrossTask
  <1>3. QED
    BY <1>1, <1>2, PTL DEF Spec

-----------------------------------------------------------------------------
(* The max_frames cap.                                                     *)

IInv == TypeOK /\ CapInv

(* A step of the single-task usage keeps the cap invariant: the cap check *)
(* of __anext__ and the increment after its await belong to one call of   *)
(* __anext__ on the object's current iterator.                             *)
LEMMA CapStep ==
  ASSUME IInv, [Next]_vars
  PROVE  CapInv'
  <1> USE NoneAssumption, MaxFramesAssumption DEF IInv, TypeOK
  <1>1. ASSUME NEW s \in Subs, AEnter(s) PROVE CapInv'
    <2> SUFFICES ASSUME NEW t \in Subs PROVE CapInv!(t)'
      BY DEF CapInv
    <2>1. CASE t = s
      <3>1. awaiting[s] = {}
        BY <1>1, NoneAssumption DEF AEnter, CapInv, Calls
      <3>2. Capped(s) => max_frames[s] \in Nat
        BY CappedNat
      <3>3. QED
        BY <1>1, <2>1, <3>1, <3>2 DEF AEnter, Capped
    <2>2. CASE t # s
      BY <1>1, <2>2 DEF AEnter, CapInv, Capped
    <2>3. QED
      BY <2>1, <2>2
  <1>2. ASSUME NEW s \in Subs, AExit(s) PROVE CapInv'
    BY <1>2 DEF AExit, CapInv, Capped
  <1>3. ASSUME NEW s \in Subs, ANextBegin(s) PROVE CapInv'
    <2> SUFFICES ASSUME NEW t \in Subs PROVE CapInv!(t)'
      BY DEF CapInv
    <2>1. CASE t = s
      <3>1. ASSUME Capped(s) PROVE frame_count[s] < max_frames[s]
        <4>1. max_frames[s] \in Nat
          BY <3>1, CappedNat
        <4>2. ~(frame_count[s] >= max_frames[s])
          BY <1>3, <3>1 DEF ANextBegin
        <4>3. QED
          BY <4>1, <4>2
      <3>2. QED
        BY <1>3, <2>1, <3>1 DEF ANextBegin, CapInv, Capped
    <2>2. CASE t # s
      BY <1>3, <2>2 DEF ANextBegin, CapInv, Capped
    <2>3. QED
      BY <2>1, <2>2
  <1>4. ASSUME NEW s \in Subs, NEW c \in Calls, ANextFrame(s, c)
        PROVE CapInv'
    <2> SUFFICES ASSUME NEW t \in Subs PROVE CapInv!(t)'
      BY DEF CapInv
    <2>1. CASE t = s
      <3>1. c = iterator[s] /\ (Capped(s) => frame_count[s] < max_frames[s])
        BY <1>4 DEF ANextFrame, CapInv
      <3>2. awaiting'[s] = {}
        <4>1. \A d \in awaiting[s] : d = c
          BY <3>1 DEF CapInv
        <4>2. awaiting'[s] = awaiting[s] \ {c}
          BY <1>4 DEF ANextFrame
        <4>3. QED
          BY <4>1, <4>2
      <3>3. ASSUME Capped(s) PROVE frame_count'[s] <= max_frames[s]
        <4>1. max_frames[s] \in Nat
          BY <3>3, CappedNat
        <4>2. frame_count'[s] = frame_count[s] + 1
          BY <1>4 DEF ANextFrame
        <4>3. QED
          BY <3>1, <3>3, <4>1, <4>2
      <3>4. QED
        BY <1>4, <2>1, <3>2, <3>3 DEF ANextFrame, CapInv, Capped
    <2>2. CASE t # s
      BY <1>4, <2>2 DEF ANextFrame, CapInv, Capped
    <2>3. QED
      BY <2>1, <2>2
  <1>5. ASSUME NEW s \in Subs, NEW c \in Calls, ANextEnd(s, c) PROVE CapInv'
    BY <1>5 DEF ANextEnd, CapInv, Capped
  <1>6. ASSUME NEW s \in Subs, NEW c \in Calls, ANextError(s, c)
        PROVE CapInv'
    BY <1>6 DEF ANextError, CapInv, Capped
  <1>7. CASE Produce
    BY <1>7 DEF Produce, client, CapInv, Capped
  <1>8. ASSUME NEW c \in Calls, ServerEnd(c) PROVE CapInv'
    BY <1>8 DEF ServerEnd, client, CapInv, Capped
  <1>9. ASSUME NEW c \in Calls, Finalize(c) PROVE CapInv'
    BY <1>9 DEF Finalize, client, CapInv, Capped
  <1>10. CASE ConnectionLost
    BY <1>10 DEF ConnectionLost, client, CapInv, Capped
  <1>11. CASE UNCHANGED vars
    BY <1>11 DEF vars, CapInv, Capped
  <1>12. QED
    BY <1>1, <1>2, <1>3, <1>4, <1>5, <1>6, <1>7, <1>8, <1>9, <1>10, <1>11,
       NextSplit

(* IInv holds in every reachable state of Spec, whatever the caps.        *)
LEMMA IInvariant == Spec => []IInv
  <1>1. Init => IInv
    <2> SUFFICES ASSUME Init PROVE IInv
      OBVIOUS
    <2>1. TypeOK
      BY BoundsAssumption DEF Init, TypeOK, Calls, CallStates
    <2>2. ASSUME NEW s \in Subs, Capped(s) PROVE 0 <= max_frames[s]
      BY <2>2, CappedNat DEF Init
    <2>3. QED
      BY <2>1, <2>2 DEF Init, IInv, CapInv
  <1>2. IInv /\ [Next]_vars => IInv'
    BY CapStep, TypeStep DEF IInv, NextCrossTask
  <1>3. QED
    BY <1>1, <1>2, PTL DEF Spec

(* Under the single-task usage no object ever counts more frames than a   *)
(* cap it was given, for every cap other than 0 (which the code treats as *)
(* "no cap", see the FrameStreamZeroCap run).                              *)
THEOREM CapRespectedHolds ==
  ASSUME 0 \notin MaxFramesChoices
  PROVE  Spec => []CapRespected
  <1>1. Spec => []IInv
    BY IInvariant
  <1>2. IInv => CapRespected
    <2> SUFFICES ASSUME IInv, NEW s \in Subs, max_frames[s] \in Nat
                 PROVE  frame_count[s] <= max_frames[s]
      BY DEF CapRespected
    <2>1. max_frames[s] \in MaxFramesChoices
      BY DEF IInv, TypeOK
    <2>2. Capped(s)
      BY <2>1, NoneAssumption DEF Capped
    <2>3. QED
      BY <2>2 DEF IInv, CapInv
  <1>3. QED
    BY <1>1, <1>2, PTL

-----------------------------------------------------------------------------
(* A frame is returned only inside the scope that opened its call.         *)

LEMMA YieldStep ==
  ASSUME IInv, [Next]_vars
  PROVE  YieldInScope
  <1> SUFFICES ASSUME NEW s \in Subs, frame_count'[s] = frame_count[s] + 1
               PROVE  in_scope[s] /\ awaiting[s] \ awaiting'[s] = {iterator[s]}
    BY DEF YieldInScope
  <1> USE DEF IInv, TypeOK
  <1>1. PICK t \in Subs, c \in Calls : ANextFrame(t, c) /\ t = s
    <2>1. ASSUME NEW t \in Subs, AEnter(t) PROVE FALSE
      BY <2>1 DEF AEnter
    <2>2. ASSUME NEW t \in Subs, NEW c \in Calls, ANextFrame(t, c), t # s
          PROVE FALSE
      BY <2>2 DEF ANextFrame
    <2>3. ASSUME \/ \E t \in Subs : AExit(t) \/ ANextBegin(t)
                 \/ \E t \in Subs, c \in Calls : ANextEnd(t, c) \/ ANextError(t, c)
                 \/ Produce \/ ConnectionLost
                 \/ \E c \in Calls : ServerEnd(c) \/ Finalize(c)
                 \/ UNCHANGED vars
          PROVE FALSE
      BY <2>3 DEF AExit, ANextBegin, ANextEnd, ANextError, Produce,
                  ConnectionLost, ServerEnd, Finalize, client, vars
    <2>4. QED
      BY <2>1, <2>2, <2>3, NextSplit
  <1>2. c = iterator[s]
    BY <1>1 DEF ANextFrame, CapInv
  <1>3. in_scope[s]
    BY <1>1, <1>2, NoneAssumption DEF ANextFrame, CapInv, Calls
  <1>4. awaiting[s] \ awaiting'[s] = {c}
    BY <1>1 DEF ANextFrame
  <1>5. QED
    BY <1>2, <1>3, <1>4

(* Under the single-task usage, a frame is returned by __anext__ only     *)
(* while the object is in the scope that opened the frame's call.          *)
THEOREM NoYieldAfterCloseHolds == Spec => NoYieldAfterClose
  <1>1. IInv /\ [Next]_vars => [YieldInScope]_vars
    BY YieldStep
  <1>2. QED
    BY <1>1, IInvariant, PTL DEF Spec, NoYieldAfterClose

-----------------------------------------------------------------------------
(* FrameStream implements the abstract Subscription.                       *)

(* Under IInv a task suspended in __anext__ waits on the object's current  *)
(* call, inside the object's scope.                                        *)
LEMMA AwaitingCurrent ==
  ASSUME IInv, NEW s \in Subs, NEW c \in awaiting[s]
  PROVE  c = iterator[s] /\ in_scope[s]
  <1>1. c = iterator[s]
    BY DEF IInv, CapInv
  <1>2. c \in Calls
    BY DEF IInv, TypeOK
  <1>3. in_scope[s]
    BY <1>1, <1>2, NoneAssumption DEF IInv, CapInv, Calls
  <1>4. QED
    BY <1>1, <1>3

(* The abstract variables, under the refinement mapping.                   *)
absvars == <<in_scope, frame_count, max_frames>>

(* Each step of the single-task usage is a step of the abstract            *)
(* subscription or leaves its image unchanged.                             *)
LEMMA RefinementStep ==
  ASSUME IInv, [Next]_vars, 0 \notin MaxFramesChoices
  PROVE  [Abs!SNext]_absvars
  <1> USE DEF IInv, TypeOK
  <1>1. ASSUME NEW s \in Subs, AEnter(s) PROVE Abs!Open(s)
    BY <1>1 DEF AEnter, Abs!Open
  <1>2. ASSUME NEW s \in Subs, AExit(s) PROVE Abs!Close(s)
    BY <1>2 DEF AExit, Abs!Close
  <1>3. ASSUME NEW s \in Subs, NEW c \in Calls, ANextFrame(s, c)
        PROVE  Abs!Yield(s)
    <2>1. in_scope[s] /\ c = iterator[s]
      BY <1>3, AwaitingCurrent DEF ANextFrame
    <2>2. max_frames[s] = None \/ frame_count[s] < max_frames[s]
      <3>1. CASE max_frames[s] = None
        BY <3>1
      <3>2. CASE max_frames[s] # None
        <4>1. Capped(s)
          BY <3>2 DEF Capped
        <4>2. QED
          BY <1>3, <2>1, <4>1 DEF ANextFrame, CapInv
      <3>3. QED
        BY <3>1, <3>2
    <2>3. QED
      BY <1>3, <2>1, <2>2 DEF ANextFrame, Abs!Yield
  <1>4. ASSUME \/ \E s \in Subs : ANextBegin(s)
               \/ \E s \in Subs, c \in Calls : ANextEnd(s, c) \/ ANextError(s, c)
               \/ Produce \/ ConnectionLost
               \/ \E c \in Calls : ServerEnd(c) \/ Finalize(c)
               \/ UNCHANGED vars
        PROVE  UNCHANGED absvars
    BY <1>4 DEF ANextBegin, ANextEnd, ANextError, Produce, ConnectionLost,
                ServerEnd, Finalize, client, vars, absvars
  <1>5. QED
    BY <1>1, <1>2, <1>3, <1>4, NextSplit DEF Abs!SNext, absvars

(* With every cap other than 0, each behaviour of the single-task usage is *)
(* a behaviour of the abstract Subscription under the mapping open =      *)
(* in_scope, yielded = _frame_count, limit = _max_frames.                  *)
THEOREM Refinement ==
  ASSUME 0 \notin MaxFramesChoices
  PROVE  Spec => ImplementsSubscription
  <1>1. Init => Abs!SInit
    BY DEF Init, Abs!SInit
  <1>2. IInv /\ [Next]_vars => [Abs!SNext]_absvars
    BY RefinementStep
  <1>3. QED
    BY <1>1, <1>2, IInvariant, PTL
       DEF Spec, ImplementsSubscription, Abs!SSpec, Abs!svars, absvars

-----------------------------------------------------------------------------
(* A scope's iteration stops only when its own call has ended.             *)

(* The strengthening: calls above next_call have not been issued, and an  *)
(* object in its body holds a call that its __aenter__ has issued.         *)
EndInv ==
  /\ InactiveOnlyWhenEnded
  /\ \A c \in Calls : c > next_call => call[c] = "unissued"
  /\ \A t \in Subs : in_scope[t] => iterator[t] \in 1..next_call

(* Under the single-task usage, _active is cleared inside a scope only by  *)
(* the StopAsyncIteration of the scope's own call (line 197), and a call   *)
(* that has ended is never reopened, failed or cancelled again.            *)
LEMMA EndStep ==
  ASSUME IInv, EndInv, [Next]_vars
  PROVE  EndInv'
  <1> USE BoundsAssumption DEF IInv, TypeOK, EndInv, InactiveOnlyWhenEnded, Calls
  <1>1. ASSUME NEW s \in Subs, AEnter(s) PROVE EndInv'
    <2>1. \A t \in Subs : in_scope[t] => iterator[t] # next_call + 1
      BY DEF AEnter
    <2>2. QED
      BY <1>1, <2>1 DEF AEnter
  <1>2. ASSUME NEW s \in Subs, AExit(s) PROVE EndInv'
    BY <1>2 DEF AExit
  <1>3. ASSUME NEW s \in Subs, ANextBegin(s) PROVE EndInv'
    BY <1>3 DEF ANextBegin
  <1>4. ASSUME NEW s \in Subs, NEW c \in Calls, ANextFrame(s, c) PROVE EndInv'
    BY <1>4 DEF ANextFrame
  <1>5. ASSUME NEW s \in Subs, NEW c \in Calls, ANextEnd(s, c) PROVE EndInv'
    <2>1. c = iterator[s]
      BY <1>5 DEF ANextEnd, CapInv
    <2>2. QED
      BY <1>5, <2>1 DEF ANextEnd
  <1>6. ASSUME NEW s \in Subs, NEW c \in Calls, ANextError(s, c) PROVE EndInv'
    BY <1>6 DEF ANextError
  <1>7. CASE Produce
    BY <1>7 DEF Produce, client
  <1>8. ASSUME NEW c \in Calls, ServerEnd(c) PROVE EndInv'
    BY <1>8 DEF ServerEnd, client
  <1>9. ASSUME NEW c \in Calls, Finalize(c) PROVE EndInv'
    <2>1. \A t \in Subs : in_scope[t] => iterator[t] # c
      BY <1>9 DEF Finalize, Referenced
    <2>2. QED
      BY <1>9, <2>1 DEF Finalize, client
  <1>10. CASE ConnectionLost
    BY <1>10 DEF ConnectionLost, client
  <1>11. CASE UNCHANGED vars
    BY <1>11 DEF vars
  <1>12. QED
    BY <1>1, <1>2, <1>3, <1>4, <1>5, <1>6, <1>7, <1>8, <1>9, <1>10, <1>11,
       NextSplit

(* Under the single-task usage an object in its `async with` body stops    *)
(* iterating (is_active is False) only after the call it opened has ended; *)
(* the FrameStreamStaleEnd run shows that a second task breaks this.       *)
THEOREM InactiveOnlyWhenEndedHolds == Spec => []InactiveOnlyWhenEnded
  <1>1. Init => EndInv
    BY DEF Init, EndInv, InactiveOnlyWhenEnded
  <1>2. IInv /\ EndInv /\ [Next]_vars => EndInv'
    BY EndStep
  <1>3. QED
    BY <1>1, <1>2, IInvariant, PTL DEF Spec, EndInv

=============================================================================

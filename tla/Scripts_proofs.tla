---------------------------- MODULE Scripts_proofs ----------------------------
(***************************************************************************)
(* Proofs about the example programs and notebook helpers, for every      *)
(* value of their arguments: each program's properties hold in every      *)
(* state of the harness MC_Scripts, whichever program it runs.  Each      *)
(* property is implied by an inductive invariant over the variables of    *)
(* its program, which the steps of the other programs leave alone.        *)
(***************************************************************************)
EXTENDS MC_Scripts, SequenceTheorems, TLAPS

-----------------------------------------------------------------------------
(* stream_status.py and stream_measurements.py over DaqClient.             *)

(* The status program only ever reads status messages, the measurement    *)
(* program only payloads; the last one displayed came from its own call.  *)
FeedInv ==
  /\ tf_pending \in Seq(TF!Msgs)
  /\ which = "status" => tf_pending \in Seq({TF!StatusMsg})
                         /\ tf_last \in {None, TF!StatusMsg}
  /\ which = "measurements" => tf_pending \in Seq(TF!Payloads)
  /\ DisplayMatchesPayload

(* A step of the harness is a step of one of the two telemetry programs, *)
(* or leaves DaqClient's variables alone; no step changes the program.     *)
LEMMA FeedSplit ==
  ASSUME [Next]_vars
  PROVE  /\ which' = which
         /\ \/ which = "status" /\ TF!StatusNext
            \/ which = "measurements" /\ TF!MeasurementNext
            \/ UNCHANGED tf
  BY DEF Next, vars, tf

(* The display of a payload's dict is the branch of its kind: None is    *)
(* neither a scalar nor an image, so 0.0 and b'' are displayed as what    *)
(* they are.                                                               *)
LEMMA DisplayOfPayload ==
  ASSUME NEW m \in TF!Payloads
  PROVE  TF!DisplayMeasurement(TF!ConvertMeasurement(m))
           = [scalar |-> "value", image |-> "image", none |-> "nodata"][m.kind]
<1>1. None \notin {0, 1}
  BY ScriptsAssumption
<1>2. m.kind \in {"scalar", "image", "none"} /\ m.v \in {0, 1}
  BY DEF TF!Payloads
<1>3. QED
  BY <1>1, <1>2 DEF TF!DisplayMeasurement, TF!ConvertMeasurement

(* None and the status message are not payloads.                           *)
LEMMA NotPayloads == None \notin TF!Payloads /\ TF!StatusMsg \notin TF!Payloads
  BY NoneAssumption DEF TF!Msgs, TF!Payloads, TF!StatusMsg

(* Every item either program displays is converted from the message it    *)
(* read, and a measurement is displayed by its payload's kind.             *)
LEMMA FeedStep == FeedInv /\ [Next]_vars => FeedInv'
<1> SUFFICES ASSUME FeedInv, [Next]_vars PROVE FeedInv'
  OBVIOUS
<1> USE DEF FeedInv, DisplayMatchesPayload, TF!DisplayMatchesPayload
<1>1. which' = which
  BY FeedSplit
<1>2. CASE UNCHANGED tf
  BY <1>1, <1>2 DEF tf
<1>3. ASSUME NEW M \in {{TF!StatusMsg}, TF!Payloads},
             which = "status" => M = {TF!StatusMsg},
             which = "measurements" => M = TF!Payloads,
             TF!Server(M)
      PROVE  FeedInv'
  <2>1. M \subseteq TF!Msgs
    BY DEF TF!Msgs
  <2>2. CASE \E m \in M : TF!ServerSend(m)
    BY <1>1, <1>3, <2>1, <2>2 DEF TF!ServerSend
  <2>3. CASE TF!ServerEnd \/ TF!ServerFail
    BY <1>1, <2>3 DEF TF!ServerEnd, TF!ServerFail
  <2>4. QED
    BY <1>3, <2>2, <2>3 DEF TF!Server
<1>4. CASE TF!Main
  BY <1>1, <1>4
  DEF TF!Main, TF!GenStop, TF!GenCatchRpcError, TF!Interrupt, TF!CloseClient
<1>5. CASE which = "status" /\ TF!YieldStatus
  <2>1. Head(tf_pending) = TF!StatusMsg
    BY <1>5 DEF TF!YieldStatus
  <2>2. QED
    BY <1>1, <1>5, <2>1, NotPayloads DEF TF!YieldStatus
<1>6. CASE which = "measurements" /\ TF!YieldMeasurement
  <2>1. Head(tf_pending) \in TF!Payloads
    BY <1>6 DEF TF!YieldMeasurement
  <2>2. QED
    BY <1>1, <1>6, <2>1, DisplayOfPayload DEF TF!YieldMeasurement
<1>7. QED
  <2>1. CASE which = "status" /\ TF!StatusNext
    BY <2>1, <1>3, <1>4, <1>5 DEF TF!StatusNext
  <2>2. CASE which = "measurements" /\ TF!MeasurementNext
    BY <2>2, <1>3, <1>4, <1>6 DEF TF!MeasurementNext
  <2>3. QED
    BY <2>1, <2>2, <1>2, FeedSplit

(* Spec 4.2 and 9, for every number of messages: stream_measurements.py   *)
(* displays each item by its payload's kind, a scalar 0.0 as a value and  *)
(* an empty image as an image (daq_client.py 177-191,                      *)
(* stream_measurements.py 41-52).                                          *)
THEOREM DisplayMatchesPayloadHolds == Spec => []DisplayMatchesPayload
<1>1. Init => FeedInv
  BY NotPayloads
  DEF Init, TF!Init, FeedInv, DisplayMatchesPayload, TF!DisplayMatchesPayload
<1>2. QED
  BY <1>1, FeedStep, PTL DEF Spec, FeedInv

-----------------------------------------------------------------------------
(* continuous_monitor.py.                                                  *)

(* The sequence w is made of the last Len(w) elements of h, in order.     *)
LastElems(w, h) == \A j \in 1..Len(w) : w[j] = h[Len(h) - Len(w) + j]

(* The window holds the last min(n, window_size) of the n readings kept,  *)
(* and total_samples counts them: WindowIsRecent, with min(n, W) written *)
(* as two cases and the SubSeq by index.                                   *)
MonitorInv ==
  /\ MonitorTypeOK
  /\ pm_total = Len(pm_hist)
  /\ Len(pm_hist) < WindowSize => Len(pm_window) = Len(pm_hist)
  /\ Len(pm_hist) >= WindowSize => Len(pm_window) = WindowSize
  /\ LastElems(pm_window, pm_hist)

(* The last Len(w) elements of h, by index, are the SubSeq of h that      *)
(* WindowIsRecent names.                                                   *)
LEMMA LastElemsIsSubSeq ==
  ASSUME NEW S, NEW h \in Seq(S), NEW w \in Seq(S), Len(w) <= Len(h)
  PROVE  LastElems(w, h) <=> w = SubSeq(h, Len(h) - Len(w) + 1, Len(h))
<1> DEFINE n == Len(w)
<1>1. SubSeq(h, Len(h) - n + 1, Len(h)) = [j \in 1..n |-> h[Len(h) - n + j]]
  OBVIOUS
<1>2. w = [j \in 1..n |-> w[j]]
  OBVIOUS
<1>3. QED
  BY <1>1, <1>2 DEF LastElems

(* Appending to a deque of maxlen W that holds the last min(n, W) of n    *)
(* readings leaves it holding the last min(n + 1, W) of the n + 1.         *)
LEMMA DequeKeepsRecent ==
  ASSUME NEW S, NEW h \in Seq(S), NEW w \in Seq(S), NEW p \in S,
         NEW W \in Nat \ {0},
         Len(h) < W => Len(w) = Len(h),
         Len(h) >= W => Len(w) = W,
         LastElems(w, h)
  PROVE  LET w2 == IF Len(w) < W THEN Append(w, p) ELSE Append(Tail(w), p)
         IN  /\ w2 \in Seq(S)
             /\ Len(h) + 1 < W => Len(w2) = Len(h) + 1
             /\ Len(h) + 1 >= W => Len(w2) = W
             /\ LastElems(w2, Append(h, p))
<1> DEFINE h2 == Append(h, p)
<1> USE DEF h2
<1>1. CASE Len(h) < W
  <2>1. Len(w) = Len(h) /\ Len(w) < W
    BY <1>1
  <2>2. w = h
    BY <2>1 DEF LastElems
  <2>3. QED
    BY <1>1, <2>1, <2>2 DEF LastElems
<1>2. CASE Len(h) >= W
  <2> DEFINE t == Append(Tail(w), p)
  <2> USE DEF t
  <2>1. Len(w) = W /\ w # <<>>
    BY <1>2
  <2>2. t \in Seq(S) /\ Len(t) = W /\ Len(h2) = Len(h) + 1
    BY <2>1
  <2>3. ASSUME NEW j \in 1..W - 1 PROVE t[j] = h2[Len(h2) - W + j]
    <3>1. t[j] = w[j + 1]
      BY <2>1
    <3>2. w[j + 1] = h[Len(h) - W + j + 1]
      <4>1. \A i \in 1..Len(w) : w[i] = h[Len(h) - Len(w) + i]
        BY DEF LastElems
      <4>2. j + 1 \in 1..Len(w)
        BY <2>1
      <4>3. w[j + 1] = h[Len(h) - Len(w) + (j + 1)]
        BY <4>1, <4>2
      <4>4. QED
        BY <4>3, <2>1
    <3>3. QED
      BY <3>1, <3>2, <2>1, <1>2
  <2>4. t[W] = h2[Len(h2) - W + W]
    BY <2>1, <2>2
  <2>5. LastElems(t, h2)
    <3> SUFFICES ASSUME NEW j \in 1..Len(t) PROVE t[j] = h2[Len(h2) - Len(t) + j]
      BY DEF LastElems
    <3>1. CASE j < W
      BY <3>1, <2>2, <2>3
    <3>2. CASE j = W
      BY <3>2, <2>2, <2>4
    <3>3. QED
      BY <3>1, <3>2, <2>2
  <2>6. ~(Len(w) < W) /\ Len(h) + 1 >= W /\ ~(Len(h) + 1 < W)
    BY <2>1, <1>2
  <2>7. QED
    BY <2>2, <2>5, <2>6
<1>3. QED
  BY <1>1, <1>2

(* A step of the harness is a step of continuous_monitor.py, or leaves    *)
(* the monitor's variables alone.                                          *)
LEMMA MonitorSplit ==
  ASSUME [Next]_vars
  PROVE  \/ which = "monitor" /\ PM!Next
         \/ UNCHANGED pm
  BY DEF Next, vars, pm

(* Every step of main and of the SIGINT handler keeps the window the last *)
(* readings kept; a failed read_power changes neither the window nor the  *)
(* count.                                                                  *)
LEMMA MonitorStep == MonitorInv /\ [Next]_vars => MonitorInv'
<1> SUFFICES ASSUME MonitorInv, [Next]_vars PROVE MonitorInv'
  OBVIOUS
<1> USE ScriptsAssumption DEF MonitorInv, MonitorTypeOK, PM!TypeOK
<1>1. CASE UNCHANGED pm
  BY <1>1 DEF pm
<1>2. CASE PM!HandleInterrupt
  BY <1>2 DEF PM!HandleInterrupt
<1>3. CASE PM!LoopTest
  BY <1>3 DEF PM!LoopTest, PM!PCs
<1>4. CASE PM!AcquireSample
  <2>1. PICK p \in Readings : /\ pm_window' = PM!DequeAppend(pm_window, p)
                               /\ pm_hist' = Append(pm_hist, p)
    BY <1>4 DEF PM!AcquireSample
  <2>2. LET w2 == IF Len(pm_window) < WindowSize THEN Append(pm_window, p)
                  ELSE Append(Tail(pm_window), p)
        IN  /\ w2 \in Seq(Readings)
            /\ Len(pm_hist) + 1 < WindowSize => Len(w2) = Len(pm_hist) + 1
            /\ Len(pm_hist) + 1 >= WindowSize => Len(w2) = WindowSize
            /\ LastElems(w2, Append(pm_hist, p))
    BY DequeKeepsRecent
  <2>3. Len(pm_window') <= WindowSize
    BY <2>1, <2>2 DEF PM!DequeAppend
  <2>4. /\ pm_window' \in Seq(Readings)
        /\ Len(pm_hist') < WindowSize => Len(pm_window') = Len(pm_hist')
        /\ Len(pm_hist') >= WindowSize => Len(pm_window') = WindowSize
        /\ LastElems(pm_window', pm_hist')
    BY <2>1, <2>2 DEF PM!DequeAppend
  <2>5. pm_hist' \in Seq(Readings) /\ pm_total' = Len(pm_hist')
    BY <1>4, <2>1 DEF PM!AcquireSample
  <2>6. /\ pm_total' \in Nat /\ pm_last_display' \in Nat
        /\ pm_iterations' \in 0..MaxIterations /\ pm_exit' \in {0, 1, 2}
    BY <1>4 DEF PM!AcquireSample
  <2>7. pm_pc' \in PM!PCs /\ pm_running' \in BOOLEAN /\ pm_slept' \in BOOLEAN
    BY <1>4, Zenon DEF PM!AcquireSample, PM!PCs
  <2>8. QED
    BY <2>3, <2>4, <2>5, <2>6, <2>7 DEF LastElems
<1>5. CASE PM!AcquireFails
  BY <1>5 DEF PM!AcquireFails, PM!PCs
<1>6. CASE PM!Display
  BY <1>6 DEF PM!Display, PM!PCs
<1>7. CASE PM!Sleep
  BY <1>7 DEF PM!Sleep, PM!PCs
<1>8. CASE PM!FinalStatistics
  BY <1>8 DEF PM!FinalStatistics, PM!PCs
<1>9. QED
  BY <1>1, <1>2, <1>3, <1>4, <1>5, <1>6, <1>7, <1>8, MonitorSplit
  DEF PM!Next, PM!MainStep

(* The strengthened form implies the property as the run states it.       *)
LEMMA MonitorInvImpliesRecent == MonitorInv => WindowIsRecent
<1> SUFFICES ASSUME MonitorInv PROVE WindowIsRecent
  OBVIOUS
<1> USE ScriptsAssumption DEF MonitorInv, MonitorTypeOK, PM!TypeOK
<1>0. Len(pm_hist) >= WindowSize <=> ~(Len(pm_hist) < WindowSize)
  OBVIOUS
<1>1. Len(pm_window) = IF Len(pm_hist) < WindowSize THEN Len(pm_hist)
                       ELSE WindowSize
  BY <1>0, Zenon
<1>2. Len(pm_window) <= Len(pm_hist)
  OBVIOUS
<1>3. pm_window = SubSeq(pm_hist, Len(pm_hist) - Len(pm_window) + 1,
                         Len(pm_hist))
  BY <1>2, LastElemsIsSubSeq
<1>4. QED
  BY <1>1, <1>3 DEF WindowIsRecent, PM!WindowIsRecent

(* The monitor's strengthened invariant holds in every reachable state.    *)
LEMMA MonitorInvHolds == Spec => []MonitorInv
<1>1. Init => MonitorInv
  <2> SUFFICES ASSUME PM!Init PROVE MonitorInv
    BY DEF Init
  <2>1. /\ pm_window \in Seq(Readings) /\ Len(pm_window) <= WindowSize
        /\ pm_hist \in Seq(Readings)
        /\ pm_total \in Nat /\ pm_last_display \in Nat
        /\ pm_iterations \in 0..MaxIterations /\ pm_exit \in {0, 1, 2}
    BY ScriptsAssumption DEF PM!Init
  <2>2. pm_pc \in PM!PCs /\ pm_running \in BOOLEAN /\ pm_slept \in BOOLEAN
    BY DEF PM!Init, PM!PCs
  <2>3. MonitorTypeOK
    BY <2>1, <2>2 DEF MonitorTypeOK, PM!TypeOK
  <2>4. QED
    BY <2>3, ScriptsAssumption DEF PM!Init, MonitorInv, LastElems
<1>2. QED
  BY <1>1, MonitorStep, PTL DEF Spec

(* For every window size, display interval and number of iterations: the *)
(* deque of continuous_monitor.py never holds more than window_size       *)
(* readings, and its counters keep their types (lines 24-29, 36-54).      *)
THEOREM MonitorTypeOKHolds == Spec => []MonitorTypeOK
  BY MonitorInvHolds, PTL DEF MonitorInv

(* For every window size: the statistics describe the recent readings,   *)
(* the window being exactly the last min(total_samples, window_size)      *)
(* readings kept, and a failed read_power counted nowhere (lines 36-54,   *)
(* 108-110).                                                               *)
THEOREM WindowIsRecentHolds == Spec => []WindowIsRecent
  BY MonitorInvHolds, MonitorInvImpliesRecent, PTL

-----------------------------------------------------------------------------
(* wavelength_sweep.py.                                                    *)

(* Arguments that pass main's validation (lines 157-163).                  *)
ValidArgs(a) == a.start < a.stop /\ a.step > 0

(* The first L points of the forward grid: start, start + step, ...       *)
Forward(a, L) == [k \in 1..L |-> a.start + (k - 1) * a.step]

(* The number of points of the forward grid, as Path counts them.         *)
GridLen(a) == (a.stop - a.start) \div a.step + 1

(* The records wavelength_sweep builds, one per point.                    *)
PointRecs == [wl : Nat, power : Readings, scan_point : Nat, total : Nat]

(* The sweep has computed its path: it is sweeping, saving, or has        *)
(* returned 0.                                                             *)
PastGrid ==
  ws_pc \in {"sweep", "save"} \/ (ws_pc = "exit" /\ ws_ret = 0)

(* The grid loop has appended the first Len(wavelengths) points of the    *)
(* forward grid and current is the next one; once the list is complete    *)
(* it is the path, each DataPoint records the point it was taken at with  *)
(* its index and the path's length, and a run that returns 0 has written  *)
(* one row per DataPoint.                                                  *)
SweepInv ==
  /\ ws_args \in WS!Args
  /\ ws_points \in Seq(PointRecs)
  /\ ws_pc \in {"init", "grid"} => ValidArgs(ws_args)
  /\ ws_pc \in {"validate", "init"} => ws_wls = <<>>
  /\ ws_pc \in {"validate", "init", "grid"} => ws_points = <<>> /\ ws_i = 1
  /\ ws_pc = "grid" => /\ ws_wls = Forward(ws_args, Len(ws_wls))
                       /\ ws_cur = ws_args.start + Len(ws_wls) * ws_args.step
                       /\ Len(ws_wls) <= GridLen(ws_args)
  /\ PastGrid => /\ ws_wls = WS!Path(ws_args)
                 /\ ws_wls \in Seq(Nat)
                 /\ ws_i \in 1..Len(ws_wls) + 1
                 /\ Len(ws_points) = ws_i - 1
                 /\ \A k \in 1..Len(ws_points) :
                       /\ ws_points[k].wl = ws_wls[k]
                       /\ ws_points[k].scan_point = k
                       /\ ws_points[k].total = Len(ws_wls)
  /\ (ws_pc = "save" \/ (ws_pc = "exit" /\ ws_ret = 0))
        => ws_i = Len(ws_wls) + 1
  /\ (ws_pc = "exit" /\ ws_ret = 0)
        => ws_csv = [k \in 1..Len(ws_points) |->
                       [wl |-> ws_points[k].wl, power |-> ws_points[k].power]]

(* Floor division brackets its dividend.                                   *)
LEMMA DivBounds ==
  ASSUME NEW d \in Nat, NEW s \in Nat \ {0}
  PROVE  /\ (d \div s) * s <= d
         /\ d < (d \div s + 1) * s
  OBVIOUS

(* L steps of size s fit in d exactly when L is at most d \div s.         *)
LEMMA BelowQuotient ==
  ASSUME NEW d \in Nat, NEW s \in Nat \ {0}, NEW L \in Nat
  PROVE  L * s <= d <=> L <= d \div s
<1> DEFINE q == d \div s
<1>1. q \in Nat /\ q * s <= d /\ d < (q + 1) * s
  BY DivBounds
<1>2. L <= q => L * s <= q * s
  OBVIOUS
<1>3. L >= q + 1 => L * s >= (q + 1) * s
  OBVIOUS
<1>4. QED
  BY <1>1, <1>2, <1>3

(* The loop test current <= stop_nm, with current the (L+1)-th point:     *)
(* while it holds there is room for one more point, and when it fails     *)
(* after at most GridLen points the loop has appended exactly GridLen.    *)
LEMMA LoopTest ==
  ASSUME NEW st \in Nat, NEW sp \in Nat \ {0}, NEW stop \in Nat, st < stop,
         NEW L \in Nat
  PROVE  /\ st + L * sp <= stop => L + 1 <= (stop - st) \div sp + 1
         /\ st + L * sp > stop /\ L <= (stop - st) \div sp + 1
              => L = (stop - st) \div sp + 1
<1>1. stop - st \in Nat
  OBVIOUS
<1>2. L * sp <= stop - st <=> L <= (stop - st) \div sp
  BY <1>1, BelowQuotient
<1>3. QED
  BY <1>2

(* What Forward builds.                                                    *)
LEMMA ForwardFacts ==
  ASSUME NEW a, a.start \in Nat, a.step \in Nat, NEW n \in Nat
  PROVE  /\ Forward(a, n) \in Seq(Nat)
         /\ Len(Forward(a, n)) = n
         /\ \A k \in 1..n : Forward(a, n)[k] = a.start + (k - 1) * a.step
  BY DEF Forward

(* One turn of the grid loop appends the next point of the forward grid.  *)
LEMMA ForwardAppend ==
  ASSUME NEW a, a.start \in Nat, a.step \in Nat, NEW n \in Nat
  PROVE  Append(Forward(a, n), a.start + n * a.step) = Forward(a, n + 1)
  BY DEF Forward

(* The k-th point of a grid from st by sp.                                 *)
Lin(st, sp, k) == st + (k - 1) * sp

(* The grid from st by sp up n points and back down to st.                *)
UpBack(st, sp, n) ==
  [k \in 1..2 * n - 1 |-> Lin(st, sp, IF k <= n THEN k ELSE 2 * n - k)]

LEMMA LinNat ==
  ASSUME NEW st \in Nat, NEW sp \in Nat, NEW k \in Nat \ {0}
  PROVE  Lin(st, sp, k) \in Nat
  BY DEF Lin

(* What reversed(wavelengths[:-1]) builds.                                 *)
LEMMA ReturnLegFacts ==
  ASSUME NEW w \in Seq(Nat), NEW n \in Nat \ {0}, Len(w) = n
  PROVE  /\ WS!ReturnLeg(w) \in Seq(Nat)
         /\ Len(WS!ReturnLeg(w)) = n - 1
         /\ \A k \in 1..n - 1 : WS!ReturnLeg(w)[k] = w[n - k]
  BY DEF WS!ReturnLeg

(* The loop's points followed by the way back are the grid up and down.   *)
LEMMA UpAndBack ==
  ASSUME NEW w \in Seq(Nat), NEW n \in Nat \ {0}, Len(w) = n,
         NEW st \in Nat, NEW sp \in Nat,
         \A j \in 1..n : w[j] = Lin(st, sp, j)
  PROVE  /\ w \o WS!ReturnLeg(w) = UpBack(st, sp, n)
         /\ w \o WS!ReturnLeg(w) \in Seq(Nat)
<1>1. /\ WS!ReturnLeg(w) \in Seq(Nat)
      /\ Len(WS!ReturnLeg(w)) = n - 1
      /\ \A k \in 1..n - 1 : WS!ReturnLeg(w)[k] = w[n - k]
  BY ReturnLegFacts
<1>2. /\ w \o WS!ReturnLeg(w) \in Seq(Nat)
      /\ Len(w \o WS!ReturnLeg(w)) = 2 * n - 1
      /\ \A m \in 1..2 * n - 1 : (w \o WS!ReturnLeg(w))[m] =
            IF m <= n THEN w[m] ELSE WS!ReturnLeg(w)[m - n]
  <2>1. /\ w \o WS!ReturnLeg(w) \in Seq(Nat)
        /\ Len(w \o WS!ReturnLeg(w)) = Len(w) + Len(WS!ReturnLeg(w))
        /\ \A m \in 1..Len(w) + Len(WS!ReturnLeg(w)) :
              (w \o WS!ReturnLeg(w))[m] =
                IF m <= Len(w) THEN w[m] ELSE WS!ReturnLeg(w)[m - Len(w)]
    BY <1>1, ConcatProperties, Zenon
  <2>2. Len(w) + Len(WS!ReturnLeg(w)) = 2 * n - 1
    BY <1>1
  <2>3. Len(w) = n
    OBVIOUS
  <2>4. QED
    BY <2>1, <2>2, <2>3, Zenon
<1>3. UpBack(st, sp, n) \in Seq(Nat) /\ Len(UpBack(st, sp, n)) = 2 * n - 1
  <2>1. ASSUME NEW k \in 1..2 * n - 1
        PROVE  Lin(st, sp, IF k <= n THEN k ELSE 2 * n - k) \in Nat
    <3>1. (IF k <= n THEN k ELSE 2 * n - k) \in Nat \ {0}
      OBVIOUS
    <3>2. QED
      BY <3>1, LinNat
  <2>2. QED
    BY <2>1 DEF UpBack
<1>4. ASSUME NEW k \in 1..2 * n - 1
      PROVE  (w \o WS!ReturnLeg(w))[k] = UpBack(st, sp, n)[k]
  <2>1. UpBack(st, sp, n)[k] = Lin(st, sp, IF k <= n THEN k ELSE 2 * n - k)
    BY DEF UpBack
  <2>2. CASE k <= n
    BY <2>1, <2>2, <1>2
  <2>3. CASE ~(k <= n)
    <3>1. k > n /\ k - n \in 1..n - 1 /\ n - (k - n) = 2 * n - k
      BY <2>3
    <3>2. (w \o WS!ReturnLeg(w))[k] = WS!ReturnLeg(w)[k - n]
      <4>1. (w \o WS!ReturnLeg(w))[k] =
              IF k <= n THEN w[k] ELSE WS!ReturnLeg(w)[k - n]
        BY <1>2
      <4>2. QED
        BY <4>1, <2>3, Zenon
    <3>3. WS!ReturnLeg(w)[k - n] = w[2 * n - k]
      BY <3>1, <1>1
    <3>4. w[2 * n - k] = Lin(st, sp, 2 * n - k)
      BY <3>1
    <3>5. QED
      BY <2>1, <3>1, <3>2, <3>3, <3>4
  <2>4. QED
    BY <2>2, <2>3, Zenon
<1>5. QED
  BY <1>2, <1>3, <1>4, SeqEqual

(* What lines 61-62 leave in wavelengths once the loop has appended the   *)
(* whole forward grid.                                                     *)
Extended(a) ==
  IF a.bidir THEN Forward(a, GridLen(a)) \o WS!ReturnLeg(Forward(a, GridLen(a)))
  ELSE Forward(a, GridLen(a))

(* For valid arguments, the complete forward grid with the way back added *)
(* when bidirectional is the path the argument help describes.            *)
LEMMA ExtendedIsPath ==
  ASSUME NEW a, a.start \in Nat, a.stop \in Nat, a.step \in Nat \ {0},
         a.start < a.stop, a.bidir \in BOOLEAN
  PROVE  Extended(a) = WS!Path(a) /\ Extended(a) \in Seq(Nat)
<1> DEFINE n == GridLen(a)
<1> DEFINE w == Forward(a, n)
<1>1. n \in Nat \ {0}
  BY DEF n, GridLen
<1>2. /\ w \in Seq(Nat)
      /\ Len(w) = n
      /\ \A j \in 1..n : w[j] = Lin(a.start, a.step, j)
  <2>1. /\ w \in Seq(Nat)
        /\ Len(w) = n
        /\ \A j \in 1..n : w[j] = a.start + (j - 1) * a.step
    BY <1>1, ForwardFacts DEF w
  <2>2. \A j \in 1..n : a.start + (j - 1) * a.step = Lin(a.start, a.step, j)
    BY DEF Lin
  <2>3. QED
    BY <2>1, <2>2
<1>3. CASE ~a.bidir
  <2>1. w = WS!Path(a)
    BY <1>3 DEF WS!Path, GridLen, Forward, n, w
  <2>2. QED
    BY <1>2, <1>3, <2>1 DEF Extended, n, w
<1>4. CASE a.bidir
  <2>1. w \o WS!ReturnLeg(w) = UpBack(a.start, a.step, n)
        /\ w \o WS!ReturnLeg(w) \in Seq(Nat)
    <3>1. a.step \in Nat
      OBVIOUS
    <3>2. \A ww \in Seq(Nat), nn \in Nat \ {0}, st \in Nat, sp \in Nat :
            (Len(ww) = nn /\ \A j \in 1..nn : ww[j] = Lin(st, sp, j))
              => /\ ww \o WS!ReturnLeg(ww) = UpBack(st, sp, nn)
                 /\ ww \o WS!ReturnLeg(ww) \in Seq(Nat)
      BY UpAndBack
    <3>3. QED
      BY <1>1, <1>2, <3>1, <3>2, ZenonT(60)
  <2>2. UpBack(a.start, a.step, n) = WS!Path(a)
    BY <1>4 DEF WS!Path, GridLen, Lin, UpBack, n
  <2>3. QED
    BY <1>4, <2>1, <2>2 DEF Extended, n, w
<1>5. QED
  BY <1>3, <1>4

(* A step of the harness is a step of wavelength_sweep.py, or leaves the  *)
(* sweep's variables alone.                                                *)
LEMMA SweepSplit ==
  ASSUME [Next]_vars
  PROVE  \/ which = "sweep" /\ WS!Next
         \/ UNCHANGED ws
  BY DEF Next, vars, ws

(* The arguments of a run are naturals.                                    *)
LEMMA ArgsNat ==
  ASSUME NEW a \in WS!Args
  PROVE  a.start \in Nat /\ a.stop \in Nat /\ a.step \in Nat
         /\ a.bidir \in BOOLEAN
  BY ScriptsAssumption DEF WS!Args

(* Adding one more step.                                                   *)
LEMMA OneMoreStep ==
  ASSUME NEW st \in Nat, NEW sp \in Nat, NEW L \in Nat
  PROVE  st + L * sp + sp = st + (L + 1) * sp
  OBVIOUS

(* One turn of the grid loop, on the numbers: the next point of the      *)
(* forward grid is appended, current moves one step, and the list stays   *)
(* within the grid's length.                                               *)
LEMMA GridLoopArith ==
  ASSUME NEW a, a.start \in Nat, a.stop \in Nat, a.step \in Nat \ {0},
         a.start < a.stop, NEW L \in Nat, L <= GridLen(a),
         a.start + L * a.step <= a.stop
  PROVE  /\ Append(Forward(a, L), a.start + L * a.step) = Forward(a, L + 1)
         /\ Len(Forward(a, L + 1)) = L + 1
         /\ a.start + L * a.step + a.step = a.start + (L + 1) * a.step
         /\ L + 1 <= GridLen(a)
<1>2. L + 1 <= GridLen(a)
  <2>1. L + 1 <= (a.stop - a.start) \div a.step + 1
    BY LoopTest
  <2>2. QED
    BY <2>1 DEF GridLen
<1>3. Append(Forward(a, L), a.start + L * a.step) = Forward(a, L + 1)
  BY ForwardAppend
<1>4. Len(Forward(a, L + 1)) = L + 1
  BY ForwardFacts
<1>5. a.start + L * a.step + a.step = a.start + (L + 1) * a.step
  <2>1. a.step \in Nat
    OBVIOUS
  <2>2. QED
    BY <2>1, OneMoreStep, Zenon
<1>6. QED
  BY <1>2, <1>3, <1>4, <1>5

(* The loop test fails: the list holds the whole forward grid.             *)
LEMMA GridEndArith ==
  ASSUME NEW a, a.start \in Nat, a.stop \in Nat, a.step \in Nat \ {0},
         a.start < a.stop, NEW L \in Nat, L <= GridLen(a),
         a.start + L * a.step > a.stop
  PROVE  L = GridLen(a)
<1>2. L <= (a.stop - a.start) \div a.step + 1
  BY DEF GridLen
<1>3. L = (a.stop - a.start) \div a.step + 1
  BY <1>2, LoopTest
<1>4. QED
  BY <1>3 DEF GridLen

(* The grid loop appends the forward grid one point at a time and stops   *)
(* after the last point not above stop_nm; the sweep then visits the     *)
(* path in order and the save writes what it collected.                   *)
LEMMA SweepStep ==
  ASSUME SweepInv,
         \/ WS!Next
         \/ UNCHANGED <<ws_pc, ws_args, ws_cur, ws_wls, ws_i, ws_points, ws_csv,
                       ws_ret>>
  PROVE  SweepInv'
<1> USE DEF SweepInv, PastGrid
<1>0. /\ ws_args.start \in Nat /\ ws_args.stop \in Nat
      /\ ws_args.step \in Nat /\ ws_args.bidir \in BOOLEAN
  BY ArgsNat
<1>1. CASE UNCHANGED <<ws_pc, ws_args, ws_cur, ws_wls, ws_i, ws_points, ws_csv,
                      ws_ret>>
  BY <1>1
<1>2. CASE WS!Validate
  <2>1. /\ ws_pc = "validate" /\ ws_wls = <<>> /\ ws_points = <<>> /\ ws_i = 1
        /\ UNCHANGED <<ws_args, ws_cur, ws_wls, ws_i, ws_points, ws_csv>>
    BY <1>2 DEF WS!Validate
  <2>2. CASE ws_args.start >= ws_args.stop \/ ws_args.step <= 0
    <3>1. ws_pc' = "exit" /\ ws_ret' = 1
      BY <1>2, <2>2 DEF WS!Validate, WS!Exit
    <3>2. QED
      BY <2>1, <3>1
  <2>3. CASE ~(ws_args.start >= ws_args.stop \/ ws_args.step <= 0)
    <3>1. ws_pc' = "init" /\ ValidArgs(ws_args')
      BY <1>2, <2>1, <2>3, <1>0 DEF WS!Validate, ValidArgs
    <3>2. QED
      BY <2>1, <3>1
  <2>4. QED
    BY <2>2, <2>3
<1>3. CASE WS!InitInstruments
  <2>1. ws_pc = "init" /\ ValidArgs(ws_args) /\ ws_wls = <<>>
        /\ ws_points = <<>> /\ ws_i = 1
    BY <1>3 DEF WS!InitInstruments
  <2>2. Forward(ws_args, 0) = <<>>
    BY DEF Forward
  <2>3. GridLen(ws_args) \in Nat
    BY <1>0, <2>1 DEF GridLen, ValidArgs
  <2>4. UNCHANGED <<ws_args, ws_wls, ws_i, ws_points, ws_csv>>
    BY <1>3 DEF WS!InitInstruments
  <2>5. CASE ws_pc' = "grid" /\ ws_cur' = ws_args.start /\ UNCHANGED ws_ret
    <3>1. ws_cur' = ws_args.start + Len(ws_wls') * ws_args.step
      BY <2>5, <2>1, <2>4, <1>0
    <3>2. QED
      BY <2>1, <2>2, <2>3, <2>4, <2>5, <3>1
  <2>6. CASE WS!Exit(1) /\ UNCHANGED ws_cur
    BY <2>1, <2>4, <2>6 DEF WS!Exit
  <2>7. QED
    BY <1>3, <2>5, <2>6 DEF WS!InitInstruments
<1>4. CASE WS!GridLoop
  <2> DEFINE L == Len(ws_wls)
  <2> USE DEF L
  <2>1. /\ ws_pc = "grid" /\ ValidArgs(ws_args)
        /\ ws_wls = Forward(ws_args, L)
        /\ ws_cur = ws_args.start + L * ws_args.step
        /\ L <= GridLen(ws_args)
        /\ ws_points = <<>> /\ ws_i = 1
    BY <1>4 DEF WS!GridLoop
  <2>2. L \in Nat
    BY <2>1, <1>0, ForwardFacts
  <2>3. /\ ws_args.start + L * ws_args.step <= ws_args.stop
        /\ ws_wls' = Append(ws_wls, ws_cur)
        /\ ws_cur' = ws_cur + ws_args.step
    BY <1>4, <2>1 DEF WS!GridLoop
  <2>4. /\ Append(Forward(ws_args, L), ws_args.start + L * ws_args.step)
             = Forward(ws_args, L + 1)
        /\ Len(Forward(ws_args, L + 1)) = L + 1
        /\ ws_args.start + L * ws_args.step + ws_args.step
             = ws_args.start + (L + 1) * ws_args.step
        /\ L + 1 <= GridLen(ws_args)
    <3>1. ws_args.step \in Nat \ {0} /\ ws_args.start < ws_args.stop
      BY <2>1, <1>0 DEF ValidArgs
    <3>2. QED
      BY <3>1, <2>1, <2>2, <2>3, <1>0, GridLoopArith
  <2>5. /\ ws_wls' = Forward(ws_args, L + 1) /\ Len(ws_wls') = L + 1
        /\ ws_cur' = ws_args.start + (L + 1) * ws_args.step
    BY <2>1, <2>3, <2>4
  <2>6. QED
    BY <1>4, <2>1, <2>4, <2>5 DEF WS!GridLoop
<1>5. CASE WS!GridExtend
  <2> DEFINE L == Len(ws_wls)
  <2> USE DEF L
  <2>1. /\ ws_pc = "grid" /\ ValidArgs(ws_args)
        /\ ws_wls = Forward(ws_args, L)
        /\ ws_cur = ws_args.start + L * ws_args.step
        /\ L <= GridLen(ws_args)
        /\ ws_points = <<>> /\ ws_i = 1
    BY <1>5 DEF WS!GridExtend
  <2>2. L \in Nat
    BY <2>1, <1>0, ForwardFacts
  <2>3. L = GridLen(ws_args)
    <3>1. ws_args.start + L * ws_args.step > ws_args.stop
      BY <1>5, <2>1 DEF WS!GridExtend
    <3>2. ws_args.step \in Nat \ {0} /\ ws_args.start < ws_args.stop
      BY <2>1, <1>0 DEF ValidArgs
    <3>3. QED
      BY <3>1, <3>2, <2>1, <2>2, <1>0, GridEndArith
  <2>4. ws_wls' = Extended(ws_args)
    BY <1>5, <2>1, <2>3 DEF WS!GridExtend, Extended
  <2>5. ws_wls' = WS!Path(ws_args) /\ ws_wls' \in Seq(Nat)
    BY <2>4, <2>1, <1>0, ExtendedIsPath DEF ValidArgs
  <2>6. Len(ws_wls') \in Nat
    BY <2>5
  <2>7. QED
    BY <1>5, <2>1, <2>5, <2>6 DEF WS!GridExtend
<1>6. CASE WS!SweepPoint
  <2>1. ws_pc = "sweep" /\ ws_i <= Len(ws_wls) /\ ws_wls \in Seq(Nat)
        /\ ws_i \in 1..Len(ws_wls) + 1 /\ Len(ws_points) = ws_i - 1
    BY <1>6 DEF WS!SweepPoint
  <2>2. CASE \E p \in Readings :
               /\ ws_points' = Append(ws_points,
                                 [wl |-> ws_wls[ws_i], power |-> p,
                                  scan_point |-> ws_i, total |-> Len(ws_wls)])
               /\ ws_i' = ws_i + 1
               /\ UNCHANGED <<ws_pc, ws_ret>>
    <3>1. PICK p \in Readings :
               /\ ws_points' = Append(ws_points,
                                 [wl |-> ws_wls[ws_i], power |-> p,
                                  scan_point |-> ws_i, total |-> Len(ws_wls)])
               /\ ws_i' = ws_i + 1
               /\ UNCHANGED <<ws_pc, ws_ret>>
      BY <2>2
    <3>2. [wl |-> ws_wls[ws_i], power |-> p, scan_point |-> ws_i,
           total |-> Len(ws_wls)] \in PointRecs
      BY <2>1 DEF PointRecs
    <3>3. /\ ws_points' \in Seq(PointRecs)
          /\ Len(ws_points') = ws_i
          /\ \A k \in 1..Len(ws_points') :
                /\ ws_points'[k].wl = ws_wls[k]
                /\ ws_points'[k].scan_point = k
                /\ ws_points'[k].total = Len(ws_wls)
      BY <3>1, <3>2, <2>1
    <3>4. /\ UNCHANGED <<ws_args, ws_cur, ws_wls, ws_csv, ws_pc, ws_ret>>
          /\ ws_i' = ws_i + 1
      BY <1>6, <3>1 DEF WS!SweepPoint
    <3>5. /\ ws_i' \in 1..Len(ws_wls') + 1
          /\ Len(ws_points') = ws_i' - 1
          /\ ws_i' # 1
      BY <2>1, <3>3, <3>4
    <3>6. ws_pc' = "sweep" /\ ws_pc' # "save" /\ ws_pc' # "exit"
      BY <2>1, <3>4
    <3>7. /\ ws_wls' = WS!Path(ws_args') /\ ws_wls' \in Seq(Nat)
          /\ ws_args' \in WS!Args
      BY <2>1, <3>4
    <3>8. QED
      BY <3>3, <3>4, <3>5, <3>6, <3>7
  <2>3. CASE WS!Exit(1) /\ UNCHANGED <<ws_i, ws_points>>
    <3>1. /\ ws_pc' = "exit" /\ ws_ret' = 1
          /\ UNCHANGED <<ws_args, ws_points>>
      BY <1>6, <2>3 DEF WS!SweepPoint, WS!Exit
    <3>2. ~(ws_pc' \in {"sweep", "save"} \/ (ws_pc' = "exit" /\ ws_ret' = 0))
      BY <3>1
    <3>3. QED
      BY <3>1, <3>2
  <2>4. QED
    BY <1>6, <2>2, <2>3 DEF WS!SweepPoint
<1>7. CASE WS!SweepDone
  <2>1. /\ ws_pc = "sweep" /\ ws_i > Len(ws_wls) /\ ws_pc' = "save"
        /\ UNCHANGED <<ws_args, ws_cur, ws_wls, ws_i, ws_points, ws_csv, ws_ret>>
    BY <1>7 DEF WS!SweepDone
  <2>2. /\ ws_wls = WS!Path(ws_args) /\ ws_wls \in Seq(Nat)
        /\ ws_i \in 1..Len(ws_wls) + 1 /\ Len(ws_points) = ws_i - 1
    BY <2>1
  <2>3. ws_i' = Len(ws_wls') + 1
    BY <2>1, <2>2
  <2>4. QED
    BY <2>1, <2>2, <2>3
<1>8. CASE WS!Save
  <2>1. /\ ws_pc = "save"
        /\ UNCHANGED <<ws_args, ws_cur, ws_wls, ws_i, ws_points>>
    BY <1>8 DEF WS!Save
  <2>2. /\ ws_wls = WS!Path(ws_args) /\ ws_wls \in Seq(Nat)
        /\ ws_i \in 1..Len(ws_wls) + 1 /\ Len(ws_points) = ws_i - 1
        /\ ws_i = Len(ws_wls) + 1
    BY <2>1
  <2>3. CASE /\ ws_csv' = [k \in 1..Len(ws_points) |->
                             [wl |-> ws_points[k].wl, power |-> ws_points[k].power]]
             /\ WS!Exit(0)
    <3>1. ws_pc' = "exit" /\ ws_ret' = 0
      BY <2>3 DEF WS!Exit
    <3>2. QED
      BY <2>1, <2>2, <2>3, <3>1
  <2>4. CASE WS!Exit(1) /\ UNCHANGED ws_csv
    <3>1. ws_pc' = "exit" /\ ws_ret' = 1
      BY <2>4 DEF WS!Exit
    <3>2. QED
      BY <2>1, <3>1
  <2>5. QED
    BY <1>8, <2>3, <2>4 DEF WS!Save
<1>9. CASE WS!Interrupt
  <2>1. /\ ws_pc' = "exit" /\ ws_ret' = 130
        /\ UNCHANGED <<ws_args, ws_cur, ws_wls, ws_i, ws_points, ws_csv>>
    BY <1>9 DEF WS!Interrupt, WS!Exit
  <2>2. QED
    BY <2>1
<1>10. QED
  BY <1>1, <1>2, <1>3, <1>4, <1>5, <1>6, <1>7, <1>8, <1>9 DEF WS!Next

(* The sweep's strengthened invariant holds in every reachable state.      *)
LEMMA SweepInvHolds == Spec => []SweepInv
<1>1. Init => SweepInv
  BY ScriptsAssumption DEF Init, WS!Init, SweepInv, PastGrid, PointRecs
<1>2. SweepInv /\ [Next]_vars => SweepInv'
  <2> SUFFICES ASSUME SweepInv, [Next]_vars
               PROVE  SweepInv'
    OBVIOUS
  <2>1. \/ WS!Next
        \/ UNCHANGED <<ws_pc, ws_args, ws_cur, ws_wls, ws_i, ws_points, ws_csv,
                      ws_ret>>
    BY SweepSplit, Zenon DEF ws
  <2>2. QED
    BY <2>1, SweepStep
<1>3. QED
  BY <1>1, <1>2, PTL DEF Spec

(* The invariant gives the property: the rows written are the DataPoints, *)
(* one per point of the path.                                             *)
LEMMA SweepInvImpliesSaved ==
  ASSUME SweepInv
  PROVE  SavedIsSweep
<1> SUFFICES ASSUME ws_ret = 0, ws_pc = "exit"
             PROVE  /\ [k \in DOMAIN ws_csv |-> ws_csv[k].wl] = WS!Path(ws_args)
                    /\ \A k \in DOMAIN ws_points :
                          /\ ws_points[k].scan_point = k
                          /\ ws_points[k].total = Len(WS!Path(ws_args))
  BY DEF SavedIsSweep, WS!SavedIsSweep
<1>1. /\ ws_wls = WS!Path(ws_args)
      /\ ws_wls \in Seq(Nat)
      /\ ws_points \in Seq(PointRecs)
      /\ Len(ws_points) = Len(ws_wls)
      /\ \A k \in 1..Len(ws_points) :
            /\ ws_points[k].wl = ws_wls[k]
            /\ ws_points[k].scan_point = k
            /\ ws_points[k].total = Len(ws_wls)
      /\ ws_csv = [k \in 1..Len(ws_points) |->
                     [wl |-> ws_points[k].wl, power |-> ws_points[k].power]]
  BY DEF SweepInv, PastGrid
<1>2. [k \in DOMAIN ws_csv |-> ws_csv[k].wl] = ws_wls
  <2>1. [k \in DOMAIN ws_csv |-> ws_csv[k].wl]
          = [k \in 1..Len(ws_wls) |-> ws_wls[k]]
    BY <1>1
  <2>2. [k \in 1..Len(ws_wls) |-> ws_wls[k]] = ws_wls
    BY <1>1
  <2>3. QED
    BY <2>1, <2>2
<1>3. QED
  BY <1>1, <1>2

(* For every set of arguments: a run of wavelength_sweep.py that returns  *)
(* 0 has written one CSV row per point of the path start, start + step,   *)
(* ..., up to stop (and back to start, the turning point once, when       *)
(* bidirectional), in the order visited, and every DataPoint carries its  *)
(* 1-based index and the path's length (lines 52-118, 157-184).           *)
THEOREM SavedIsSweepHolds == Spec => []SavedIsSweep
  BY SweepInvHolds, SweepInvImpliesSaved, PTL

-----------------------------------------------------------------------------
(* live_scan_plot, with a detector whose id is not "position".             *)

(* At each point of the scan the plot holds the positions visited so far, *)
(* the dict holds what the plot holds under two keys, and a scan that     *)
(* reaches finally without an exception has passed every position.        *)
ScanInv ==
  /\ DOMAIN ls_data = LS!Keys
  /\ ls_k \in 1..Steps + 1
  /\ ls_x = [j \in 1..ls_k - 1 |-> j]
  /\ ls_data["position"] = ls_x
  /\ ls_data[DetId] = ls_y
  /\ ls_y = ls_reads
  /\ ls_pc = "read" => ls_k <= Steps
  /\ (ls_pc \in {"finally", "returned"} /\ ~ls_raised) => ls_k = Steps + 1
  /\ ls_pc = "returned" => ~ls_raised

(* A step of the harness is a step of live_scan_plot, or leaves the       *)
(* scan's variables alone.                                                 *)
LEMMA ScanSplit ==
  ASSUME [Next]_vars
  PROVE  \/ which = "scan" /\ LS!Next
         \/ UNCHANGED ls
  BY DEF Next, vars, ls

(* The two appends of one iteration go to two different lists, so the     *)
(* dict keeps what the plot shows; the position appended is the next of  *)
(* the linspace.                                                           *)
LEMMA ScanStep ==
  ASSUME DetId # "position", ScanInv, [Next]_vars
  PROVE  ScanInv'
<1> USE ScriptsAssumption DEF ScanInv
<1>1. CASE UNCHANGED ls
  BY <1>1 DEF ls
<1>2. CASE LS!StartScan
  BY <1>2 DEF LS!StartScan
<1>3. CASE LS!Move
  BY <1>3 DEF LS!Move
<1>4. CASE LS!ReadFails
  BY <1>4 DEF LS!ReadFails
<1>5. CASE LS!ReadAndRecord
  <2>1. PICK v \in Readings :
          /\ ls_data' = [[ls_data EXCEPT !["position"] = Append(@, ls_k)]
                           EXCEPT ![DetId] = Append(@, v)]
          /\ ls_y' = Append(ls_y, v)
          /\ ls_reads' = Append(ls_reads, v)
    BY <1>5 DEF LS!ReadAndRecord
  <2>2. "position" \in LS!Keys /\ DetId \in LS!Keys
    BY DEF LS!Keys
  <2>3. /\ DOMAIN ls_data' = LS!Keys
        /\ ls_data'["position"] = Append(ls_data["position"], ls_k)
        /\ ls_data'[DetId] = Append(ls_data[DetId], v)
    BY <2>1, <2>2
  <2>4. ls_k <= Steps /\ ls_x' = [j \in 1..ls_k |-> j] /\ ls_k' = ls_k + 1
    BY <1>5 DEF LS!ReadAndRecord
  <2>5. Append([j \in 1..ls_k - 1 |-> j], ls_k) = [j \in 1..ls_k |-> j]
    OBVIOUS
  <2>6. ls_data'["position"] = ls_x' /\ ls_data'[DetId] = ls_y'
        /\ ls_y' = ls_reads'
    BY <2>1, <2>3, <2>4, <2>5
  <2>7. ls_k' \in 1..Steps + 1 /\ ls_x' = [j \in 1..ls_k' - 1 |-> j]
    BY <2>4
  <2>8. ls_pc' = "move"
    BY <1>5 DEF LS!ReadAndRecord
  <2>9. QED
    BY <2>3, <2>6, <2>7, <2>8
<1>6. CASE LS!Finally
  BY <1>6 DEF LS!Finally
<1>7. QED
  BY <1>1, <1>2, <1>3, <1>4, <1>5, <1>6, ScanSplit DEF LS!Next

(* The scan's strengthened invariant holds in every reachable state.       *)
LEMMA ScanInvHolds ==
  ASSUME DetId # "position"
  PROVE  Spec => []ScanInv
<1>1. Init => ScanInv
  BY ScriptsAssumption DEF Init, LS!Init, ScanInv, LS!Keys
<1>2. ScanInv /\ [Next]_vars => ScanInv'
  BY ScanStep
<1>3. QED
  BY <1>1, <1>2, PTL DEF Spec

(* For every number of steps and every detector whose device_id is not    *)
(* "position": at the head of every iteration and after the scan, the     *)
(* live plot of live_scan_plot shows exactly the data the dict holds,     *)
(* whichever call raised (lines 644-679).  With device_id "position" the  *)
(* two keys are one and the run live_scan_key_clash shows it fails.        *)
THEOREM PlotMatchesDataHolds ==
  ASSUME DetId # "position"
  PROVE  Spec => []PlotMatchesData
<1>1. ScanInv => PlotMatchesData
  BY DEF ScanInv, PlotMatchesData, LS!PlotMatchesData
<1>2. QED
  BY <1>1, ScanInvHolds, PTL

(* For every number of steps and every detector whose device_id is not    *)
(* "position": a scan that returns has visited the whole linspace in      *)
(* order and holds, under the detector's id, every reading it took         *)
(* (lines 644-679).                                                        *)
THEOREM ReturnedDataHolds ==
  ASSUME DetId # "position"
  PROVE  Spec => []ReturnedData
<1>1. ScanInv => ReturnedData
  BY ScriptsAssumption DEF ScanInv, ReturnedData, LS!ReturnedData
<1>2. QED
  BY <1>1, ScanInvHolds, PTL

=============================================================================

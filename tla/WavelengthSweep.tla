--------------------------- MODULE WavelengthSweep ---------------------------
(***************************************************************************)
(* python/examples/scripts/wavelength_sweep.py: main validates the        *)
(* arguments, opens the MaiTai laser and the Newport 1830C meter, runs    *)
(* wavelength_sweep (a grid from start to stop, optionally back again;    *)
(* at each point set the wavelength, dwell, read the power, keep a        *)
(* DataPoint) and save_data writes one CSV row per point.  Ctrl+C inside  *)
(* the try of main returns 130, any other exception 1.                    *)
(*                                                                         *)
(* The model covers integral --start, --stop and --step (whole           *)
(* nanometres): argparse gives floats, and a double holds every integer   *)
(* below 2^53 exactly, so current += step_nm (line 59) is then exact      *)
(* addition.  A fractional step rounds and is not modelled (README).      *)
(* Instruments are calls that succeed or raise; a reading is a model      *)
(* value of Powers.                                                       *)
(***************************************************************************)
EXTENDS Naturals, Integers, Sequences

CONSTANTS
    Starts,     \* --start values explored, whole nanometres
    Stops,      \* --stop values explored, whole nanometres
    StepSizes,  \* --step values explored, whole nanometres, 0 included
    Powers      \* values meter.read_power() can return


Args == [start : Starts, stop : Stops, step : StepSizes, bidir : BOOLEAN]

VARIABLES
    pc,     \* "validate", "init", "grid", "sweep", "save", "exit"
    args,   \* the parsed command line
    cur,    \* current, the next wavelength of the grid loop
    wls,    \* wavelengths, the list of points to visit
    i,      \* the enumerate index of the next point
    points, \* data_points: [wl, power, scan_point, total] per point
    csv,    \* rows of the output file, none before it is written
    ret     \* main's return value, once it has returned

vars == <<pc, args, cur, wls, i, points, csv, ret>>

(* Mutant: the way back is reversed(wavelengths), turning point twice.   *)
ReturnLegWithTurn(w) == [k \in 1..Len(w) |-> w[Len(w) + 1 - k]]

(* reversed(wavelengths[:-1]) (line 62).                                   *)
ReturnLeg(w) == [k \in 1..Len(w) - 1 |-> w[Len(w) - k]]

Init ==
    /\ pc = "validate" /\ args \in Args /\ cur = 0
    /\ wls = <<>> /\ i = 1 /\ points = <<>> /\ csv = <<>> /\ ret = 0

Exit(code) == pc' = "exit" /\ ret' = code

(* Lines 157-163.                                                          *)
Validate ==
    /\ pc = "validate"
    /\ IF args.start >= args.stop \/ args.step <= 0 THEN Exit(1)
       ELSE pc' = "init" /\ UNCHANGED ret
    /\ UNCHANGED <<args, cur, wls, i, points, csv>>

(* MaiTai(...) and Newport1830C(...) (lines 166-171), which may raise;    *)
(* then main calls wavelength_sweep, which starts its grid loop at        *)
(* current = start_nm (lines 52-56, 174-178).                              *)
InitInstruments ==
    /\ pc = "init"
    /\ \/ pc' = "grid" /\ cur' = args.start /\ UNCHANGED ret
       \/ Exit(1) /\ UNCHANGED cur
    /\ UNCHANGED <<args, wls, i, points, csv>>

(* One turn of the grid loop: append current, add the step (lines 57-59). *)
GridLoop ==
    /\ pc = "grid" /\ cur <= args.stop
    /\ wls' = Append(wls, cur) /\ cur' = cur + args.step
    /\ UNCHANGED <<pc, args, i, points, csv, ret>>

(* The loop test fails; a bidirectional scan adds the way back (lines     *)
(* 61-65).                                                                 *)
GridExtend ==
    /\ pc = "grid" /\ cur > args.stop
    /\ wls' = IF args.bidir THEN wls \o ReturnLeg(wls) ELSE wls
    /\ pc' = "sweep"
    /\ UNCHANGED <<args, cur, i, points, csv, ret>>

(* One point (lines 67-95): set_wavelength and read_power may raise; the  *)
(* DataPoint carries the wavelength, the 1-based index and the count.     *)
SweepPoint ==
    /\ pc = "sweep" /\ i <= Len(wls)
    /\ \/ \E p \in Powers :
             /\ points' = Append(points, [wl |-> wls[i], power |-> p,
                                          scan_point |-> i, total |-> Len(wls)])
             /\ i' = i + 1
             /\ UNCHANGED <<pc, ret>>
       \/ Exit(1) /\ UNCHANGED <<i, points>>
    /\ UNCHANGED <<args, cur, wls, csv>>

(* The sweep returns data_points (lines 97-98).                           *)
SweepDone ==
    /\ pc = "sweep" /\ i > Len(wls)
    /\ pc' = "save"
    /\ UNCHANGED <<args, cur, wls, i, points, csv, ret>>

(* save_data writes the header and a row per point (lines 101-118), then  *)
(* main returns 0 (lines 181-184); open() may raise instead.              *)
Save ==
    /\ pc = "save"
    /\ \/ csv' = [k \in 1..Len(points) |-> [wl |-> points[k].wl,
                                             power |-> points[k].power]]
          /\ Exit(0)
       \/ Exit(1) /\ UNCHANGED csv
    /\ UNCHANGED <<args, cur, wls, i, points>>

(* KeyboardInterrupt inside the try of main (lines 165-188).              *)
Interrupt ==
    /\ pc \in {"init", "grid", "sweep", "save"}
    /\ Exit(130)
    /\ UNCHANGED <<args, cur, wls, i, points, csv>>

Next ==
    Validate \/ InitInstruments \/ GridLoop \/ GridExtend \/ SweepPoint
    \/ SweepDone
    \/ Save \/ Interrupt

Spec == Init /\ [][Next]_vars

-----------------------------------------------------------------------------
(* The path the argument help describes, stated independently of the      *)
(* loop: n points start, start + step, ... up to stop, and for a          *)
(* bidirectional scan back down to start, the turning point once.         *)
Path(a) ==
    LET n == (a.stop - a.start) \div a.step + 1
        fwd(k) == a.start + (k - 1) * a.step
        dist(k) == IF k <= n THEN k ELSE 2 * n - k
    IN  IF a.bidir THEN [k \in 1..2 * n - 1 |-> fwd(dist(k))]
        ELSE [k \in 1..n |-> fwd(k)]

(* A run that returns 0 has written one CSV row per point of the path, in *)
(* the order visited, and every DataPoint carries its index and the        *)
(* path's length (lines 52-118, 174-184).                                  *)
SavedIsSweep ==
    ret = 0 /\ pc = "exit" =>
        /\ [k \in DOMAIN csv |-> csv[k].wl] = Path(args)
        /\ \A k \in DOMAIN points :
              points[k].scan_point = k /\ points[k].total = Len(Path(args))
=============================================================================

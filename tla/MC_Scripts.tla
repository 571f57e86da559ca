----------------------------- MODULE MC_Scripts -----------------------------
(***************************************************************************)
(* The example programs and notebook helpers for TLC, in one run.  Each   *)
(* is a separate Python process (or notebook cell) with no state shared    *)
(* with the others, so a behaviour of this module picks one program in    *)
(* its initial state and runs only that one; the variables of the others  *)
(* stay at their initial values.  The program's own module is             *)
(* instantiated with its variables renamed:                               *)
(*   "status", "measurements"  stream_status.py, stream_measurements.py   *)
(*                             over DaqClient (TelemetryFeed)              *)
(*   "monitor"                 continuous_monitor.py (PowerMonitor)        *)
(*   "sweep"                   wavelength_sweep.py (WavelengthSweep)       *)
(*   "scan"                    live_scan_plot (LiveScan)                   *)
(*   "widgets"                 dashboard and its callbacks (NotebookWidgets)*)
(***************************************************************************)
EXTENDS Naturals, Sequences

CONSTANTS
    None,
    v1, v2,                 \* two distinct instrument readings
    MaxMsgs,                \* TelemetryFeed: messages the daemon sends
    WindowSize, DisplayInterval, MaxIterations,     \* PowerMonitor
    Starts, Stops, StepSizes,                       \* WavelengthSweep
    Steps, DetId, Backend, HasTqdm,                 \* LiveScan
    Positions, DetValues                            \* NotebookWidgets

(* The arguments each program accepts (the ASSUMEs of its module).  The   *)
(* sweep's are integral nanometres, the case in which the script's float  *)
(* grid arithmetic is exact.                                              *)
ASSUME ScriptsAssumption ==
    /\ MaxMsgs \in Nat \ {0} /\ None \notin Nat
    /\ WindowSize \in Nat \ {0} /\ DisplayInterval \in Nat \ {0}
    /\ MaxIterations \in Nat
    /\ Starts \subseteq Nat /\ Stops \subseteq Nat /\ StepSizes \subseteq Nat
    /\ Steps \in Nat /\ Backend \in {"matplotlib", "plotly"}
    /\ HasTqdm \in BOOLEAN
    /\ 0 \in Positions /\ Positions \subseteq Nat /\ DetValues \subseteq Nat

Readings == {v1, v2}
WidgetKinds == <<"motor", "detector", "other">>
Programs == {"status", "measurements", "monitor", "sweep", "scan", "widgets"}

VARIABLES
    which,
    tf_srv, tf_pending, tf_sent, tf_gen, tf_pc, tf_outcome, tf_shown,
    tf_last, tf_closed,
    pm_pc, pm_running, pm_window, pm_total, pm_last_display, pm_iterations,
    pm_slept, pm_exit, pm_hist,
    ws_pc, ws_args, ws_cur, ws_wls, ws_i, ws_points, ws_csv, ws_ret,
    ls_pc, ls_k, ls_motor, ls_data, ls_x, ls_y, ls_interactive, ls_pbar,
    ls_raised, ls_reads,
    nw_dash_i, nw_shown, nw_motor_pos, nw_slider, nw_out, nw_readout,
    nw_returned

TF == INSTANCE TelemetryFeed WITH
    srv <- tf_srv, pending <- tf_pending, sent <- tf_sent, gen <- tf_gen,
    pc <- tf_pc, outcome <- tf_outcome, shown <- tf_shown, last <- tf_last,
    closed <- tf_closed
PM == INSTANCE PowerMonitor WITH
    Powers <- Readings, pc <- pm_pc, running <- pm_running,
    window <- pm_window, total_samples <- pm_total,
    last_display <- pm_last_display, iterations <- pm_iterations,
    slept <- pm_slept, exit_code <- pm_exit, hist <- pm_hist
WS == INSTANCE WavelengthSweep WITH
    Powers <- Readings, pc <- ws_pc, args <- ws_args, cur <- ws_cur,
    wls <- ws_wls,
    i <- ws_i, points <- ws_points, csv <- ws_csv, ret <- ws_ret
LS == INSTANCE LiveScan WITH
    Readings <- Readings, pc <- ls_pc, k <- ls_k, motor <- ls_motor,
    data <- ls_data, plot_x <- ls_x, plot_y <- ls_y,
    interactive <- ls_interactive, pbar <- ls_pbar, raised <- ls_raised,
    reads <- ls_reads
NW == INSTANCE NotebookWidgets WITH
    DevKinds <- WidgetKinds, dash_i <- nw_dash_i, shown <- nw_shown,
    motor_pos <- nw_motor_pos, slider <- nw_slider, out <- nw_out,
    readout <- nw_readout, returned <- nw_returned

(* Python's None is not one of the daemon's messages.                      *)
ASSUME NoneAssumption == None \notin TF!Msgs

tf == <<tf_srv, tf_pending, tf_sent, tf_gen, tf_pc, tf_outcome, tf_shown,
        tf_last, tf_closed>>
pm == <<pm_pc, pm_running, pm_window, pm_total, pm_last_display,
        pm_iterations, pm_slept, pm_exit, pm_hist>>
ws == <<ws_pc, ws_args, ws_cur, ws_wls, ws_i, ws_points, ws_csv, ws_ret>>
ls == <<ls_pc, ls_k, ls_motor, ls_data, ls_x, ls_y, ls_interactive, ls_pbar,
        ls_raised, ls_reads>>
nw == <<nw_dash_i, nw_shown, nw_motor_pos, nw_slider, nw_out, nw_readout,
        nw_returned>>
vars == <<which, tf, pm, ws, ls, nw>>

(* Every program starts in its initial state; the ones not chosen take    *)
(* one fixed initial state each, so that they add no states.              *)
Init ==
    /\ which \in Programs
    /\ TF!Init /\ PM!Init /\ WS!Init /\ LS!Init /\ NW!Init
    /\ which # "sweep" => ws_args = CHOOSE a \in WS!Args : TRUE
    /\ which # "widgets" => nw_motor_pos = 0

Next ==
    \/ which = "status" /\ TF!StatusNext /\ UNCHANGED <<which, pm, ws, ls, nw>>
    \/ which = "measurements" /\ TF!MeasurementNext
          /\ UNCHANGED <<which, pm, ws, ls, nw>>
    \/ which = "monitor" /\ PM!Next /\ UNCHANGED <<which, tf, ws, ls, nw>>
    \/ which = "sweep" /\ WS!Next /\ UNCHANGED <<which, tf, pm, ls, nw>>
    \/ which = "scan" /\ LS!Next /\ UNCHANGED <<which, tf, pm, ws, nw>>
    \/ which = "widgets" /\ NW!Next /\ UNCHANGED <<which, tf, pm, ws, ls>>

(* continuous_monitor.py is the process's only thread: its own steps are  *)
(* weakly fair, as in PowerMonitor's Spec.                                 *)
Spec == Init /\ [][Next]_vars /\ WF_pm(which = "monitor" /\ PM!MainStep
                                       /\ UNCHANGED <<which, tf, ws, ls, nw>>)

-----------------------------------------------------------------------------
(* The properties of the programs' modules, read on their variables; see  *)
(* each module for what they state about the code.                        *)

(* stream_measurements.py displays each item by its payload kind.          *)
DisplayMatchesPayload == TF!DisplayMatchesPayload

(* continuous_monitor.py's window never exceeds window_size.               *)
MonitorTypeOK == PM!TypeOK

(* The window holds the last readings kept, and only readings kept.       *)
WindowIsRecent == PM!WindowIsRecent

(* After SIGINT's handler ran, main eventually returns.                    *)
StopsAfterInterrupt == PM!StopsAfterInterrupt

(* A sweep that returns 0 saved the whole up-and-back path.               *)
SavedIsSweep == WS!SavedIsSweep

(* live_scan_plot's plot shows exactly the data it stored.                 *)
PlotMatchesData == LS!PlotMatchesData

(* live_scan_plot returns every position with its reading.                 *)
ReturnedData == LS!ReturnedData
=============================================================================

------------------------------ MODULE LiveScan ------------------------------
(***************************************************************************)
(* live_scan_plot and LivePlot of rust_daq/jupyter.py (lines 502-679): a  *)
(* scan that moves a motor through np.linspace(start, stop, steps), reads *)
(* a detector at each position, stores both in a dict keyed by "position" *)
(* and the detector's device_id, extends the live plot and the progress   *)
(* bar, and closes the bar and finalizes the plot in a finally clause.    *)
(*                                                                         *)
(* The k-th position of the linspace is k; a reading is a model value of  *)
(* Readings.  Motor and Detector (rust_daq.devices, not in the            *)
(* repository) are calls that succeed or raise.                           *)
(***************************************************************************)
EXTENDS Naturals, Sequences

CONSTANTS
    Steps,      \* steps, the length of the linspace
    Readings,   \* values detector.read() can return
    DetId,      \* detector.device_id
    Backend,    \* "matplotlib" or "plotly"
    HasTqdm     \* HAS_TQDM_NOTEBOOK


(* The keys of the dict of line 647; one key when DetId = "position".     *)
Keys == {"position", DetId}

VARIABLES
    pc,           \* "start", "move", "read", "finally", "returned", "raised"
    k,            \* index of pos in positions
    motor,        \* the motor's position (0: where it was before the scan)
    data,         \* the dict of line 647
    plot_x,       \* plot.x_data
    plot_y,       \* plot.y_data
    interactive,  \* matplotlib's interactive mode (plt.ion / plt.ioff)
    pbar,         \* "none", "open", "closed"
    raised,       \* an exception is propagating through the finally
    reads         \* every value detector.read() returned, in order

vars == <<pc, k, motor, data, plot_x, plot_y, interactive, pbar, raised, reads>>

TypeOK ==
    /\ pc \in {"start", "move", "read", "finally", "returned", "raised"}
    /\ k \in 1..Steps + 1 /\ motor \in 0..Steps
    /\ data \in [Keys -> Seq((1..Steps) \cup Readings)]
    /\ plot_x \in Seq(1..Steps) /\ plot_y \in Seq(Readings)
    /\ interactive \in BOOLEAN /\ pbar \in {"none", "open", "closed"}
    /\ raised \in BOOLEAN /\ reads \in Seq(Readings)

Init ==
    /\ pc = "start" /\ k = 1 /\ motor = 0
    /\ data = [key \in Keys |-> <<>>]
    /\ plot_x = <<>> /\ plot_y = <<>>
    /\ interactive = FALSE /\ pbar = "none" /\ raised = FALSE /\ reads = <<>>

(* LivePlot(...) with _init_matplotlib or _init_plotly, the storage dict  *)
(* and the progress bar (lines 529-571, 641-653).                         *)
StartScan ==
    /\ pc = "start"
    /\ interactive' = (Backend = "matplotlib")
    /\ pbar' = IF HasTqdm THEN "open" ELSE "none"
    /\ pc' = "move"
    /\ UNCHANGED <<k, motor, data, plot_x, plot_y, raised, reads>>

(* Mutant: the loop stops one position early.                             *)
MoveOffByOne ==
    /\ pc = "move"
    /\ \/ k < Steps /\ motor' = k /\ pc' = "read" /\ UNCHANGED raised
       \/ k < Steps /\ pc' = "finally" /\ raised' = TRUE /\ UNCHANGED motor
       \/ k >= Steps /\ pc' = "finally" /\ UNCHANGED <<motor, raised>>
    /\ UNCHANGED <<k, data, plot_x, plot_y, interactive, pbar, reads>>

(* for pos in positions: motor.position = pos, which may raise, then the  *)
(* dwell (lines 656-660); the loop ends after the last position.          *)
Move ==
    /\ pc = "move"
    /\ \/ k <= Steps /\ motor' = k /\ pc' = "read" /\ UNCHANGED raised
       \/ k <= Steps /\ pc' = "finally" /\ raised' = TRUE /\ UNCHANGED motor
       \/ k > Steps /\ pc' = "finally" /\ UNCHANGED <<motor, raised>>
    /\ UNCHANGED <<k, data, plot_x, plot_y, interactive, pbar, reads>>

(* Mutant: the position is stored before detector.read(), which raises.   *)
ReadFailsAfterStore ==
    /\ pc = "read"
    /\ data' = [data EXCEPT !["position"] = Append(@, k)]
    /\ pc' = "finally" /\ raised' = TRUE
    /\ UNCHANGED <<k, motor, plot_x, plot_y, interactive, pbar, reads>>

(* detector.read() raises (line 661).                                     *)
ReadFails ==
    /\ pc = "read"
    /\ pc' = "finally" /\ raised' = TRUE
    /\ UNCHANGED <<k, motor, data, plot_x, plot_y, interactive, pbar, reads>>

(* value = detector.read(), the two appends to data, plot.update and      *)
(* pbar.update (lines 661-672).  The appends go one after the other to    *)
(* data["position"] and data[device_id], the same list when the two keys  *)
(* are equal.                                                              *)
ReadAndRecord ==
    /\ pc = "read"
    /\ \E v \in Readings :
          LET d1 == [data EXCEPT !["position"] = Append(@, k)]
          IN  /\ data' = [d1 EXCEPT ![DetId] = Append(@, v)]
              /\ plot_y' = Append(plot_y, v)
              /\ reads' = Append(reads, v)
    /\ plot_x' = Append(plot_x, k)
    /\ k' = k + 1 /\ pc' = "move"
    /\ UNCHANGED <<motor, interactive, pbar, raised>>

(* finally: `if pbar: pbar.close()`, where tqdm's truth value is         *)
(* total > 0, so a bar of total=steps=0 is left open; then plot.finalize(),*)
(* which leaves interactive mode for matplotlib (lines 595-599, 674-677); *)
(* then data is returned or the exception goes on.                         *)
Finally ==
    /\ pc = "finally"
    /\ pbar' = IF pbar = "open" /\ Steps > 0 THEN "closed" ELSE pbar
    /\ interactive' = (interactive /\ Backend # "matplotlib")
    /\ pc' = IF raised THEN "raised" ELSE "returned"
    /\ UNCHANGED <<k, motor, data, plot_x, plot_y, raised, reads>>

Next == StartScan \/ Move \/ ReadFails \/ ReadAndRecord \/ Finally

Spec == Init /\ [][Next]_vars

-----------------------------------------------------------------------------
(* At the head of every iteration and after the scan, the live plot shows *)
(* exactly the data the dict holds, whichever call raised (lines 658-668). *)
PlotMatchesData ==
    pc \in {"move", "returned", "raised"} =>
        /\ data["position"] = plot_x
        /\ data[DetId] = plot_y

(* The docstring: the scan returns its data, one position and one reading *)
(* per step: data["position"] is the whole linspace, in order, and        *)
(* data[device_id] the readings taken there (lines 644-679).              *)
ReturnedData ==
    pc = "returned" =>
        /\ data["position"] = [i \in 1..Steps |-> i]
        /\ data[DetId] = reads
=============================================================================

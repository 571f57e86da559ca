--------------------------- MODULE NotebookWidgets ---------------------------
(***************************************************************************)
(* dashboard, create_motor_slider and create_detector_display of          *)
(* rust_daq/jupyter.py (lines 317-494): dashboard builds one widget per   *)
(* device in order and displays the box; afterwards the kernel runs the   *)
(* slider's observer and the Read button's handler one at a time, as the  *)
(* user drags and clicks.  ipywidgets calls an observer of "value" only   *)
(* when the value changes.                                                *)
(*                                                                         *)
(* Motor and Detector (rust_daq.devices, not in the repository) are       *)
(* property reads and writes that succeed or raise.  Positions and        *)
(* readings are small numbers; 0 is also the 0.0 the code falls back to.  *)
(***************************************************************************)
EXTENDS Naturals, Sequences

CONSTANTS
    DevKinds,   \* the devices passed to dashboard, by kind, in order
    Positions,  \* positions the motor can be at / the slider can be set to
    DetValues,  \* values detector.read() can return
    None


VARIABLES
    dash_i,     \* index of the device dashboard is building a widget for
    shown,      \* display(dashboard_widget) has run
    motor_pos,  \* where the motor is
    slider,     \* the FloatSlider's value, None before it exists
    out,        \* what the Output widget shows: "", "moved", "error"
    readout,    \* the FloatText's value, None before it exists
    returned    \* values detector.read() has returned

vars == <<dash_i, shown, motor_pos, slider, out, readout, returned>>

TypeOK ==
    /\ dash_i \in 1..Len(DevKinds) + 1 /\ shown \in BOOLEAN
    /\ motor_pos \in Positions /\ slider \in Positions \cup {None}
    /\ out \in {"", "moved", "error"}
    /\ readout \in DetValues \cup {0, None} /\ returned \subseteq DetValues

Init ==
    /\ dash_i = 1 /\ shown = FALSE
    /\ motor_pos \in Positions /\ slider = None /\ out = ""
    /\ readout = None /\ returned = {}

Building(kind) == dash_i <= Len(DevKinds) /\ DevKinds[dash_i] = kind

(* create_motor_slider (lines 340-378): the slider starts at               *)
(* motor.position, or at 0.0 when reading the motor's info raised.        *)
CreateMotorSlider ==
    /\ Building("motor")
    /\ \/ slider' = motor_pos
       \/ slider' = 0
    /\ dash_i' = dash_i + 1
    /\ UNCHANGED <<shown, motor_pos, out, readout, returned>>

(* update_value (lines 421-427): readout.value = detector.read(), or a    *)
(* warning and the readout unchanged when the read raises.                *)
UpdateValue(ro) ==
    \/ \E v \in DetValues : readout' = v /\ returned' = returned \cup {v}
    \/ readout' = ro /\ UNCHANGED returned

(* create_detector_display (lines 405-434): a readout of 0.0, then the    *)
(* initial update_value().                                                 *)
CreateDetectorDisplay ==
    /\ Building("detector")
    /\ UpdateValue(0)
    /\ dash_i' = dash_i + 1
    /\ UNCHANGED <<shown, motor_pos, slider, out>>

(* Any other device gets an HTML line (lines 476-480).                    *)
CreateOther ==
    /\ Building("other")
    /\ dash_i' = dash_i + 1
    /\ UNCHANGED <<shown, motor_pos, slider, out, readout, returned>>

(* The separator, the VBox and display (lines 485-494).                   *)
ShowDashboard ==
    /\ dash_i = Len(DevKinds) + 1 /\ ~shown
    /\ shown' = TRUE
    /\ UNCHANGED <<dash_i, motor_pos, slider, out, readout, returned>>

(* The user releases the slider at p: the value changes and on_change     *)
(* sets motor.position = change["new"], printing success, or the error    *)
(* when the write raises (lines 365-376).                                  *)
OnChange(p) ==
    /\ shown /\ slider # None /\ p # slider
    /\ slider' = p
    /\ \/ motor_pos' = p /\ out' = "moved"
       \/ out' = "error" /\ UNCHANGED motor_pos
    /\ UNCHANGED <<dash_i, shown, readout, returned>>

(* The Read button (line 429).                                             *)
ClickRead ==
    /\ shown /\ readout # None
    /\ UpdateValue(readout)
    /\ UNCHANGED <<dash_i, shown, motor_pos, slider, out>>

Next ==
    \/ CreateMotorSlider \/ CreateDetectorDisplay \/ CreateOther
    \/ ShowDashboard \/ ClickRead
    \/ \E p \in Positions : OnChange(p)

Spec == Init /\ [][Next]_vars

-----------------------------------------------------------------------------
(* The widgets show the devices' state: a slider whose Output reports no  *)
(* error shows the motor's position, and a readout shows a value the      *)
(* detector returned (lines 341-348, 407-432).                             *)
WidgetsShowDeviceState ==
    /\ (slider # None /\ out # "error") => slider = motor_pos
    /\ readout # None => readout \in returned
=============================================================================

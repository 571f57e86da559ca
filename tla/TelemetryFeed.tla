---------------------------- MODULE TelemetryFeed ----------------------------
(***************************************************************************)
(* The two server-streaming generators of clients/python/daq_client.py,    *)
(* stream_status (lines 134-157) and stream_measurements (159-196), each   *)
(* driven by its example program, examples/stream_status.py and            *)
(* examples/stream_measurements.py: a for loop over the generator inside   *)
(* try / except KeyboardInterrupt / finally client.close().                *)
(*                                                                         *)
(* The daemon side of the call is the environment: it sends messages, ends *)
(* the call normally or breaks it.  gRPC hands the generator the messages  *)
(* received before the end in order, then StopIteration or RpcError.      *)
(* A status message carries nothing a property tells apart; a measurement  *)
(* carries the oneof payload (scalar, image or unset) and whether its      *)
(* value is zero / empty, the case a truthiness test gets wrong.           *)
(***************************************************************************)
EXTENDS Naturals, Sequences

CONSTANTS
    None,       \* Python None
    MaxMsgs     \* messages the daemon sends on the call


(* oneof kind and value: v = 0 is scalar 0.0 or image b''.                 *)
Payloads == [kind : {"scalar", "image", "none"}, v : {0, 1}]
StatusMsg == [kind |-> "status", v |-> 0]
Msgs == Payloads \cup {StatusMsg}

VARIABLES
    srv,        \* the daemon's side of the call: "open", "ended", "failed"
    pending,    \* messages received by the channel, not yet read
    sent,       \* messages the daemon has sent
    gen,        \* the generator: "created", "suspended", "finished"
    pc,         \* main: "loop" (inside try), "finally", "done"
    outcome,    \* how the try ended: "none", "ended", "interrupted"
    shown,      \* the branch of the display the last item took, or None
    last,       \* the message the last displayed item was converted from
    closed      \* client.close() was called

vars == <<srv, pending, sent, gen, pc, outcome, shown, last, closed>>

TypeOK ==
    /\ srv \in {"open", "ended", "failed"}
    /\ pending \in Seq(Msgs) /\ Len(pending) <= MaxMsgs
    /\ sent \in 0..MaxMsgs
    /\ gen \in {"created", "suspended", "finished"}
    /\ pc \in {"loop", "finally", "done"}
    /\ outcome \in {"none", "ended", "interrupted"}
    /\ shown \in {None, "status", "value", "image", "nodata"}
    /\ last \in Msgs \cup {None}
    /\ closed \in BOOLEAN

Init ==
    /\ srv = "open" /\ pending = <<>> /\ sent = 0
    /\ gen = "created" /\ pc = "loop" /\ outcome = "none"
    /\ shown = None /\ last = None /\ closed = FALSE

(* The dict stream_measurements builds from a data_point, lines 177-191.   *)
ConvertMeasurement(m) ==
    [value |-> IF m.kind = "scalar" THEN m.v ELSE None,
     image |-> IF m.kind = "image" THEN m.v ELSE None]

(* Mutant: the display tests data['value'] for truth instead of None.      *)
DisplayTruthy(d) ==
    IF d.value \notin {None, 0} THEN "value"
    ELSE IF d.image # None THEN "image" ELSE "nodata"

(* The branch stream_measurements.py takes on data, lines 41-52.           *)
DisplayMeasurement(d) ==
    IF d.value # None THEN "value"
    ELSE IF d.image # None THEN "image" ELSE "nodata"

-----------------------------------------------------------------------------
(* The daemon.                                                             *)

ServerSend(m) ==
    /\ srv = "open" /\ sent < MaxMsgs
    /\ pending' = Append(pending, m)
    /\ sent' = sent + 1
    /\ UNCHANGED <<srv, gen, pc, outcome, shown, last, closed>>

ServerEnd ==
    /\ srv = "open"
    /\ srv' = "ended"
    /\ UNCHANGED <<pending, sent, gen, pc, outcome, shown, last, closed>>

(* The connection breaks: the call's status becomes an error.              *)
ServerFail ==
    /\ srv = "open"
    /\ srv' = "failed"
    /\ UNCHANGED <<pending, sent, gen, pc, outcome, shown, last, closed>>

-----------------------------------------------------------------------------
(* main.                                                                   *)

(* The for loop asks the generator for an item, which reads the next      *)
(* message and yields its dict; the body displays it.                      *)
YieldStatus ==
    /\ pc = "loop" /\ gen # "finished" /\ pending # <<>>
    /\ gen' = "suspended"
    /\ shown' = "status"
    /\ last' = Head(pending)
    /\ pending' = Tail(pending)
    /\ UNCHANGED <<srv, sent, pc, outcome, closed>>

YieldMeasurement ==
    /\ pc = "loop" /\ gen # "finished" /\ pending # <<>>
    /\ gen' = "suspended"
    /\ shown' = DisplayMeasurement(ConvertMeasurement(Head(pending)))
    /\ last' = Head(pending)
    /\ pending' = Tail(pending)
    /\ UNCHANGED <<srv, sent, pc, outcome, closed>>

(* The call is over and every message read: the gRPC iterator stops, or   *)
(* raises RpcError, which the generator catches, prints and returns from.  *)
(* Either way the for loop of main ends as on a normal end of the data.    *)
GenStop ==
    /\ pc = "loop" /\ gen # "finished" /\ pending = <<>>
    /\ srv = "ended"
    /\ gen' = "finished" /\ pc' = "finally" /\ outcome' = "ended"
    /\ UNCHANGED <<srv, pending, sent, shown, last, closed>>

GenCatchRpcError ==
    /\ pc = "loop" /\ gen # "finished" /\ pending = <<>>
    /\ srv = "failed"
    /\ gen' = "finished" /\ pc' = "finally" /\ outcome' = "ended"
    /\ UNCHANGED <<srv, pending, sent, shown, last, closed>>

(* Ctrl+C: KeyboardInterrupt leaves the loop to its except clause.         *)
Interrupt ==
    /\ pc = "loop"
    /\ pc' = "finally" /\ outcome' = "interrupted"
    /\ UNCHANGED <<srv, pending, sent, gen, shown, last, closed>>

(* finally: client.close().                                                *)
CloseClient ==
    /\ pc = "finally"
    /\ closed' = TRUE /\ pc' = "done"
    /\ UNCHANGED <<srv, pending, sent, gen, outcome, shown, last>>

Server(M) == (\E m \in M : ServerSend(m)) \/ ServerEnd \/ ServerFail
Main == GenStop \/ GenCatchRpcError \/ Interrupt \/ CloseClient

StatusNext == Server({StatusMsg}) \/ YieldStatus \/ Main
MeasurementNext == Server(Payloads) \/ YieldMeasurement \/ Main

StatusSpec == Init /\ [][StatusNext]_vars
MeasurementSpec == Init /\ [][MeasurementNext]_vars

-----------------------------------------------------------------------------
(* Spec 4.2 and 9: the measurement payload is a oneof, and the display    *)
(* stream_measurements.py chooses for an item is the branch of its payload *)
(* kind, also for a scalar 0.0 and an empty image (daq_client.py 183-191,  *)
(* stream_measurements.py 41-52).                                          *)
DisplayMatchesPayload ==
    last \in Payloads =>
        shown = [scalar |-> "value", image |-> "image", none |-> "nodata"][last.kind]

(* Spec 7: a caller must be able to tell "no more data" from "data stopped *)
(* because of a failure".  Once main is done after a broken call it has   *)
(* not concluded that the stream ended normally (daq_client.py 155-157).   *)
FailureDistinguishable ==
    (pc = "done" /\ srv = "failed") => outcome # "ended"
=============================================================================

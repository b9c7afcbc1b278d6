---------------------------- MODULE MCAcquisition ----------------------------
(* Instances of Acquisition for TLC. *)
EXTENDS Acquisition

AllModes == TriggerMode
ContinuousOnly == {[trigger |-> "continuous", manual |-> FALSE]}

(* With two Thresholds, AllImagesTaken fails in this mode.                 *)
ExternalOnly == {[trigger |-> "external", manual |-> FALSE]}
=============================================================================

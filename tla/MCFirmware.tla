-------------------------------- MODULE MCFirmware --------------------------------
(* Instances of Firmware for TLC. *)
EXTENDS Firmware

MCApplications == Uses
MCEnabledPins  == << 4 >>
=============================================================================

----------------------------- MODULE MCDevices ------------------------------
(* Root of the runs about devices: see the cfg files.                      *)
EXTENDS Devices
=============================================================================

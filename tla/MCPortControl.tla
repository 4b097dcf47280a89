--------------------------- MODULE MCPortControl ---------------------------
(* Two ports, one of them kept on by one of the two masks. Voltages are in *)
(* hysteresis bands: one on each side of the thresholds and two between.   *)
EXTENDS PortControl

MCPorts == {1, 2}
MCMasks == {{}, {1}}
MCVolts == 1 .. 5
MCLow   == {2, 4}
MCBatt  == {3}
MCAux   == {2}
=============================================================================

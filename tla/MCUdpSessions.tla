---------------------------- MODULE MCUdpSessions ----------------------------
(* Instance of UdpSessions for TLC.  No symmetry: the run checks liveness.  *)
EXTENDS UdpSessions, TLC
=============================================================================

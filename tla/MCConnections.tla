---------------------------- MODULE MCConnections ----------------------------
(* One version on either side of each bound of setSQLModeParam.              *)
EXTENDS Connections

MCVersions == {50704, 50705, 79999, 80000}
==============================================================================

------------------------------ MODULE MCSandbox -----------------------------
(* Instance of Sandbox for TLC.                                            *)
EXTENDS Sandbox
MCRuns == {1, 2}
MCUids == {20000}
=============================================================================

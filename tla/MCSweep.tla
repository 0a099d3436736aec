------------------------------ MODULE MCSweep -------------------------------
(* Instances of Sweep for TLC.                                             *)
EXTENDS Sweep

MCFleet == <<"registered", "registered", "registered">>

\* The last artifact may be registered while the sweep is at work.
MCGrowing == <<"registered", "registered", "new">>
=============================================================================

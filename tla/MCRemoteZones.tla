---------------------------- MODULE MCRemoteZones ----------------------------
(* Instances of RemoteZones for TLC: one program that may change its server. *)
EXTENDS RemoteZones

CONSTANTS r1, left, right

MCCaller == <<>>
MCZoneLists == {{left}, {left, right}}
=============================================================================

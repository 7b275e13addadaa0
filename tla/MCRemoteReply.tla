---------------------------- MODULE MCRemoteReply ----------------------------
(***************************************************************************)
(* Instances of RemoteReply for TLC: two client programs, one of which     *)
(* calls twice.                                                            *)
(***************************************************************************)
EXTENDS RemoteReply

CONSTANTS c1, c2, c3, r1, r2

MCCaller == [c \in {c1, c2, c3} |-> IF c = c3 THEN r2 ELSE r1]
=============================================================================

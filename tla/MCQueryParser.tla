---------------------------- MODULE MCQueryParser ----------------------------
(* Small instances of QueryParser for TLC. *)
EXTENDS QueryMeaning

CONSTANTS known, unknown, five
=============================================================================

---------------------------- MODULE MCPagingModel ----------------------------
(* Small instances of PagingModel for TLC: five rows and two, in chunks
   of two or three. *)
EXTENDS PagingModel, TLC

CONSTANTS sized, unsized, a1, a2, a3, a4, a5, b1, b2, extra

MCInitialList == sized :> <<a1, a2, a3, a4, a5>> @@ unsized :> <<b1, b2>>
=============================================================================

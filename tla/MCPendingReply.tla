--------------------------- MODULE MCPendingReply ---------------------------
(* Small instances of PendingReply for TLC. *)
EXTENDS PendingReply, TLC

CONSTANTS both, successOnly, failedOnly, script1, script2,
          int1,     \* of the reply's type, without a key
          int2,     \* of the reply's type, with a key
          number,   \* converts to int2
          text,     \* does not convert; no key has its number
          word,     \* does not convert; 0, its number, has a key
          rejected

MCConvert == int1 :> int1 @@ number :> int2 @@ text :> rejected @@ word :> rejected
=============================================================================

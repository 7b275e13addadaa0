--------------------------- MODULE MCServiceManager ---------------------------
(* Small instances of ServiceManager for TLC. *)
EXTENDS ServiceManager, TLC

CONSTANTS rel, dbg, obj, d1, d2

\* d1 and d2 list the release and the debug build of the same plugin in either
\* order.
MCContent == d1 :> <<rel, dbg>> @@ d2 :> <<dbg, rel>>
MCName == [p \in Plugins |-> IF p \in {rel, dbg} THEN "media" ELSE "other"]
MCBase == [p \in Plugins |-> IF p \in {rel, dbg} THEN dbg ELSE p]
MCNone == <<>>

\* The two builds offer the same; the registered object offers one of theirs.
MCImplements == [p \in Plugins |-> IF p = obj THEN {"radio"} ELSE {"media", "radio"}]
=============================================================================

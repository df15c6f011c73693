---------------------------- MODULE MCSseStream ----------------------------
(***************************************************************************)
(* All short texts in all short chunks; and a few long chunks.             *)
(***************************************************************************)
EXTENDS SseStream

ShortChunks == UNION {[1 .. n -> Bytes] : n \in 1 .. 3}

LongChunks == {<<"event", "LF", "LF">>, <<"done", "LF", "LF">>,
               <<"done", "LF", "LF", "text", "text", "text", "text">>}
=============================================================================

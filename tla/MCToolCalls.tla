---------------------------- MODULE MCToolCalls ----------------------------
(***************************************************************************)
(* Clients of one session: two submissions whose batches overlap, as when  *)
(* a client repeats a call it gave up on, with a host to be asked in the   *)
(* second, a verdict, a finish and a read without the mutex.  A second     *)
(* session is never opened.                                                *)
(***************************************************************************)
EXTENDS ToolCalls

CONSTANTS s1, s2, i1, i2

Calls == {"start", "submit", "retry", "resolve", "finish", "similar"}

MCSession == {s1, s2}
MCItem    == {i1, i2}

MCTool == [c \in Calls |-> IF c = "retry" THEN "submit" ELSE c]

MCTarget == [c \in Calls |-> s1]

MCBatch == [c \in Calls |-> CASE c = "submit" -> <<i1, i2>>
                             [] c = "retry"  -> <<i2>>
                             [] OTHER        -> << >>]

MCSamples == {"retry"}

=============================================================================

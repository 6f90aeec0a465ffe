------------------------------ MODULE RcvStream -----------------------------
(***************************************************************************)
(* What the TCP input path promises the application on one connection:     *)
(* the peer's bytes are handed up in order, each exactly once, and the end *)
(* of the stream is signalled only after the last byte, or the connection  *)
(* goes away (reset or aborted) and nothing more is handed up.  One input  *)
(* call may hand up several segments' worth of bytes, the EOF and then     *)
(* lose the connection, so a single step may do all three.                 *)
(***************************************************************************)
EXTENDS Integers, Sequences

CONSTANT Stream     \* the bytes the peer sent, in order

VARIABLES
    delivered,      \* bytes handed to the application so far
    finSignalled,   \* end of stream signalled
    open            \* the connection still exists

vars == <<delivered, finSignalled, open>>

Remaining == Len(Stream) - Len(delivered)

Init ==
    /\ delivered = <<>>
    /\ finSignalled = FALSE
    /\ open = TRUE

\* Hand up the next k bytes, then possibly the EOF, then possibly go away.
Step(k, f, c) ==
    /\ open
    /\ k > 0 \/ f \/ c
    /\ k > 0 => ~finSignalled
    /\ f => ~finSignalled /\ k = Remaining
    /\ delivered' = SubSeq(Stream, 1, Len(delivered) + k)
    /\ finSignalled' = (finSignalled \/ f)
    /\ open' = ~c

Next == \E k \in 0..Remaining, f, c \in BOOLEAN : Step(k, f, c)

Spec == Init /\ [][Next]_vars

=============================================================================

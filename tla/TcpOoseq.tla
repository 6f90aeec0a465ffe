------------------------------ MODULE TcpOoseq ------------------------------
(***************************************************************************)
(* The out-of-order queue manager of tcp_receive(): where an in-window     *)
(* segment that is not the next in sequence is placed on pcb->ooseq, and   *)
(* how it and its neighbours are trimmed (tcp_oos_insert_segment and the   *)
(* walk over ->ooseq in the out-of-sequence branch of tcp_receive).        *)
(*                                                                         *)
(* The queue is a sequence of segments, head first.  copyOk is the outcome *)
(* of tcp_seg_copy(), which returns NULL when no segment can be allocated. *)
(***************************************************************************)
EXTENDS TcpSeg

LOCAL SX == INSTANCE SequencesExt

\* Mutation: cseg is not trimmed against the first segment it overlaps.
tcp_oos_insert_segment_notrim(cseg, next) ==
    IF cseg.fin
    THEN <<cseg>>
    ELSE LET k == SX!SelectInSeq(next, LAMBDA n : ~TCP_SEQ_GEQ(SegEnd(cseg), SegEnd(n)))
         IN <<cseg>> \o (IF k = 0 THEN <<>> ELSE SubSeq(next, k, Len(next)))

(***************************************************************************)
(* tcp_oos_insert_segment(pcb, cseg, next): cseg is linked in front of the *)
(* list next.  A FIN segment frees every following segment; otherwise the  *)
(* following segments that cseg covers are freed (their FIN copied onto    *)
(* cseg) and cseg is trimmed to end where the first remaining one starts.  *)
(***************************************************************************)
tcp_oos_insert_segment(cseg, next) ==
    IF cseg.fin
    THEN <<cseg>>
    ELSE LET covered(n) == TCP_SEQ_GEQ(SegEnd(cseg), SegEnd(n))
             k == SX!SelectInSeq(next, LAMBDA n : ~covered(n))
             rest == IF k = 0 THEN <<>> ELSE SubSeq(next, k, Len(next))
             freed == SubSeq(next, 1, Len(next) - Len(rest))
             c1 == [cseg EXCEPT !.fin = @ \/ \E i \in 1..Len(freed) : freed[i].fin]
             c2 == IF rest # <<>> /\ TCP_SEQ_GT(SegEnd(c1), rest[1].seqno)
                   THEN [c1 EXCEPT !.len = SeqSub(rest[1].seqno, c1.seqno)]
                   ELSE c1
         IN <<c2>> \o rest

\* Mutation: the operands of the subtraction swapped (seqno - s).
TrimTail_swapped(seg, s) == [seg EXCEPT !.len = SeqSub(seg.seqno, s)]

\* Shorten seg so that it ends at sequence number s (prev->len = s - seqno).
TrimTail(seg, s) == [seg EXCEPT !.len = SeqSub(s, seg.seqno)]

(***************************************************************************)
(* The walk "for (next = pcb->ooseq; next != NULL; next = next->next)" of  *)
(* tcp_receive() for a non-empty queue q.  At step i (next = q[i], prev =  *)
(* q[i-1]) the walk stops when the incoming segment                        *)
(*   SameStart:  starts where next starts;                                 *)
(*   Before:     (no prev) starts before next;                             *)
(*   Between:    starts strictly between prev and next;                    *)
(*   After:      next is the last segment and it starts after next.        *)
(***************************************************************************)
SameStart(q, i, s) == s = q[i].seqno
Before(q, i, s)    == i = 1 /\ TCP_SEQ_LT(s, q[1].seqno)
Between(q, i, s)   == i > 1 /\ TCP_SEQ_BETWEEN(s, SeqAdd(q[i-1].seqno, 1),
                                                  SeqSub(q[i].seqno, 1))
After(q, i, s)     == i = Len(q) /\ TCP_SEQ_GT(s, q[i].seqno)
StopsAt(q, i, s) ==
    SameStart(q, i, s) \/ Before(q, i, s) \/ Between(q, i, s) \/ After(q, i, s)

(***************************************************************************)
(* The appended copy, trimmed to the receive window when it overruns it    *)
(* (and its FIN dropped, the trimmed byte being the FIN's).                *)
(***************************************************************************)
WindowTrim(cseg, tcplen, rcv_nxt, rcv_wnd) ==
    LET edge == SeqAdd(rcv_nxt, rcv_wnd)
    IN IF TCP_SEQ_GT(SeqAdd(cseg.seqno, tcplen), edge)
       THEN [cseg EXCEPT !.fin = FALSE, !.len = SeqSub(edge, cseg.seqno)]
       ELSE cseg

(***************************************************************************)
(* The queue after the out-of-sequence branch of tcp_receive() has placed  *)
(* inseg (with in_data->tcplen = tcplen) on the queue q.                   *)
(***************************************************************************)
OoseqInsert(q, inseg, tcplen, rcv_nxt, rcv_wnd, copyOk) ==
    LET s == inseg.seqno
        i == SX!SelectInSeq([j \in 1..Len(q) |-> j], LAMBDA j : StopsAt(q, j, s))
    IN CASE q = <<>> ->
                IF copyOk THEN <<inseg>> ELSE q
         [] i = 0 -> q
         [] SameStart(q, i, s) ->
                IF inseg.len > q[i].len /\ copyOk
                THEN SubSeq(q, 1, i - 1)
                       \o tcp_oos_insert_segment(inseg, SubSeq(q, i, Len(q)))
                ELSE q
         [] Before(q, i, s) ->
                IF copyOk THEN tcp_oos_insert_segment(inseg, q) ELSE q
         [] Between(q, i, s) ->
                LET prev == q[i-1]
                    prev1 == IF TCP_SEQ_GT(SegEnd(prev), s) THEN TrimTail(prev, s)
                             ELSE prev
                IN IF copyOk
                   THEN SubSeq(q, 1, i - 2) \o <<prev1>>
                          \o tcp_oos_insert_segment(inseg, SubSeq(q, i, Len(q)))
                   ELSE q
         [] OTHER ->
                \* After: append at the tail unless the tail carries the FIN.
                LET last == q[i]
                    last1 == IF TCP_SEQ_GT(SegEnd(last), s) THEN TrimTail(last, s)
                             ELSE last
                IN IF last.fin \/ ~copyOk
                   THEN q
                   ELSE SubSeq(q, 1, i - 1) \o <<last1,
                          WindowTrim(inseg, tcplen, rcv_nxt, rcv_wnd)>>

=============================================================================

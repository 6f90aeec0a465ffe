------------------------------ MODULE TcpShrink -----------------------------
(***************************************************************************)
(* The retransmit-queue shrinker of src/src/core/lwip/tcp_in.c:            *)
(* tcp_shrink_segment(), tcp_shrink_zc_segment() and                       *)
(* ack_partial_or_whole_segment(), which take the bytes a cumulative ACK   *)
(* covers off the head of pcb->unacked or pcb->unsent.                     *)
(*                                                                         *)
(* A queued send segment is a record                                       *)
(*   seqno   seg->seqno                                                    *)
(*   len     seg->len (payload bytes)                                      *)
(*   p       the pbuf chain seg->p as the list of payload bytes each pbuf  *)
(*           holds; for a segment built by tcp_write the first pbuf also   *)
(*           holds the TCP header and options, which are not counted       *)
(*   fin     TCP_FIN in seg->tcp_flags                                     *)
(*   syn     TCP_SYN in seg->tcp_flags                                     *)
(*   zc      TF_SEG_OPTS_ZEROCOPY in seg->flags                            *)
(* Both functions return [seg |-> .., count |-> number of freed pbufs].    *)
(***************************************************************************)
EXTENDS TcpSeg

\* TCP_SEGLEN(seg): payload plus one unit for SYN or FIN.
TCP_SEGLEN(seg) == seg.len + (IF seg.fin \/ seg.syn THEN 1 ELSE 0)

\* Sequence number one past the sequence space of a send segment.
SndSegEnd(seg) == SeqAdd(seg.seqno, TCP_SEGLEN(seg))

\* LWIP_TCP_OPT_LENGTH(TF_SEG_OPTS_TS): the timestamp option takes 12 bytes.
OptLen(timestamps) == IF timestamps THEN 12 ELSE 0

\* "len &= 0xfffffffc" when options are present (aligned options area).
Align(len, optlen) == IF optlen > 0 THEN (len \div 4) * 4 ELSE len

\* Mutation: the length shrinks but seqno stays.
Advance_noseq(seg, len) == [seg EXCEPT !.len = @ - len]

\* Take len acknowledged bytes off the front of seg (seg->len, seg->seqno).
Advance(seg, len) == [seg EXCEPT !.len = @ - len, !.seqno = SeqAdd(@, len)]

(***************************************************************************)
(* tcp_shrink_segment(), "Just shrink first pbuf": the ACK falls inside    *)
(* the payload of the first pbuf.                                          *)
(***************************************************************************)
ShrinkFirst(seg, ackno, optlen) ==
    LET len == Align(SeqSub(ackno, seg.seqno), optlen)
    IN [Advance(seg, len) EXCEPT !.p[1] = @ - len]

\* "Process more than first pbuf": the first pbuf keeps only the header.
StripFirst(seg) == [Advance(seg, seg.p[1]) EXCEPT !.p[1] = 0]

\* Mutation: the pbufs freed in the loop are not counted.
RECURSIVE FreeCovered_nocount(_, _)
FreeCovered_nocount(r, ackno) ==
    IF Len(r.seg.p) > 1 /\ ~TCP_SEQ_GT(SeqAdd(r.seg.seqno, r.seg.p[2]), ackno)
    THEN FreeCovered_nocount(
            [seg |-> [Advance(r.seg, r.seg.p[2]) EXCEPT !.p = <<@[1]>> \o Tail(Tail(@))],
             count |-> r.count], ackno)
    ELSE r

(***************************************************************************)
(* The loop "while (cur_p)": every following pbuf the ACK covers entirely  *)
(* is unlinked and freed.                                                  *)
(***************************************************************************)
RECURSIVE FreeCovered(_, _)
FreeCovered(r, ackno) ==
    IF Len(r.seg.p) > 1 /\ ~TCP_SEQ_GT(SeqAdd(r.seg.seqno, r.seg.p[2]), ackno)
    THEN FreeCovered(
            [seg |-> [Advance(r.seg, r.seg.p[2]) EXCEPT !.p = <<@[1]>> \o Tail(Tail(@))],
             count |-> r.count + 1], ackno)
    ELSE r

(***************************************************************************)
(* "if (cur_p)": the first pbuf not wholly acknowledged loses its          *)
(* acknowledged bytes, takes the header and becomes seg->p; the old first  *)
(* pbuf, which held only the header, is freed.                             *)
(***************************************************************************)
TrimCur(r, ackno, optlen) ==
    IF Len(r.seg.p) > 1
    THEN LET len == Align(SeqSub(ackno, r.seg.seqno), optlen)
         IN [seg |-> [Advance(r.seg, len) EXCEPT !.p = <<@[2] - len>> \o Tail(Tail(@))],
             count |-> r.count + 1]
    ELSE r

tcp_shrink_segment(seg, ackno, optlen) ==
    IF TCP_SEQ_GT(SeqAdd(seg.seqno, seg.p[1]), ackno)
    THEN [seg |-> ShrinkFirst(seg, ackno, optlen), count |-> 0]
    ELSE TrimCur(FreeCovered([seg |-> IF Len(seg.p) > 1 THEN StripFirst(seg) ELSE seg,
                              count |-> 0], ackno), ackno, optlen)

(***************************************************************************)
(* tcp_shrink_zc_segment(): whole pbufs the ACK covers are freed from the  *)
(* front; the first remaining one only moves its payload pointer.  The     *)
(* code asserts that a pbuf remains.                                       *)
(***************************************************************************)
RECURSIVE ZcFree(_, _)
ZcFree(r, ackno) ==
    IF Len(r.seg.p) > 1 /\ TCP_SEQ_GEQ(ackno, SeqAdd(r.seg.seqno, r.seg.p[1]))
    THEN ZcFree([seg |-> [Advance(r.seg, r.seg.p[1]) EXCEPT !.p = Tail(@)],
                 count |-> r.count + 1], ackno)
    ELSE r

ZcTrim(r, ackno) ==
    IF TCP_SEQ_GT(ackno, r.seg.seqno)
    THEN LET len == SeqSub(ackno, r.seg.seqno)
         IN [r EXCEPT !.seg = [Advance(@, len) EXCEPT !.p[1] = @ - len]]
    ELSE r

tcp_shrink_zc_segment(seg, ackno) == ZcTrim(ZcFree([seg |-> seg, count |-> 0], ackno), ackno)

\* The partial trim, by the kind of segment.
Shrink(seg, ackno, optlen) ==
    IF seg.zc THEN tcp_shrink_zc_segment(seg, ackno)
    ELSE tcp_shrink_segment(seg, ackno, optlen)

(***************************************************************************)
(* ack_partial_or_whole_segment(pcb, ackno, &q): from the head of q, every *)
(* segment the ACK covers is freed (its pbufs leave snd_queuelen, and an   *)
(* acknowledged FIN is taken out of pcb->acked so that it produces no sent *)
(* event); the first segment covered only in part is shrunk, unless it     *)
(* carries the FIN.  Returns [pcb |-> .., q |-> ..].                       *)
(***************************************************************************)
\* Mutation: an acknowledged FIN is not taken out of pcb->acked.
RECURSIVE AckSegments_nofin(_, _, _)
AckSegments_nofin(pcb, ackno, q) ==
    CASE q = <<>> \/ ~TCP_SEQ_GT(ackno, Head(q).seqno) ->
            [pcb |-> pcb, q |-> q]
      [] TCP_SEQ_LT(ackno, SndSegEnd(Head(q))) /\ Head(q).fin ->
            [pcb |-> pcb, q |-> q]
      [] TCP_SEQ_LT(ackno, SndSegEnd(Head(q))) ->
            LET s == Shrink(Head(q), ackno, OptLen(pcb.timestamps))
            IN [pcb |-> [pcb EXCEPT !.snd_queuelen = @ - s.count],
                q |-> <<s.seg>> \o Tail(q)]
      [] OTHER ->
            AckSegments_nofin([pcb EXCEPT !.snd_queuelen = @ - Len(Head(q).p)],
                              ackno, Tail(q))

RECURSIVE AckSegments(_, _, _)
AckSegments(pcb, ackno, q) ==
    CASE q = <<>> \/ ~TCP_SEQ_GT(ackno, Head(q).seqno) ->
            [pcb |-> pcb, q |-> q]
      [] TCP_SEQ_LT(ackno, SndSegEnd(Head(q))) /\ Head(q).fin ->
            [pcb |-> pcb, q |-> q]
      [] TCP_SEQ_LT(ackno, SndSegEnd(Head(q))) ->
            LET s == Shrink(Head(q), ackno, OptLen(pcb.timestamps))
            IN [pcb |-> [pcb EXCEPT !.snd_queuelen = @ - s.count],
                q |-> <<s.seg>> \o Tail(q)]
      [] OTHER ->
            AckSegments([pcb EXCEPT !.acked = IF @ # 0 /\ Head(q).fin THEN @ - 1 ELSE @,
                                    !.snd_queuelen = @ - Len(Head(q).p)],
                        ackno, Tail(q))

=============================================================================

----------------------------- MODULE TcpReceive -----------------------------
(***************************************************************************)
(* tcp_receive() of src/src/core/lwip/tcp_in.c, data half: left-edge trim, *)
(* the window check, in-sequence delivery with reconciliation against      *)
(* ->ooseq and draining of ->ooseq, and out-of-sequence queueing (module   *)
(* TcpOoseq).                                                              *)
(*                                                                         *)
(* Written as operators from (pcb, in) to [pcb |-> .., in |-> ..], where   *)
(* pcb is the tcp_pcb record and in the per-call tcp_in_data record:       *)
(*   in.seqno, in.tcplen   in_data->seqno, in_data->tcplen                 *)
(*   in.inseg              in_data->inseg (a segment of TcpSeg)            *)
(*   in.recv_data          the pbuf chain for the application: one entry   *)
(*                         (the bytes of one segment) per chained pbuf     *)
(*   in.recv_flags         subset of {"GOT_FIN"} (TF_GOT_FIN)               *)
(***************************************************************************)
EXTENDS TcpOoseq

\* tcp_ack_now(pcb): pcb->flags |= TF_ACK_NOW.
tcp_ack_now(pcb) == [pcb EXCEPT !.flags = @ \cup {"ACK_NOW"}]

\* tcp_ack(pcb): a second delayed ACK turns into an immediate one.
tcp_ack(pcb) ==
    IF "ACK_DELAY" \in pcb.flags
    THEN [pcb EXCEPT !.flags = (@ \ {"ACK_DELAY"}) \cup {"ACK_NOW"}]
    ELSE [pcb EXCEPT !.flags = @ \cup {"ACK_DELAY"}]

\* tcp_quickack(): pcb->quickack (build without TCP_QUICKACK_THRESHOLD).
tcp_quickack(pcb, in) == pcb.quickack

\* Mutation: off by one at the right edge of the window.
WndLast_short(pcb) == SeqSub(SeqAdd(pcb.rcv_nxt, pcb.rcv_wnd), 2)

\* Last sequence number inside the receive window: rcv_nxt + rcv_wnd - 1.
WndLast(pcb) == SeqSub(SeqAdd(pcb.rcv_nxt, pcb.rcv_wnd), 1)

R(pcb, in) == [pcb |-> pcb, in |-> in]

(***************************************************************************)
(* Remove the ->ooseq segments that inseg covers, copying a FIN they carry *)
(* onto inseg ("while (next && TCP_SEQ_GEQ(seqno + tcplen, ...))").        *)
(***************************************************************************)
RECURSIVE DropCovered(_, _)
DropCovered(seg, q) ==
    IF q # <<>> /\ TCP_SEQ_GEQ(SeqAdd(seg.seqno, TCP_TCPLEN(seg)), SegEnd(Head(q)))
    THEN DropCovered([seg EXCEPT !.fin = @ \/ Head(q).fin], Tail(q))
    ELSE [seg |-> seg, q |-> q]

(***************************************************************************)
(* In-sequence segment, first part: trim to the window ("other end overran *)
(* receive window"), dropping the FIN whose byte is cut.                   *)
(***************************************************************************)
WindowFit(pcb, seg) ==
    IF TCP_TCPLEN(seg) > pcb.rcv_wnd
    THEN [seg EXCEPT !.fin = FALSE, !.len = pcb.rcv_wnd]
    ELSE seg

\* After DropCovered: trim inseg to end where the first remaining one starts.
TrimToHead(d) ==
    IF d.q # <<>> /\ TCP_SEQ_GT(SeqAdd(d.seg.seqno, TCP_TCPLEN(d.seg)), d.q[1].seqno)
    THEN [d EXCEPT !.seg = [@ EXCEPT !.len = SeqSub(d.q[1].seqno, d.seg.seqno)]]
    ELSE d

\* Reconcile inseg with ->ooseq q: an in-order FIN bins the queue.
Reconcile(seg, q) ==
    CASE q = <<>> \/ seg.fin -> [seg |-> seg, q |-> <<>>]
      [] OTHER               -> TrimToHead(DropCovered(seg, q))

\* Mutation: rcv_wnd shrunk by the tcplen computed before the segment was trimmed.
Accept_staletcplen(pcb, in, d) ==
    R([pcb EXCEPT !.ooseq   = d.q,
                  !.rcv_nxt = SeqAdd(in.seqno, TCP_TCPLEN(d.seg)),
                  !.rcv_wnd = WndSub(@, in.tcplen)],
      [in EXCEPT !.inseg  = d.seg,
                 !.tcplen = TCP_TCPLEN(d.seg),
                 !.recv_data = IF d.seg.len > 0 THEN <<SegBytes(d.seg)>> ELSE <<>>,
                 !.recv_flags = IF d.seg.fin THEN @ \cup {"GOT_FIN"} ELSE @])

(***************************************************************************)
(* Second part, for the reconciled segment d.seg and queue d.q: advance    *)
(* rcv_nxt, shrink rcv_wnd, hand the payload over and note the FIN.        *)
(***************************************************************************)
Accept(pcb, in, d) ==
    R([pcb EXCEPT !.ooseq   = d.q,
                  !.rcv_nxt = SeqAdd(in.seqno, TCP_TCPLEN(d.seg)),
                  !.rcv_wnd = WndSub(@, TCP_TCPLEN(d.seg))],
      [in EXCEPT !.inseg  = d.seg,
                 !.tcplen = TCP_TCPLEN(d.seg),
                 !.recv_data = IF d.seg.len > 0 THEN <<SegBytes(d.seg)>> ELSE <<>>,
                 !.recv_flags = IF d.seg.fin THEN @ \cup {"GOT_FIN"} ELSE @])

InSeqAccept(pcb, in) ==
    Accept(pcb, in, Reconcile(WindowFit(pcb, in.inseg), pcb.ooseq))

\* Mutation: the dequeued pbuf replaces recv_data instead of being chained on.
DrainStep_nochain(r, c) ==
    R([r.pcb EXCEPT !.rcv_nxt = SeqAdd(@, TCP_TCPLEN(c)),
                    !.rcv_wnd = WndSub(@, TCP_TCPLEN(c)),
                    !.state   = IF c.fin /\ @ = "ESTABLISHED" THEN "CLOSE_WAIT" ELSE @,
                    !.ooseq   = Tail(@)],
      [r.in EXCEPT !.seqno = c.seqno,
                   !.recv_data = IF c.len > 0 THEN <<SegBytes(c)>> ELSE @,
                   !.recv_flags = IF c.fin THEN @ \cup {"GOT_FIN"} ELSE @])

(***************************************************************************)
(* Third part: "while (pcb->ooseq != NULL && pcb->ooseq->tcphdr->seqno ==  *)
(* pcb->rcv_nxt)" chains the queued segments that became in sequence onto  *)
(* recv_data.                                                              *)
(***************************************************************************)
DrainStep(r, c) ==
    R([r.pcb EXCEPT !.rcv_nxt = SeqAdd(@, TCP_TCPLEN(c)),
                    !.rcv_wnd = WndSub(@, TCP_TCPLEN(c)),
                    !.state   = IF c.fin /\ @ = "ESTABLISHED" THEN "CLOSE_WAIT" ELSE @,
                    !.ooseq   = Tail(@)],
      [r.in EXCEPT !.seqno = c.seqno,
                   !.recv_data = IF c.len > 0 THEN Append(@, SegBytes(c)) ELSE @,
                   !.recv_flags = IF c.fin THEN @ \cup {"GOT_FIN"} ELSE @])

RECURSIVE DrainOoseq(_)
DrainOoseq(r) ==
    IF r.pcb.ooseq # <<>> /\ Head(r.pcb.ooseq).seqno = r.pcb.rcv_nxt
    THEN DrainOoseq(DrainStep(r, Head(r.pcb.ooseq)))
    ELSE r

\* Last part: ACK at once when several pbufs were chained or in quickack mode.
AckInSeq(r) ==
    R(IF Len(r.in.recv_data) > 1 \/ tcp_quickack(r.pcb, r.in)
      THEN tcp_ack_now(r.pcb) ELSE tcp_ack(r.pcb),
      r.in)

\* The in-sequence branch.
InSeq(pcb, in) == Then(DrainOoseq(InSeqAccept(pcb, in)), AckInSeq)

(***************************************************************************)
(* The out-of-sequence branch: tcp_send_empty_ack() (an immediate ACK that *)
(* leaves the pcb as it is), then the copy of inseg goes onto ->ooseq.     *)
(***************************************************************************)
OutOfSeq(pcb, in, copyOk) ==
    R([pcb EXCEPT !.ooseq = OoseqInsert(@, in.inseg, in.tcplen,
                                         pcb.rcv_nxt, pcb.rcv_wnd, copyOk)],
      in)

\* Mutation: the length is trimmed but the payload is not advanced (seqno kept).
LeftTrim_noadvance(pcb, in) ==
    IF TCP_SEQ_BETWEEN(pcb.rcv_nxt, SeqAdd(in.seqno, 1),
                       SeqSub(SeqAdd(in.seqno, in.tcplen), 1))
    THEN R(pcb,
           [in EXCEPT !.inseg = [@ EXCEPT !.len = @ - SeqSub(pcb.rcv_nxt, in.seqno)],
                      !.seqno = pcb.rcv_nxt])
    ELSE IF TCP_SEQ_LT(in.seqno, pcb.rcv_nxt)
         THEN R(tcp_ack_now(pcb), in)
         ELSE R(pcb, in)

(***************************************************************************)
(* Left-edge trim: a segment that straddles rcv_nxt loses the prefix that  *)
(* was already received; one wholly below rcv_nxt gets an immediate ACK.   *)
(***************************************************************************)
LeftTrim(pcb, in) ==
    IF TCP_SEQ_BETWEEN(pcb.rcv_nxt, SeqAdd(in.seqno, 1),
                       SeqSub(SeqAdd(in.seqno, in.tcplen), 1))
    THEN R(pcb,
           [in EXCEPT !.inseg = [@ EXCEPT !.len = @ - SeqSub(pcb.rcv_nxt, in.seqno),
                                          !.seqno = pcb.rcv_nxt],
                      !.seqno = pcb.rcv_nxt])
    ELSE IF TCP_SEQ_LT(in.seqno, pcb.rcv_nxt)
         THEN R(tcp_ack_now(pcb), in)
         ELSE R(pcb, in)

\* After the left-edge trim: in-sequence, out-of-sequence or outside the window.
InWindow(t, copyOk) ==
    IF TCP_SEQ_BETWEEN(t.in.seqno, t.pcb.rcv_nxt, WndLast(t.pcb))
    THEN IF t.pcb.rcv_nxt = t.in.seqno
         THEN InSeq(t.pcb, t.in)
         ELSE OutOfSeq(t.pcb, t.in, copyOk)
    ELSE t  \* not within the window: tcp_send_empty_ack()

\* Segment with payload or FIN in a state before CLOSE_WAIT.
DataSegment(pcb, in, copyOk) == Then(LeftTrim(pcb, in), LAMBDA t : InWindow(t, copyOk))

(***************************************************************************)
(* The data half of tcp_receive(): a segment without payload or FIN, or in *)
(* CLOSE_WAIT or a later state, only gets an immediate ACK when it lies    *)
(* outside the window.                                                     *)
(***************************************************************************)
ReceiveData(pcb, in, copyOk) ==
    IF in.tcplen > 0 /\ StateLT(pcb.state, "CLOSE_WAIT")
    THEN DataSegment(pcb, in, copyOk)
    ELSE IF ~TCP_SEQ_BETWEEN(in.seqno, pcb.rcv_nxt, WndLast(pcb))
         THEN R(tcp_ack_now(pcb), in)
         ELSE R(pcb, in)

=============================================================================

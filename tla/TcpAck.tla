------------------------------- MODULE TcpAck -------------------------------
(***************************************************************************)
(* tcp_receive() of src/src/core/lwip/tcp_in.c, ACK half ("if (in_data->   *)
(* flags & TCP_ACK)"): the send-window update, the classification of the   *)
(* ACK as duplicate, new or beyond snd_nxt, duplicate-ACK counting and     *)
(* fast retransmit, and the cumulative trim of ->unacked and ->unsent      *)
(* (module TcpShrink).                                                     *)
(*                                                                         *)
(* The ACK fields of the tcp_in_data record: in.ackno, in.wnd (tcphdr->wnd *)
(* already scaled by SND_WND_SCALE).  The congestion-control hooks         *)
(* (cc_ack_received, cc_post_recovery, cwnd/ssthresh), nrtx, the RTO reset *)
(* and the RTT estimator change only numbers no property here reads and    *)
(* are left out.                                                           *)
(***************************************************************************)
EXTENDS TcpShrink, FiniteSets

CONSTANT DUPACK_SPACE   \* 2^8 for the u8_t pcb->dupacks

ASSUME DUPACK_SPACE \in {2^k : k \in 2..8}

(***************************************************************************)
(* tcp_rexmit() (tcp_out.c): the first ->unacked segment moves to ->unsent *)
(* at its place in sequence order; tcp_output() sends it again.            *)
(***************************************************************************)
InsertBySeqno(q, seg) ==
    LET k == Cardinality({i \in 1..Len(q) : TCP_SEQ_LT(q[i].seqno, seg.seqno)})
    IN SubSeq(q, 1, k) \o <<seg>> \o SubSeq(q, k + 1, Len(q))

tcp_rexmit(pcb) ==
    IF pcb.unacked = <<>> THEN pcb
    ELSE [pcb EXCEPT !.unacked = Tail(@),
                     !.unsent = InsertBySeqno(@, Head(pcb.unacked))]

\* tcp_rexmit_fast() (tcp_out.c): once per recovery, marked by TF_INFR.
tcp_rexmit_fast(pcb) ==
    IF pcb.unacked # <<>> /\ "INFR" \notin pcb.flags
    THEN [tcp_rexmit(pcb) EXCEPT !.flags = @ \cup {"INFR"}]
    ELSE pcb

-----------------------------------------------------------------------------
(***************************************************************************)
(* Window update: taken from a segment newer than the last one used (by    *)
(* seqno, then by ackno), or from one with the same ackno that opens the   *)
(* window.  A window that drops to zero asks for the persist timer         *)
(* ("persist = 1") if it is not already backing off; a non-zero window     *)
(* stops it.                                                               *)
(***************************************************************************)
WindowUpdates(pcb, in) ==
    \/ TCP_SEQ_LT(pcb.snd_wl1, in.seqno)
    \/ pcb.snd_wl1 = in.seqno /\ TCP_SEQ_LT(pcb.snd_wl2, in.ackno)
    \/ pcb.snd_wl2 = in.ackno /\ in.wnd > pcb.snd_wnd

UpdateWindow(pcb, in) ==
    IF WindowUpdates(pcb, in)
    THEN [pcb EXCEPT !.snd_wnd = in.wnd,
                     !.snd_wnd_max = IF @ < in.wnd THEN in.wnd ELSE @,
                     !.snd_wl1 = in.seqno,
                     !.snd_wl2 = in.ackno,
                     !.persist_backoff = IF in.wnd # 0 THEN 0 ELSE @]
    ELSE pcb

StartsPersist(pcb, in) ==
    WindowUpdates(pcb, in) /\ in.wnd = 0 /\ pcb.persist_backoff = 0

(***************************************************************************)
(* Clause 1 (ackno <= lastack): pcb->acked = 0, and a duplicate ACK when   *)
(* the segment is empty, the right edge of the send window (snd_wl2 +      *)
(* snd_wnd) is the one seen before the update, the retransmission timer    *)
(* runs and ackno = lastack.  dupacks saturates at its u8_t maximum; the   *)
(* third duplicate calls tcp_rexmit_fast(), later ones only the congestion *)
(* module.  Anything else resets dupacks.                                  *)
(***************************************************************************)
IsDupAck(pcb, in, edge) ==
    /\ in.tcplen = 0
    /\ SeqAdd(pcb.snd_wl2, pcb.snd_wnd) = edge
    /\ pcb.rtime >= 0
    /\ pcb.lastack = in.ackno

CountDupAck(pcb) ==
    LET d == IF (pcb.dupacks + 1) % DUPACK_SPACE > pcb.dupacks
             THEN pcb.dupacks + 1 ELSE pcb.dupacks
    IN IF d = 3 THEN tcp_rexmit_fast([pcb EXCEPT !.dupacks = d])
       ELSE [pcb EXCEPT !.dupacks = d]

OldAck(pcb, in, edge) ==
    IF IsDupAck(pcb, in, edge) THEN CountDupAck([pcb EXCEPT !.acked = 0])
    ELSE [pcb EXCEPT !.acked = 0, !.dupacks = 0]

(***************************************************************************)
(* lastack < ackno <= snd_nxt: new data is acknowledged.  Fast recovery    *)
(* ends, acked counts the units acknowledged, lastack advances, ->unacked  *)
(* is trimmed, and the retransmission timer stops when nothing is left     *)
(* in flight (starting the persist timer if the window just closed) or     *)
(* restarts otherwise.                                                     *)
(***************************************************************************)
AckedTimers(pcb, persist) ==
    IF pcb.unacked = <<>>
    THEN [pcb EXCEPT !.persist_backoff = IF persist THEN 1 ELSE @, !.rtime = -1]
    ELSE [pcb EXCEPT !.rtime = 0]

AckUnacked(pcb, ackno) ==
    LET a == AckSegments(pcb, ackno, pcb.unacked) IN [a.pcb EXCEPT !.unacked = a.q]

NewAck(pcb, in, persist) ==
    AckedTimers(AckUnacked([pcb EXCEPT !.flags = @ \ {"INFR"},
                                       !.acked = SeqSub(in.ackno, pcb.lastack),
                                       !.dupacks = 0,
                                       !.lastack = in.ackno], in.ackno),
                persist)

\* The walk over ->unsent, whatever the kind of ACK.
AckUnsent(pcb, ackno) ==
    LET a == AckSegments(pcb, ackno, pcb.unsent) IN [a.pcb EXCEPT !.unsent = a.q]

\* The classification; an ACK beyond snd_nxt only gets tcp_send_empty_ack().
ClassifyAck(pcb, in, edge, persist) ==
    CASE TCP_SEQ_LEQ(in.ackno, pcb.lastack) -> OldAck(pcb, in, edge)
      [] TCP_SEQ_BETWEEN(in.ackno, SeqAdd(pcb.lastack, 1), pcb.snd_nxt) ->
            NewAck(pcb, in, persist)
      [] OTHER -> [pcb EXCEPT !.acked = 0]

\* The ACK half of tcp_receive(), for a segment with the ACK flag.
ReceiveAck(pcb, in) ==
    AckUnsent(ClassifyAck(UpdateWindow(pcb, in), in,
                          SeqAdd(pcb.snd_wl2, pcb.snd_wnd), StartsPersist(pcb, in)),
              in.ackno)

=============================================================================

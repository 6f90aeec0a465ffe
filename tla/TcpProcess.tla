----------------------------- MODULE TcpProcess -----------------------------
(***************************************************************************)
(* One call of L3_level_tcp_input() (src/src/core/lwip/tcp_in.c) on a pcb  *)
(* found for the packet: tcp_process() with tcp_receive() (modules TcpAck  *)
(* and TcpReceive) for a pcb in an active state, the upcalls that follow   *)
(* it, and tcp_timewait_input() for a pcb in TIME_WAIT.                    *)
(*                                                                         *)
(* The tcp_in_data record in carries, besides the fields of TcpReceive,    *)
(* in.flags (a subset of {"SYN","ACK","FIN","RST"}), in.ackno and in.wnd.  *)
(* An upcall result is "ERR_OK", "ERR_ABRT" (the application aborted and   *)
(* freed the pcb) or another error.  A freed pcb has state "CLOSED".       *)
(***************************************************************************)
EXTENDS TcpReceive, TcpAck

LOCAL SQ == INSTANCE SequencesExt

\* tcp_pcb_purge() (tcp.c): frees the segments queued on the pcb.
tcp_pcb_purge(pc) == [pc EXCEPT !.ooseq = <<>>, !.unsent = <<>>, !.unacked = <<>>]

(***************************************************************************)
(* tcp_output() (tcp_out.c): sends the ->unsent segments, in order, while  *)
(* they fit the send window ("seqno - lastack + len <= wnd"), moving each  *)
(* to ->unacked, advancing snd_nxt and starting the retransmission timer;  *)
(* a pending ACK goes out with them or alone.  The congestion window is    *)
(* not modelled (it does not limit the sender here).                       *)
(***************************************************************************)
Fits(pc, seg) == (SeqSub(seg.seqno, pc.lastack) + seg.len) % SEQ_SPACE <= pc.snd_wnd

RECURSIVE SendUnsent(_)
SendUnsent(pc) ==
    IF pc.unsent # <<>> /\ Fits(pc, Head(pc.unsent))
    THEN SendUnsent([pc EXCEPT
            !.unsent = Tail(@),
            !.unacked = InsertBySeqno(@, Head(pc.unsent)),
            !.snd_nxt = IF TCP_SEQ_GT(SndSegEnd(Head(pc.unsent)), @)
                        THEN SndSegEnd(Head(pc.unsent)) ELSE @,
            !.rtime = IF @ = -1 THEN 0 ELSE @,
            !.flags = @ \ {"ACK_NOW", "ACK_DELAY"}])
    ELSE pc

tcp_output(pc) ==
    SendUnsent(IF "ACK_NOW" \in pc.flags THEN [pc EXCEPT !.flags = @ \ {"ACK_NOW", "ACK_DELAY"}]
               ELSE pc)

\* tcp_receive(): the ACK half for a segment with ACK, then the data half.
tcp_receive(pc, in, copyOk) ==
    ReceiveData(IF "ACK" \in in.flags THEN ReceiveAck(pc, in) ELSE pc, in, copyOk)

GotFin(r) == "GOT_FIN" \in r.in.recv_flags

\* "(in_data->flags & TCP_ACK) && in_data->ackno == pcb->snd_nxt"
AcksSndNxt(pc, in) == "ACK" \in in.flags /\ in.ackno = pc.snd_nxt

(***************************************************************************)
(* The switch of tcp_process() for the synchronised states, after          *)
(* tcp_receive() (r): a FIN moves ESTABLISHED and CLOSE_WAIT to            *)
(* CLOSE_WAIT, FIN_WAIT_1 to CLOSING, or to TIME_WAIT when the segment     *)
(* also acknowledges snd_nxt, and FIN_WAIT_2 to TIME_WAIT; an ACK of       *)
(* snd_nxt moves FIN_WAIT_1 to FIN_WAIT_2, CLOSING to TIME_WAIT, and marks *)
(* a LAST_ACK pcb TF_CLOSED.                                               *)
(***************************************************************************)
ToTimeWait(pc) == [tcp_pcb_purge(pc) EXCEPT !.state = "TIME_WAIT"]

AfterReceive(st, in, r) ==
    CASE st \in {"ESTABLISHED", "CLOSE_WAIT"} /\ GotFin(r) ->
            R([tcp_ack_now(r.pcb) EXCEPT !.state = "CLOSE_WAIT"], r.in)
      [] st = "FIN_WAIT_1" /\ GotFin(r) /\ AcksSndNxt(r.pcb, in) ->
            R(ToTimeWait(tcp_ack_now(r.pcb)), r.in)
      [] st = "FIN_WAIT_1" /\ GotFin(r) ->
            R([tcp_ack_now(r.pcb) EXCEPT !.state = "CLOSING"], r.in)
      [] st = "FIN_WAIT_1" /\ AcksSndNxt(r.pcb, in) ->
            R([r.pcb EXCEPT !.state = "FIN_WAIT_2"], r.in)
      [] st = "FIN_WAIT_2" /\ GotFin(r) ->
            R(ToTimeWait(tcp_ack_now(r.pcb)), r.in)
      [] st = "CLOSING" /\ AcksSndNxt(r.pcb, in) ->
            R(ToTimeWait(r.pcb), r.in)
      [] st = "LAST_ACK" /\ AcksSndNxt(r.pcb, in) ->
            R(r.pcb, [r.in EXCEPT !.recv_flags = @ \cup {"CLOSED"}])
      [] OTHER -> r

Freed(pc) == [pc EXCEPT !.state = "CLOSED"]

(***************************************************************************)
(* SYN_SENT: a SYN|ACK acknowledging our SYN establishes the connection:   *)
(* rcv_nxt, lastack and the send window are taken from it, the SYN leaves  *)
(* ->unacked and snd_queuelen, the timer stops if nothing else is in       *)
(* flight, and the connected upcall runs (ERR_ABRT: the pcb is gone).      *)
(* Any other ACK is answered with a RST and changes nothing.               *)
(***************************************************************************)
SynAckOk(pc, in) ==
    /\ {"ACK", "SYN"} \subseteq in.flags
    /\ pc.unacked # <<>>
    /\ in.ackno = SeqAdd(Head(pc.unacked).seqno, 1)

Established(pc, in) ==
    [pc EXCEPT !.rcv_nxt = SeqAdd(in.seqno, 1),
               !.lastack = in.ackno,
               !.snd_wnd = in.wnd,
               !.snd_wnd_max = in.wnd,
               !.snd_wl1 = SeqSub(in.seqno, 1),
               !.state = "ESTABLISHED",
               !.snd_queuelen = @ - 1,
               !.unacked = Tail(@),
               !.rtime = IF Tail(pc.unacked) = <<>> THEN -1 ELSE 0]

SynSent(pc, in, ures) ==
    CASE SynAckOk(pc, in) /\ ures = "ERR_ABRT" -> R(Freed(pc), in)
      [] SynAckOk(pc, in) -> R(tcp_ack_now(Established(pc, in)), in)
      [] OTHER -> R(pc, in)

(***************************************************************************)
(* SYN_RCVD: an ACK in (lastack, snd_nxt] establishes the connection and   *)
(* runs the accept upcall (any error aborts the pcb); then tcp_receive()   *)
(* takes the ACK of our SYN and any data, the SYN's unit is taken out of   *)
(* pcb->acked, and a FIN moves on to CLOSE_WAIT.  A bad ACK gets a RST; a  *)
(* retransmitted SYN gets our SYN|ACK again.                               *)
(***************************************************************************)
\* Mutation: the SYN's unit is left in pcb->acked.
Accepted_nodec(r) ==
    IF GotFin(r) THEN R([tcp_ack_now(r.pcb) EXCEPT !.state = "CLOSE_WAIT"], r.in)
    ELSE r

Accepted(r) ==
    LET pc == [r.pcb EXCEPT !.acked = IF @ # 0 THEN @ - 1 ELSE @]
    IN IF GotFin(r) THEN R([tcp_ack_now(pc) EXCEPT !.state = "CLOSE_WAIT"], r.in)
       ELSE R(pc, r.in)

SynRcvd(pc, in, copyOk, ures) ==
    CASE "ACK" \in in.flags /\ TCP_SEQ_BETWEEN(in.ackno, SeqAdd(pc.lastack, 1), pc.snd_nxt) ->
            IF ures # "ERR_OK" THEN R(Freed(pc), in)
            ELSE Accepted(tcp_receive([pc EXCEPT !.state = "ESTABLISHED"], in, copyOk))
      [] "ACK" \in in.flags -> R(pc, in)
      [] "SYN" \in in.flags /\ in.seqno = SeqSub(pc.rcv_nxt, 1) -> R(tcp_rexmit(pc), in)
      [] OTHER -> R(pc, in)

(***************************************************************************)
(* tcp_process(): a RST is acceptable in SYN_SENT when it acknowledges     *)
(* snd_nxt and otherwise when its seqno lies in [rcv_nxt, rcv_nxt +        *)
(* rcv_wnd]; an acceptable one marks TF_RESET, any other is ignored.  A    *)
(* SYN in a synchronised state gets an immediate ACK.  Then the switch on  *)
(* the state.  ures is what the connected or accept upcall returns.        *)
(***************************************************************************)
RstAcceptable(pc, in) ==
    IF pc.state = "SYN_SENT" THEN in.ackno = pc.snd_nxt
    ELSE TCP_SEQ_BETWEEN(in.seqno, pc.rcv_nxt, SeqAdd(pc.rcv_nxt, pc.rcv_wnd))

tcp_process(pc, in, copyOk, ures) ==
    CASE "RST" \in in.flags /\ RstAcceptable(pc, in) ->
            R([pc EXCEPT !.flags = @ \ {"ACK_DELAY"}],
              [in EXCEPT !.recv_flags = @ \cup {"RESET"}])
      [] "RST" \in in.flags -> R(pc, in)
      [] "SYN" \in in.flags /\ pc.state \notin {"SYN_SENT", "SYN_RCVD"} ->
            R(tcp_ack_now(pc), in)
      [] pc.state = "SYN_SENT" -> SynSent(pc, in, ures)
      [] pc.state = "SYN_RCVD" -> SynRcvd(pc, in, copyOk, ures)
      [] OTHER -> Then(tcp_receive(pc, in, copyOk), LAMBDA r : AfterReceive(pc.state, in, r))

-----------------------------------------------------------------------------
(***************************************************************************)
(* The upcalls of L3_level_tcp_input() after tcp_process(), in code order. *)
(* What one input call gives the application is a record                   *)
(*   pcb   the pcb afterwards                                              *)
(*   sent  the byte count of the sent upcall (0: no sent upcall)           *)
(*   data  the bytes the recv upcall accepted                              *)
(*   eof   whether the recv upcall was called with NULL (EOF)              *)
(***************************************************************************)
Out(pc, sent, data, eof) == [pcb |-> pc, sent |-> sent, data |-> data, eof |-> eof]

\* "if (pcb->acked > 0) TCP_EVENT_SENT(pcb, pcb->acked, err)".
SentUpcall(pc, sres) ==
    CASE pc.acked = 0       -> Out(pc, 0, <<>>, FALSE)
      [] sres = "ERR_ABRT"  -> Out(Freed(pc), pc.acked, <<>>, FALSE)
      [] OTHER              -> Out(pc, pc.acked, <<>>, FALSE)

(***************************************************************************)
(* Data for a pcb whose application closed its receive side (TF_RXCLOSED)  *)
(* aborts the connection.  Otherwise TCP_EVENT_RECV with the chained data: *)
(* ERR_ABRT frees the pcb; another error means the application refused the *)
(* data, which is freed and its window given back although rcv_nxt already *)
(* acknowledges it.                                                        *)
(***************************************************************************)
RecvUpcall(u, data, rres) ==
    CASE u.pcb.state = "CLOSED" \/ data = <<>> -> u
      [] "RXCLOSED" \in u.pcb.flags -> [u EXCEPT !.pcb = Freed(@)]
      [] rres = "ERR_ABRT" -> [u EXCEPT !.pcb = Freed(@)]
      [] rres = "ERR_OK"   -> [u EXCEPT !.data = data]
      [] OTHER             -> [u EXCEPT !.pcb = [@ EXCEPT !.rcv_wnd = WndAdd(@, Len(data))]]

\* Mutation: the FIN's unit of window is not given back.
ClosedUpcall_nocorrect(pc, cres) ==
    IF cres = "ERR_ABRT" THEN Freed(pc) ELSE pc

\* TF_GOT_FIN: correct rcv_wnd for the FIN, then TCP_EVENT_CLOSED.
ClosedUpcall(pc, cres) ==
    LET pc1 == IF pc.rcv_wnd # pc.rcv_wnd_max THEN [pc EXCEPT !.rcv_wnd = WndAdd(@, 1)]
               ELSE pc
    IN IF cres = "ERR_ABRT" THEN Freed(pc1) ELSE pc1

\* After the recv upcall: the EOF upcall for a FIN, then tcp_output().
AfterUpcalls(u, fin, cres) ==
    CASE u.pcb.state = "CLOSED" -> u
      [] fin -> [u EXCEPT !.pcb = IF ClosedUpcall(@, cres).state = "CLOSED"
                                  THEN ClosedUpcall(@, cres)
                                  ELSE tcp_output(ClosedUpcall(@, cres)),
                          !.eof = TRUE]
      [] OTHER -> [u EXCEPT !.pcb = tcp_output(@)]

Upcalls(r, data, sres, rres, cres) ==
    Then(SentUpcall(r.pcb, sres), LAMBDA u :
        Then(RecvUpcall(u, data, rres), LAMBDA v : AfterUpcalls(v, GotFin(r), cres)))

(***************************************************************************)
(* After tcp_process(): nothing when it returned ERR_ABRT (the pcb was     *)
(* aborted and freed); TF_RESET gives TCP_EVENT_ERR and tcp_pcb_remove(),  *)
(* TF_CLOSED tcp_pcb_remove(); otherwise the upcalls.                      *)
(***************************************************************************)
Dispatch(r, sres, rres, cres) ==
    CASE r.pcb.state = "CLOSED" -> Out(r.pcb, 0, <<>>, FALSE)
      [] r.in.recv_flags \cap {"RESET", "CLOSED"} # {} -> Out(Freed(r.pcb), 0, <<>>, FALSE)
      [] OTHER -> Upcalls(r, SQ!FlattenSeq(r.in.recv_data), sres, rres, cres)


-----------------------------------------------------------------------------
(***************************************************************************)
(* Passive open and TIME_WAIT reuse.  A new or recycled pcb answers the    *)
(* SYN with a SYN|ACK: tcp_enqueue_flags() (tcp_out.c) queues a segment    *)
(* of one pbuf at snd_lbb and tcp_output() sends it.  The results of the   *)
(* callbacks and of the enqueue are "ERR_OK" or an error.  in.ts is what   *)
(* tcp_parseopt_ts() finds in the SYN, relative to the pcb's ts_recent:    *)
(* "none", "older", "same" or "newer".  The options are otherwise not     *)
(* carried (module TcpOptions); tcp_parseopt() sets TF_TIMESTAMP           *)
(* (pc.timestamps) for a SYN with a timestamp when the pcb enables it.     *)
(***************************************************************************)
EnqueueSynAck(pc) ==
    [pc EXCEPT !.unsent = Append(@, [seqno |-> pc.snd_lbb, len |-> 0, p |-> <<0>>,
                                     fin |-> FALSE, syn |-> TRUE, zc |-> FALSE]),
               !.snd_lbb = SeqAdd(@, 1),
               !.snd_queuelen = @ + 1]

\* Enqueue the SYN|ACK and send it, or tcp_abandon() the pcb.
AnswerSyn(pc, enq) ==
    IF enq = "ERR_OK" THEN tcp_output(EnqueueSynAck(pc)) ELSE Freed(pc)

(***************************************************************************)
(* A pcb with no connection state and the send sequence at iss: the pcb    *)
(* TCP_EVENT_CLONE_PCB gives (tcp_pcb_init in tcp.c), and what             *)
(* tcp_pcb_recycle() (tcp.c) makes of a TIME_WAIT pcb; the socket options  *)
(* (enable_ts_opt) stay.                                                   *)
(***************************************************************************)
Fresh(pc, iss) ==
    [tcp_pcb_purge(pc) EXCEPT
        !.flags = {}, !.quickack = FALSE, !.timestamps = FALSE,
        !.lastack = iss, !.snd_nxt = iss, !.snd_lbb = iss, !.snd_wl2 = iss,
        !.snd_queuelen = 0, !.rtime = -1, !.acked = 0, !.dupacks = 0,
        !.persist_backoff = 0]

(***************************************************************************)
(* The fields both tcp_listen_input() and tcp_pcb_reuse() set from the     *)
(* SYN: SYN_RCVD, rcv_nxt past the SYN, snd_wl1 one before it (the first   *)
(* ACK updates the window), the options, the full receive window and the   *)
(* peer's window.                                                          *)
(***************************************************************************)
FromSyn(pc, in, rcvWnd) ==
    [pc EXCEPT !.state = "SYN_RCVD",
               !.rcv_nxt = SeqAdd(in.seqno, 1),
               !.snd_wl1 = SeqSub(in.seqno, 1),
               !.timestamps = pc.enable_ts_opt /\ in.ts # "none",
               !.rcv_wnd = rcvWnd, !.rcv_wnd_max = rcvWnd,
               !.snd_wnd = in.wnd, !.snd_wnd_max = in.wnd]

(***************************************************************************)
(* tcp_listen_input(): RST and FIN are ignored, an ACK gets a RST; a SYN   *)
(* makes a new pcb unless the clone fails, set up in SYN_RCVD and answered *)
(* with a SYN|ACK; when TCP_EVENT_SYN_RECEIVED fails the code returns with *)
(* the new pcb left in SYN_RCVD and nothing queued.  The listening pcb     *)
(* never changes: the result is the new pcb, or the listener when none is  *)
(* made.                                                                   *)
(***************************************************************************)
tcp_listen_input(pc, in, iss, rcvWnd, clone, rc, enq) ==
    CASE in.flags \cap {"RST", "FIN"} # {} -> pc
      [] "ACK" \in in.flags -> pc
      [] "SYN" \in in.flags /\ clone = "ERR_OK" ->
            LET npcb == FromSyn(Fresh(pc, iss), in, rcvWnd)
            IN IF rc # "ERR_OK" THEN npcb ELSE AnswerSyn(npcb, enq)
      [] OTHER -> pc

(***************************************************************************)
(* RFC 6191 reuse of a TIME_WAIT pcb for a SYN: with timestamps on both    *)
(* incarnations a newer timestamp, otherwise (or with an equal one) a      *)
(* seqno at or beyond rcv_nxt; and only when syn_tw_handled_cb is set.     *)
(***************************************************************************)
\* Mutation: an equal timestamp counts as newer (ts_recent <= tsval).
Reusable_tsle(pc, in, cb) ==
    LET tsOk == in.ts # "none" /\ pc.timestamps
    IN /\ cb
       /\ \/ tsOk /\ in.ts \in {"same", "newer"}
          \/ (~tsOk \/ in.ts = "same") /\ TCP_SEQ_GEQ(in.seqno, pc.rcv_nxt)

Reusable(pc, in, cb) ==
    LET tsOk == in.ts # "none" /\ pc.timestamps
    IN /\ cb
       /\ \/ tsOk /\ in.ts = "newer"
          \/ (~tsOk \/ in.ts = "same") /\ TCP_SEQ_GEQ(in.seqno, pc.rcv_nxt)

(***************************************************************************)
(* tcp_pcb_reuse(): the pcb is recycled and set up from the SYN; a failing *)
(* syn_tw_handled_cb returns at once, leaving it in SYN_RCVD with nothing  *)
(* queued; a failing enqueue abandons it.                                  *)
(***************************************************************************)
\* Mutation: the pcb is set up from the SYN without tcp_pcb_recycle().
tcp_pcb_reuse_norecycle(pc, in, iss, rcvWnd, rc, enq) ==
    LET r == FromSyn(pc, in, rcvWnd)
    IN IF rc # "ERR_OK" THEN r ELSE AnswerSyn(r, enq)

tcp_pcb_reuse(pc, in, iss, rcvWnd, rc, enq) ==
    LET r == FromSyn(Fresh(pc, iss), in, rcvWnd)
    IN IF rc # "ERR_OK" THEN r ELSE AnswerSyn(r, enq)

(***************************************************************************)
(* tcp_timewait_input(): RST is ignored; a SYN without ACK is reused or    *)
(* silently dropped; a FIN restarts the 2MSL timer (not modelled); a       *)
(* SYN|ACK occupying sequence space gets a RST, anything else occupying    *)
(* sequence space an immediate ACK through tcp_output().                   *)
(***************************************************************************)
tcp_timewait_input(pc, in, cb, iss, rcvWnd, rc, enq) ==
    CASE "RST" \in in.flags -> pc
      [] "SYN" \in in.flags /\ "ACK" \notin in.flags ->
            IF Reusable(pc, in, cb) THEN tcp_pcb_reuse(pc, in, iss, rcvWnd, rc, enq) ELSE pc
      [] in.tcplen > 0 /\ {"SYN", "ACK"} \subseteq in.flags -> pc
      [] in.tcplen > 0 -> tcp_output(tcp_ack_now(pc))
      [] OTHER -> pc

=============================================================================

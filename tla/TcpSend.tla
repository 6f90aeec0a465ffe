------------------------------- MODULE TcpSend -------------------------------
(***************************************************************************)
(* One connection of the XLIO TCP stack as a sender: the ACKs of the peer  *)
(* processed by L3_level_tcp_input(), tcp_process() and the ACK half of    *)
(* tcp_receive() (modules TcpProcess, TcpAck, TcpShrink), against the      *)
(* transmit side that fills the queues (tcp_output, the retransmission     *)
(* timeout and tcp_close, from tcp_out.c and tcp.c, which are not part of  *)
(* this repository and are modelled from their documented behaviour).     *)
(*                                                                         *)
(* The connection starts as a listening pcb (LISTEN), in SYN_SENT (active *)
(* open, our SYN in flight), in SYN_RCVD (passive open, our SYN|ACK in     *)
(* flight) or in ESTABLISHED with the segments INIT_SEGS written by the    *)
(* application and not yet sent; a connection established later has them *)
(* written then.  A TIME_WAIT pcb may be reused for a new SYN, and the     *)
(* model then follows the new connection.  The peer sends no data: its    *)
(* segments are ACKs, perhaps with its FIN at irs+1, and the SYN or        *)
(* SYN|ACK of the handshake.  Any ACK of what was                          *)
(* sent can arrive at any time (the network loses, duplicates and reorders *)
(* them), with any window of WNDS.                                         *)
(***************************************************************************)
EXTENDS TcpProcess

CONSTANTS
    ISS,            \* our initial sequence number
    IRS,            \* the peer's initial sequence number
    INIT_SEGS,      \* the data segments written, as [p |-> pbuf payloads, zc |-> zero-copy]
    INIT_STATES,    \* subset of {"LISTEN", "SYN_SENT", "SYN_RCVD", "ESTABLISHED"}
    WNDS,           \* windows the peer may advertise (already scaled)
    TIMESTAMPS,     \* values of TF_TIMESTAMP (timestamp option on every segment)
    SENT_RESULTS,   \* what the sent upcall may return
    CONN_RESULTS,   \* what the connected / accept upcall may return
    PEER_FIN,       \* whether the peer closes its side
    STRAY,          \* whether RSTs and SYNs may arrive in any state
    BOGUS_ACKS,     \* whether an ACK beyond snd_nxt may arrive
    NEW_RESULTS,    \* what the clone, SYN_RECEIVED and syn_tw_handled_cb callbacks
                    \* and tcp_enqueue_flags() may return
    REUSE_CB        \* whether syn_tw_handled_cb is registered (TIME_WAIT reuse)

ASSUME ISS \in 0..(SEQ_SPACE - 1) /\ IRS \in 0..(SEQ_SPACE - 1)
ASSUME INIT_STATES \subseteq {"LISTEN", "SYN_SENT", "SYN_RCVD", "ESTABLISHED"}
ASSUME NEW_RESULTS \subseteq {"ERR_OK", "ERR_MEM"} /\ REUSE_CB \in BOOLEAN
ASSUME WNDS \subseteq 0..(SEQ_SPACE \div 2 - 1) /\ WNDS # {}
ASSUME SENT_RESULTS \subseteq {"ERR_OK", "ERR_ABRT"}
ASSUME CONN_RESULTS \subseteq {"ERR_OK", "ERR_ABRT", "ERR_MEM"}

VARIABLES
    pcb,        \* the tcp_pcb
    reported,   \* the sum of the byte counts the sent upcall reported
    irs         \* the peer's initial sequence number in this connection

vars == <<pcb, reported, irs>>

\* Total payload of a segment shape, and of all of them.
RECURSIVE SumSeq(_)
SumSeq(s) == IF s = <<>> THEN 0 ELSE Head(s) + SumSeq(Tail(s))
DataLen == SumSeq([i \in 1..Len(INIT_SEGS) |-> SumSeq(INIT_SEGS[i].p)])

ASSUME 2 * (DataLen + 4) < SEQ_SPACE

(***************************************************************************)
(* The queues tcp_write() builds: consecutive segments from ISS+1, one per *)
(* shape, each pbuf counted in snd_queuelen.                               *)
(***************************************************************************)
Offset(i) == SumSeq([j \in 1..(i - 1) |-> SumSeq(INIT_SEGS[j].p)])
DataSegs ==
    [i \in 1..Len(INIT_SEGS) |->
        [seqno |-> SeqAdd(ISS, 1 + Offset(i)), len |-> SumSeq(INIT_SEGS[i].p),
         p |-> INIT_SEGS[i].p, fin |-> FALSE, syn |-> FALSE, zc |-> INIT_SEGS[i].zc]]
Pbufs(q) == SumSeq([i \in 1..Len(q) |-> Len(q[i].p)])

\* The SYN (or SYN|ACK) segment: one pbuf, no payload.
SynSeg == [seqno |-> ISS, len |-> 0, p |-> <<0>>, fin |-> FALSE, syn |-> TRUE, zc |-> FALSE]

(***************************************************************************)
(* The pcb after tcp_connect() and tcp_output() (SYN_SENT), after          *)
(* tcp_listen_input() and tcp_output() (SYN_RCVD), or established with     *)
(* data queued.  snd_lbb is the sequence number of the next byte the       *)
(* application would write.                                                *)
(***************************************************************************)
InitPcb(st, ts, w) ==
    [state |-> st, flags |-> {}, quickack |-> FALSE, ooseq |-> <<>>,
     rcv_nxt |-> CASE st = "SYN_SENT" -> 0 [] OTHER -> SeqAdd(IRS, 1),
     rcv_wnd |-> SEQ_SPACE \div 2 - 1, rcv_wnd_max |-> SEQ_SPACE \div 2 - 1,
     lastack |-> CASE st = "SYN_SENT" -> SeqSub(ISS, 1)
                   [] st = "SYN_RCVD" -> ISS
                   [] OTHER -> SeqAdd(ISS, 1),
     snd_nxt |-> SeqAdd(ISS, 1),
     snd_lbb |-> SeqAdd(ISS, 1 + (IF st = "ESTABLISHED" THEN DataLen ELSE 0)),
     unacked |-> IF st = "ESTABLISHED" THEN <<>> ELSE <<SynSeg>>,
     unsent |-> IF st = "ESTABLISHED" THEN DataSegs ELSE <<>>,
     snd_queuelen |-> IF st = "ESTABLISHED" THEN Pbufs(DataSegs) ELSE 1,
     rtime |-> IF st = "ESTABLISHED" THEN -1 ELSE 0,
     acked |-> 0, dupacks |-> 0, persist_backoff |-> 0, timestamps |-> ts,
     snd_wnd |-> w, snd_wnd_max |-> w,
     snd_wl1 |-> SeqSub(IRS, 1),
     snd_wl2 |-> IF st = "ESTABLISHED" THEN SeqAdd(ISS, 1) ELSE ISS,
     enable_ts_opt |-> ts]

\* The receive window a new pcb starts with (TCP_WND_SCALED).
RcvWnd == SEQ_SPACE \div 2 - 1

\* A listening pcb, whose socket enables timestamps or not.
ListenPcb(ts) ==
    [Fresh([InitPcb("SYN_RCVD", FALSE, 0) EXCEPT !.enable_ts_opt = ts], ISS)
        EXCEPT !.state = "LISTEN", !.rcv_nxt = 0]

Init ==
    /\ \E st \in INIT_STATES, ts \in TIMESTAMPS, w \in WNDS :
          /\ st = "SYN_SENT" => w > 0     \* tcp_connect() starts with TCP_WND
          /\ pcb = IF st = "LISTEN" THEN ListenPcb(ts) ELSE InitPcb(st, ts, w)
    /\ reported = 0
    /\ irs = IRS

-----------------------------------------------------------------------------
(***************************************************************************)
(* The peer's segments.  An ACK acknowledges something up to snd_nxt (the  *)
(* peer cannot acknowledge what it never received; snd_nxt never moves     *)
(* back), or with BOGUS_ACKS one unit beyond it.  The peer's FIN is at     *)
(* IRS+1 and what follows it at IRS+2.                                     *)
(***************************************************************************)
Acknos ==
    {SeqSub(pcb.snd_nxt, k) : k \in 0..(SeqSub(pcb.snd_nxt, pcb.lastack) + 1)}
    \cup (IF BOGUS_ACKS THEN {SeqAdd(pcb.snd_nxt, 1)} ELSE {})

Pkt(s, f, a, w) == [seqno |-> s, flags |-> f, ackno |-> a, wnd |-> w, ts |-> "none"]

AckPackets ==
    {Pkt(SeqAdd(irs, 1), {"ACK"}, a, w) : a \in Acknos, w \in WNDS}
    \cup (IF PEER_FIN
          THEN {Pkt(SeqAdd(irs, o), f, a, w) :
                   <<o, f>> \in {<<1, {"ACK", "FIN"}>>, <<2, {"ACK"}>>},
                   a \in Acknos, w \in WNDS}
          ELSE {})

(***************************************************************************)
(* SYNs reaching a TIME_WAIT pcb: an old duplicate of the SYN of the       *)
(* connection (seqno irs, its timestamp, if any, older than or equal to    *)
(* ts_recent) and the SYN of a new connection from the same peer port      *)
(* (seqno a quarter of the sequence space further, any timestamp).  A      *)
(* listener gets a SYN with or without the timestamp option.               *)
(***************************************************************************)
TsRel == {"none"} \cup (IF TRUE \in TIMESTAMPS THEN {"older", "same", "newer"} ELSE {})

NewSyns ==
    {[Pkt(s, {"SYN"}, 0, w) EXCEPT !.ts = t] :
        <<s, t>> \in ({irs} \X (TsRel \ {"newer"}))
                     \cup ({SeqAdd(irs, SEQ_SPACE \div 4)} \X TsRel),
        w \in WNDS}

ListenSyns ==
    {[Pkt(irs, {"SYN"}, 0, w) EXCEPT !.ts = t] : w \in WNDS, t \in TsRel \ {"older", "same"}}

\* The handshake segments of the peer: its SYN|ACK, and a retransmitted SYN.
SynPackets ==
    (IF STRAY \/ pcb.state = "SYN_SENT"
     THEN {Pkt(irs, {"SYN", "ACK"}, a, w) : a \in Acknos, w \in WNDS} ELSE {})
    \cup (IF STRAY \/ pcb.state = "SYN_RCVD"
          THEN {Pkt(irs, {"SYN"}, 0, w) : w \in WNDS} ELSE {})
    \cup (IF pcb.state = "LISTEN" THEN ListenSyns ELSE {})
    \cup (IF REUSE_CB /\ pcb.state = "TIME_WAIT" THEN NewSyns ELSE {})

\* A RST: in SYN_SENT checked against snd_nxt, otherwise against rcv_nxt.
RstPackets ==
    IF STRAY \/ pcb.state = "SYN_SENT"
    THEN {Pkt(s, {"RST"}, a, 0) :
            s \in {pcb.rcv_nxt, SeqSub(pcb.rcv_nxt, 1)},
            a \in {pcb.snd_nxt, SeqSub(pcb.snd_nxt, 1)}}
    ELSE {Pkt(pcb.rcv_nxt, {"RST"}, pcb.snd_nxt, 0)}

Packets == AckPackets \cup SynPackets \cup RstPackets

\* The tcp_in_data of a segment without payload.
InData(p) ==
    [seqno |-> p.seqno, ackno |-> p.ackno, wnd |-> p.wnd, flags |-> p.flags,
     tcplen |-> IF p.flags \cap {"FIN", "SYN"} # {} THEN 1 ELSE 0,
     inseg |-> Seg(p.seqno, 0, "FIN" \in p.flags),
     recv_data |-> <<>>, recv_flags |-> {}, ts |-> p.ts]

-----------------------------------------------------------------------------
(***************************************************************************)
(* L3_level_tcp_input() for a segment of the peer: the pcb in an active    *)
(* state goes through tcp_process() and the upcalls, one in TIME_WAIT      *)
(* through tcp_timewait_input(); a freed pcb is not found any more.  The   *)
(* result of the connected or accept upcall is chosen when tcp_process()   *)
(* may make it, that of the sent upcall when pcb->acked > 0.               *)
(***************************************************************************)
ActiveInput(p) ==
    \E ures \in IF pcb.state \in {"SYN_SENT", "SYN_RCVD"} THEN CONN_RESULTS ELSE {"ERR_OK"} :
    \E r \in {tcp_process(pcb, InData(p), TRUE, ures)} :
    \E sres \in IF r.pcb.acked > 0 THEN SENT_RESULTS ELSE {"ERR_OK"} :
    \E u \in {Dispatch(r, sres, "ERR_OK", "ERR_OK")} :
        /\ pcb' = u.pcb
        /\ reported' = reported + u.sent
        /\ UNCHANGED irs

(***************************************************************************)
(* A SYN that opens a new connection, to a listener or by reuse of a       *)
(* TIME_WAIT pcb: the results of the callbacks and of tcp_enqueue_flags()  *)
(* are chosen.  The model follows the new connection, which starts with    *)
(* nothing reported and the SYN's seqno as the peer's ISN.                 *)
(***************************************************************************)
Results(p) == IF "SYN" \in p.flags /\ "ACK" \notin p.flags THEN NEW_RESULTS ELSE {"ERR_OK"}

NewConnection(p, n) ==
    /\ pcb' = n
    /\ IF n.state = "SYN_RCVD"
       THEN irs' = p.seqno /\ reported' = 0
       ELSE UNCHANGED <<irs, reported>>

L3_level_tcp_input(p) ==
    CASE pcb.state = "CLOSED"    -> UNCHANGED vars
      [] pcb.state = "LISTEN"    ->
            \E clone, rc, enq \in Results(p) :
                NewConnection(p, tcp_listen_input(pcb, InData(p), ISS, RcvWnd, clone, rc, enq))
      [] pcb.state = "TIME_WAIT" ->
            \E rc, enq \in Results(p) :
                NewConnection(p, tcp_timewait_input(pcb, InData(p), REUSE_CB, ISS, RcvWnd, rc, enq))
      [] OTHER                   -> ActiveInput(p)

Arrive == \E p \in Packets : L3_level_tcp_input(p)

(***************************************************************************)
(* The application (through the socket layer) calls tcp_output() to push   *)
(* what it has written.                                                    *)
(***************************************************************************)
AppOutput ==
    /\ pcb.state \notin {"CLOSED", "TIME_WAIT"}
    /\ pcb.unsent # <<>>
    /\ pcb' = tcp_output(pcb)
    /\ UNCHANGED <<reported, irs>>

(***************************************************************************)
(* tcp_write() (tcp_out.c) on a connection established by the handshake:  *)
(* the application queues INIT_SEGS on ->unsent, once.                     *)
(***************************************************************************)
Write ==
    /\ pcb.state \in {"ESTABLISHED", "CLOSE_WAIT"}
    /\ "FIN" \notin pcb.flags
    /\ pcb.snd_lbb = SeqAdd(ISS, 1)
    /\ pcb' = [pcb EXCEPT !.unsent = @ \o DataSegs,
                          !.snd_lbb = SeqAdd(@, DataLen),
                          !.snd_queuelen = @ + Pbufs(DataSegs)]
    /\ UNCHANGED <<reported, irs>>

(***************************************************************************)
(* tcp_close() (tcp.c): marks the receive side closed; in SYN_SENT the pcb *)
(* is simply freed; in ESTABLISHED or CLOSE_WAIT a FIN is queued, the      *)
(* state moves to FIN_WAIT_1 or LAST_ACK and tcp_output() runs.  The FIN   *)
(* is queued as its own segment at snd_lbb (tcp_enqueue_flags()); setting  *)
(* it on the last ->unsent segment instead, which tcp_send_fin() may do,   *)
(* is not modelled.                                                        *)
(***************************************************************************)
tcp_send_fin(pc) ==
    [pc EXCEPT !.unsent = Append(@, [seqno |-> pc.snd_lbb, len |-> 0, p |-> <<0>>,
                                     fin |-> TRUE, syn |-> FALSE, zc |-> FALSE]),
               !.snd_queuelen = @ + 1,
               !.flags = @ \cup {"FIN"}]

Close ==
    /\ pcb.state \in {"SYN_SENT", "ESTABLISHED", "CLOSE_WAIT"}
    /\ pcb' = IF pcb.state = "SYN_SENT" THEN Freed(pcb)
              ELSE tcp_output([tcp_send_fin([pcb EXCEPT !.flags = @ \cup {"RXCLOSED"}])
                               EXCEPT !.state = IF @ = "ESTABLISHED" THEN "FIN_WAIT_1"
                                                ELSE "LAST_ACK"])
    /\ UNCHANGED <<reported, irs>>

(***************************************************************************)
(* The retransmission timeout (tcp_slowtmr, tcp_rexmit_rto in tcp_out.c):  *)
(* with the timer running, every unacknowledged segment goes back to the   *)
(* front of ->unsent and tcp_output() sends again what the window allows.  *)
(***************************************************************************)
Rto ==
    /\ pcb.state \notin {"CLOSED", "TIME_WAIT"}
    /\ pcb.rtime >= 0
    /\ pcb.unacked # <<>>
    /\ pcb' = tcp_output([pcb EXCEPT !.unsent = pcb.unacked \o @, !.unacked = <<>>])
    /\ UNCHANGED <<reported, irs>>

Next == Arrive \/ AppOutput \/ Write \/ Close \/ Rto

Spec == Init /\ [][Next]_vars

-----------------------------------------------------------------------------
(***************************************************************************)
(* Properties                                                              *)
(***************************************************************************)

\* The pcb still holds its queues (tcp_pcb_purge() empties them on TIME_WAIT).
Queued == pcb.state \notin {"CLOSED", "TIME_WAIT"}

SendSeg == [seqno : 0..(SEQ_SPACE - 1), len : 0..DataLen, p : Seq(0..DataLen),
            fin : BOOLEAN, syn : BOOLEAN, zc : BOOLEAN]

TypeOK ==
    /\ pcb.state \in {TcpStates[i] : i \in 1..Len(TcpStates)}
    /\ pcb.unacked \in Seq(SendSeg)
    /\ pcb.unsent \in Seq(SendSeg)
    /\ pcb.lastack \in 0..(SEQ_SPACE - 1)
    /\ pcb.snd_nxt \in 0..(SEQ_SPACE - 1)
    /\ pcb.snd_queuelen \in Nat
    /\ pcb.acked \in 0..(DataLen + 2)
    /\ pcb.dupacks \in 0..(DUPACK_SPACE - 1)
    /\ pcb.rtime \in {-1, 0}
    /\ pcb.flags \subseteq {"ACK_NOW", "ACK_DELAY", "INFR", "FIN", "RXCLOSED"}
    /\ reported \in 0..DataLen

(***************************************************************************)
(* snd_queuelen, which tcp_write() and tcp_enqueue_flags() raise by the    *)
(* pbufs they queue, stays equal to the pbufs on ->unacked and ->unsent:   *)
(* ack_partial_or_whole_segment() takes off every pbuf it frees, whole     *)
(* segments by pbuf_clen() and partial ones by the count the shrinkers     *)
(* return, and the SYN_SENT path takes off the SYN.                        *)
(***************************************************************************)
QueuelenAccounting ==
    Queued => pcb.snd_queuelen = Pbufs(pcb.unacked) + Pbufs(pcb.unsent)

(***************************************************************************)
(* The send queues hold every unit of sequence space that is not yet       *)
(* acknowledged, exactly once: each unit from lastack (from the SYN in     *)
(* SYN_SENT) up to the end of what the application queued, FIN included,   *)
(* lies in exactly one segment of ->unacked or ->unsent.  The ACK walks of *)
(* tcp_receive(), the shrinkers, fast retransmit and the timeout move and  *)
(* cut the segments but never lose or duplicate a unit still owed to the   *)
(* peer.                                                                   *)
(***************************************************************************)
SndUna == IF pcb.state = "SYN_SENT" THEN ISS ELSE pcb.lastack
StreamEnd == SeqAdd(pcb.snd_lbb, IF "FIN" \in pcb.flags THEN 1 ELSE 0)
Owed == {SeqAdd(SndUna, i) : i \in 0..(SeqSub(StreamEnd, SndUna) - 1)}
Holds(seg, x) == SeqSub(x, seg.seqno) < TCP_SEGLEN(seg)

SendQueueCovers ==
    Queued =>
    LET q == pcb.unacked \o pcb.unsent
    IN \A x \in Owed : Cardinality({i \in 1..Len(q) : Holds(q[i], x)}) = 1

(***************************************************************************)
(* The sent upcall of L3_level_tcp_input() reports, over the life of the   *)
(* connection, exactly the data bytes the peer has acknowledged: pcb->     *)
(* acked as set by tcp_receive() for this segment, without the units of    *)
(* the SYN and of the FIN.                                                 *)
(***************************************************************************)
FinAcked == "FIN" \in pcb.flags /\ pcb.lastack = StreamEnd
AckedData ==
    IF pcb.state \in {"LISTEN", "SYN_SENT", "SYN_RCVD"} THEN 0
    ELSE SeqSub(pcb.lastack, SeqAdd(ISS, 1)) - (IF FinAcked THEN 1 ELSE 0)

SentMatchesAcked == pcb.state # "CLOSED" => reported = AckedData

(***************************************************************************)
(* The connection leaves FIN_WAIT_1 or CLOSING only once our FIN is        *)
(* acknowledged (tcp_process(): "ACK for our FIN"), so FIN_WAIT_2 and      *)
(* TIME_WAIT are reached with nothing of ours left unacknowledged.         *)
(***************************************************************************)
OurFinAcked ==
    pcb.state \in {"FIN_WAIT_2", "TIME_WAIT"} => pcb.lastack = StreamEnd


(***************************************************************************)
(* TIME_WAIT reuse (tcp_timewait_input(), RFC 6191) takes only the SYN of  *)
(* a new incarnation: an old duplicate of the previous connection's SYN,   *)
(* whose seqno lies behind rcv_nxt and whose timestamp is not newer than   *)
(* ts_recent, never recycles the pcb.                                      *)
(***************************************************************************)
OldSynNotReused ==
    [][pcb.state = "TIME_WAIT" /\ pcb'.state = "SYN_RCVD" => irs' # irs]_vars

(***************************************************************************)
(* A connection in SYN_RCVD has its SYN|ACK queued, on ->unacked or        *)
(* ->unsent, so that the retransmission timer sends it again until the     *)
(* peer's ACK comes: tcp_listen_input() and tcp_pcb_reuse() enter SYN_RCVD *)
(* and queue the SYN|ACK, and the pcb is abandoned if the SYN|ACK cannot   *)
(* be queued or (as the spec says) if its registration fails.             *)
(***************************************************************************)
SynRcvdHasSyn ==
    pcb.state = "SYN_RCVD" =>
        LET q == pcb.unacked \o pcb.unsent IN \E i \in DOMAIN q : q[i].syn

=============================================================================

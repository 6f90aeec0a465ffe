------------------------------ MODULE TcpInput ------------------------------
(***************************************************************************)
(* One connection of the XLIO TCP input path receiving the byte stream of  *)
(* its peer: L3_level_tcp_input() for a pcb in an active state or in       *)
(* TIME_WAIT, tcp_process() and tcp_receive() (modules TcpReceive and      *)
(* TcpOoseq), and the application upcalls made after tcp_process().        *)
(*                                                                         *)
(* The peer sent the N bytes at sequence numbers IRS+1 .. IRS+N followed   *)
(* by a FIN.  The network may lose, duplicate, reorder and re-segment      *)
(* them: any segment whose payload is a range of that stream, with the FIN *)
(* when it ends at the stream's end, can arrive at any time, as can a RST  *)
(* from the peer.  A peer that respects the window (PEER_RESPECTS_WND)     *)
(* never sends sequence space beyond the right edge of the receive window. *)
(*                                                                         *)
(* The packets carry no ACK flag, so tcp_receive() skips its ACK half as   *)
(* the code does for such a segment; the send side is idle (module        *)
(* TcpSend models it).                                                     *)
(***************************************************************************)
EXTENDS TcpProcess

CONSTANTS
    IRS,                \* initial receive sequence number of the peer
    N,                  \* bytes in the peer's stream before its FIN
    RCV_WND,            \* TCP_WND_SCALED(pcb): rcv_wnd and rcv_wnd_max
    INIT_STATES,        \* states the connection can be in when data starts
    QUICKACK,           \* values pcb->quickack may have (TCP_QUICKACK socket option)
    RECV_RESULTS,       \* what the recv upcall may return
    CLOSED_RESULTS,     \* what the recv upcall signalling EOF may return
    PEER_RESPECTS_WND   \* whether the peer keeps within the window

ASSUME IRS \in 0..(SEQ_SPACE - 1)
ASSUME N \in Nat /\ 2 * (N + 2) < SEQ_SPACE
ASSUME RCV_WND \in 1..(SEQ_SPACE \div 2 - 1) /\ WND_SPACE >= SEQ_SPACE
ASSUME INIT_STATES \subseteq {"ESTABLISHED", "FIN_WAIT_1", "FIN_WAIT_2"}
ASSUME RECV_RESULTS \subseteq {"ERR_OK", "ERR_MEM", "ERR_ABRT"}
ASSUME CLOSED_RESULTS \subseteq {"ERR_OK", "ERR_ABRT"}
ASSUME QUICKACK \subseteq BOOLEAN

VARIABLES
    pcb,            \* the tcp_pcb
    delivered,      \* sequence numbers of the bytes the recv upcall accepted
    finSignalled    \* the recv upcall was called with NULL (EOF)

vars == <<pcb, delivered, finSignalled>>

\* Sequence number of the i-th byte of the peer's stream.
StreamByte(i) == SeqAdd(IRS, i)

(***************************************************************************)
(* The packets of the peer: [seqno, len, flags] after header parsing.      *)
(***************************************************************************)
DataPackets ==
    {[seqno |-> StreamByte(1 + o), len |-> l, flags |-> f] :
        o \in 0..N, l \in 0..N, f \in {{}, {"FIN"}}}
RstPackets ==
    {[seqno |-> SeqAdd(IRS, o), len |-> 0, flags |-> {"RST"}] : o \in 0..(N + 2)}
IsStreamPacket(p) ==
    LET o == SeqSub(p.seqno, IRS) - 1
    IN /\ o + p.len <= N
       /\ ("FIN" \in p.flags) => o + p.len = N
\* A retransmission of the peer's SYN, which arrives after the handshake.
SynPackets == {[seqno |-> IRS, len |-> 0, flags |-> {"SYN"}]}
Packets == {p \in DataPackets : IsStreamPacket(p)} \cup RstPackets \cup SynPackets

\* TCPH_FLAGS & (TCP_FIN | TCP_SYN) counted in tcplen.
PktTcpLen(p) == p.len + (IF p.flags \cap {"FIN", "SYN"} # {} THEN 1 ELSE 0)

\* Sequence space a packet occupies stays inside rcv_nxt + rcv_wnd.
WithinWindow(p) ==
    TCP_SEQ_LEQ(SeqAdd(p.seqno, PktTcpLen(p)), SeqAdd(pcb.rcv_nxt, pcb.rcv_wnd))

(***************************************************************************)
(* L3_level_tcp_input(): the tcp_in_data set up for an arriving packet.    *)
(***************************************************************************)
InData(p) ==
    [seqno |-> p.seqno, tcplen |-> PktTcpLen(p), flags |-> p.flags,
     ackno |-> 0, wnd |-> 0,
     inseg |-> Seg(p.seqno, p.len, "FIN" \in p.flags),
     recv_data |-> <<>>, recv_flags |-> {}]

\* The pcb goes through tcp_process() and the upcalls (module TcpProcess).
ActiveInput(p, copyOk, rres, cres) ==
    \E r \in {tcp_process(pcb, InData(p), copyOk, "ERR_OK")} :
    \E u \in {Dispatch(r, "ERR_OK", rres, cres)} :
        /\ pcb' = u.pcb
        /\ delivered' = delivered \o u.data
        /\ finSignalled' = (finSignalled \/ u.eof)

\* No syn_tw_handled_cb is registered here: a SYN in TIME_WAIT is dropped.
TimeWaitInput(p) ==
    /\ pcb' = tcp_timewait_input(pcb, InData(p), FALSE, 0, RCV_WND, "ERR_OK", "ERR_OK")
    /\ UNCHANGED <<delivered, finSignalled>>

(***************************************************************************)
(* L3_level_tcp_input(): dispatch on the pcb.  A freed pcb is no longer    *)
(* found: the packet is answered with a RST, if it is not one itself, and  *)
(* nothing changes.                                                        *)
(***************************************************************************)
L3_level_tcp_input(p, copyOk, rres, cres) ==
    /\ PEER_RESPECTS_WND /\ "RST" \notin p.flags => WithinWindow(p)
    /\ CASE pcb.state = "CLOSED"    -> UNCHANGED vars
         [] pcb.state = "TIME_WAIT" -> TimeWaitInput(p)
         [] OTHER                   -> ActiveInput(p, copyOk, rres, cres)

(***************************************************************************)
(* The fast timer (tcp_fasttmr in tcp.c) sends a pending delayed ACK.      *)
(***************************************************************************)
DelayedAckTimer ==
    /\ pcb.state # "CLOSED"
    /\ "ACK_DELAY" \in pcb.flags
    /\ pcb' = [pcb EXCEPT !.flags = @ \ {"ACK_DELAY"}]
    /\ UNCHANGED <<delivered, finSignalled>>

-----------------------------------------------------------------------------

(***************************************************************************)
(* The send side is idle: everything sent has been acknowledged, nothing   *)
(* is queued and the retransmission timer is off.                          *)
(***************************************************************************)
Init ==
    /\ pcb \in {[state |-> st, rcv_nxt |-> StreamByte(1), rcv_wnd |-> RCV_WND,
                 rcv_wnd_max |-> RCV_WND, ooseq |-> <<>>, flags |-> {}, quickack |-> q,
                 lastack |-> 0, snd_nxt |-> 0, unacked |-> <<>>, unsent |-> <<>>,
                 acked |-> 0, dupacks |-> 0, snd_queuelen |-> 0, snd_wnd |-> RCV_WND,
                 snd_wnd_max |-> RCV_WND, snd_wl1 |-> IRS, snd_wl2 |-> 0,
                 persist_backoff |-> 0, rtime |-> -1, timestamps |-> FALSE] :
                    st \in INIT_STATES, q \in QUICKACK}
    /\ delivered = <<>>
    /\ finSignalled = FALSE

Arrive ==
    \E p \in Packets, copyOk \in BOOLEAN, rres \in RECV_RESULTS, cres \in CLOSED_RESULTS :
        L3_level_tcp_input(p, copyOk, rres, cres)

Next == Arrive \/ DelayedAckTimer

(***************************************************************************)
(* The peer retransmits what is not yet acknowledged: the rest of its      *)
(* stream from rcv_nxt, with the FIN, is sent again until a copy gets      *)
(* through.  This is an assumption about the peer and the network, not     *)
(* about this code.                                                        *)
(***************************************************************************)
Unacked == N + 1 - SeqSub(pcb.rcv_nxt, StreamByte(1))
Retransmission ==
    /\ Unacked > 0
    /\ \E rr \in RECV_RESULTS, cr \in CLOSED_RESULTS :
          L3_level_tcp_input([seqno |-> pcb.rcv_nxt, len |-> Unacked - 1,
                              flags |-> {"FIN"}], TRUE, rr, cr)

Fairness == WF_vars(Retransmission)

Spec == Init /\ [][Next]_vars
FairSpec == Spec /\ Fairness

-----------------------------------------------------------------------------
(***************************************************************************)
(* Properties                                                              *)
(***************************************************************************)

Alive == pcb.state # "CLOSED"

TypeOK ==
    /\ pcb.state \in {TcpStates[i] : i \in 1..Len(TcpStates)}
    /\ pcb.rcv_nxt \in 0..(SEQ_SPACE - 1)
    /\ pcb.rcv_wnd \in 0..(WND_SPACE - 1)
    /\ pcb.ooseq \in Seq([seqno : 0..(SEQ_SPACE - 1), len : 0..N, fin : BOOLEAN])
    /\ pcb.flags \subseteq {"ACK_NOW", "ACK_DELAY"}
    /\ delivered \in Seq(0..(SEQ_SPACE - 1))
    /\ finSignalled \in BOOLEAN

(***************************************************************************)
(* The out-of-order queue built by tcp_receive() and                       *)
(* tcp_oos_insert_segment() is sorted, its segments are non-empty and do   *)
(* not overlap, all of them lie strictly beyond rcv_nxt (so the drain loop *)
(* "ooseq->seqno == rcv_nxt" can reach each of them), and only the last    *)
(* may carry the FIN.                                                      *)
(***************************************************************************)
OoseqWellFormed ==
    Alive =>
    LET q == pcb.ooseq
    IN /\ \A i \in 1..Len(q) :
            /\ TCP_TCPLEN(q[i]) > 0
            /\ TCP_SEQ_GT(q[i].seqno, pcb.rcv_nxt)
            /\ q[i].fin => i = Len(q)
       /\ \A i \in 1..(Len(q) - 1) : TCP_SEQ_LEQ(SegEnd(q[i]), q[i+1].seqno)

(***************************************************************************)
(* rcv_nxt, advanced by tcp_receive() for in-sequence data and for the     *)
(* ->ooseq segments it drains, accounts exactly for the bytes handed to    *)
(* the recv upcall in L3_level_tcp_input() plus the FIN signalled to it.   *)
(***************************************************************************)
RcvNxtMatchesDelivered ==
    Alive /\ pcb.state # "TIME_WAIT" =>
        pcb.rcv_nxt = SeqAdd(IRS, 1 + Len(delivered) + (IF finSignalled THEN 1 ELSE 0))

(***************************************************************************)
(* The receive window never grows beyond its maximum: the subtractions of  *)
(* tcp_receive() ("pcb->rcv_wnd -= tcplen", the assertion "ooseq tcplen >  *)
(* rcv_wnd") never underflow the u32_t, and the credits given back in      *)
(* L3_level_tcp_input() (refused data, the FIN correction) never exceed    *)
(* what was taken.                                                         *)
(***************************************************************************)
RcvWndBounded == Alive => pcb.rcv_wnd <= pcb.rcv_wnd_max

(***************************************************************************)
(* Window accounting: every sequence number tcp_receive() takes out of     *)
(* rcv_wnd is data now held by the application, or a FIN whose unit        *)
(* L3_level_tcp_input() gives back ("correct rcv_wnd as the application    *)
(* won't call tcp_recved() for the FIN's seqno"), so rcv_wnd is short of   *)
(* its maximum by exactly the bytes the recv upcall accepted.  (tcp_recved *)
(* by the application, which would give them back, is not modelled.)      *)
(***************************************************************************)
WindowAccounting ==
    Alive /\ pcb.state # "TIME_WAIT" =>
        pcb.rcv_wnd = pcb.rcv_wnd_max - Len(delivered)

(***************************************************************************)
(* Across one input call, rcv_nxt never moves back and the right edge of   *)
(* the receive window rcv_nxt + rcv_wnd never moves left.                  *)
(***************************************************************************)
RightEdge(pc) == SeqAdd(pc.rcv_nxt, pc.rcv_wnd)
RcvProgressMonotone ==
    [][pcb'.state # "CLOSED" =>
         /\ TCP_SEQ_GEQ(pcb'.rcv_nxt, pcb.rcv_nxt)
         /\ TCP_SEQ_GEQ(RightEdge(pcb'), RightEdge(pcb))]_vars

(***************************************************************************)
(* With the peer retransmitting and the window large enough for the whole  *)
(* stream, every byte and the FIN are eventually handed to the             *)
(* application, unless the connection goes away first.                     *)
(***************************************************************************)
AllEventuallyReceived ==
    <>(~Alive \/ (finSignalled /\ Len(delivered) = N))

=============================================================================

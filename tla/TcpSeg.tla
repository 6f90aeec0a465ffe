------------------------------- MODULE TcpSeg -------------------------------
(***************************************************************************)
(* Definitions shared by the modules of the lwIP/XLIO TCP input path       *)
(* (src/src/core/lwip/tcp_in.c): 32-bit sequence arithmetic, the TCP       *)
(* connection states in the order of enum tcp_state, and the tcp_seg       *)
(* queue node.                                                             *)
(*                                                                         *)
(* u32_t sequence numbers are reduced to SEQ_SPACE (a power of two) and    *)
(* the u32_t receive window to WND_SPACE; both wrap with %, so the         *)
(* comparison macros behave as the (s32_t) casts of the C macros do.       *)
(***************************************************************************)
EXTENDS Integers, Sequences

CONSTANTS
    SEQ_SPACE,   \* 2^w, the sequence number space (u32_t in the code)
    WND_SPACE    \* 2^v, the range of tcpwnd_size_t rcv_wnd (u32_t)

ASSUME SEQ_SPACE \in {2^k : k \in 3..16}
ASSUME WND_SPACE \in {2^k : k \in 3..16}

\* u32_t addition and subtraction on sequence numbers.
SeqAdd(a, b) == (a + b) % SEQ_SPACE
SeqSub(a, b) == (a - b) % SEQ_SPACE

\* The (s32_t) cast of a u32_t difference.
Signed(x) == IF x >= SEQ_SPACE \div 2 THEN x - SEQ_SPACE ELSE x

\* The comparison macros of tcp_impl.h: (s32_t)((u32_t)a - (u32_t)b) < 0 ...
TCP_SEQ_LT(a, b)  == Signed(SeqSub(a, b)) < 0
TCP_SEQ_LEQ(a, b) == Signed(SeqSub(a, b)) <= 0
TCP_SEQ_GT(a, b)  == Signed(SeqSub(a, b)) > 0
TCP_SEQ_GEQ(a, b) == Signed(SeqSub(a, b)) >= 0
TCP_SEQ_BETWEEN(a, b, c) == TCP_SEQ_GEQ(a, b) /\ TCP_SEQ_LEQ(a, c)

\* u32_t arithmetic on the receive window.
WndSub(a, b) == (a - b) % WND_SPACE
WndAdd(a, b) == (a + b) % WND_SPACE

(***************************************************************************)
(* enum tcp_state, in declaration order: tcp_receive() compares states     *)
(* with <, so the order is part of the behaviour.                          *)
(***************************************************************************)
TcpStates == <<"CLOSED", "LISTEN", "SYN_SENT", "SYN_RCVD", "ESTABLISHED",
               "FIN_WAIT_1", "FIN_WAIT_2", "CLOSE_WAIT", "CLOSING",
               "LAST_ACK", "TIME_WAIT">>
StateOrd(s) == CHOOSE i \in 1..Len(TcpStates) : TcpStates[i] = s
StateLT(s, t) == StateOrd(s) < StateOrd(t)

(***************************************************************************)
(* A tcp_seg: starting sequence number, payload length and the FIN flag of *)
(* its header.  The payload is abstracted to its sequence range: the byte  *)
(* at sequence number q is the byte the peer sent at q.                    *)
(***************************************************************************)
Seg(s, l, f) == [seqno |-> s, len |-> l, fin |-> f]

\* TCP_TCPLEN(seg): payload length plus one for FIN (no SYN on these segments).
TCP_TCPLEN(seg) == seg.len + (IF seg.fin THEN 1 ELSE 0)

\* Sequence number one past the payload of seg (seqno + len).
SegEnd(seg) == SeqAdd(seg.seqno, seg.len)

\* The payload of seg as the list of sequence numbers of its bytes.
SegBytes(seg) == [i \in 1..seg.len |-> SeqAdd(seg.seqno, i - 1)]

(***************************************************************************)
(* Then(x, Op) is Op(x); x is evaluated once and Op applied to its value,  *)
(* which keeps a chain of C statements, each using the result of the one   *)
(* before, linear to evaluate.                                             *)
(***************************************************************************)
Then(x, Op(_)) == CHOOSE y \in {Op(v) : v \in {x}} : TRUE

=============================================================================

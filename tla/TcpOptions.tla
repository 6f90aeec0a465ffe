------------------------------ MODULE TcpOptions ----------------------------
(***************************************************************************)
(* The option parsers of src/src/core/lwip/tcp_in.c: tcp_parseopt(), which *)
(* applies the MSS, window-scale and timestamp options of a segment to the *)
(* pcb, and tcp_parseopt_ts(), which only looks for a timestamp (the       *)
(* TIME_WAIT reuse test).                                                  *)
(*                                                                         *)
(* The options area is the sequence of bytes after the fixed TCP header;   *)
(* in.opts holds it followed by the bytes that come after it in the        *)
(* packet, since the code reads opts[c + 1] before it knows that c + 1 is  *)
(* still inside the area.  in.optlen is max_c = (TCPH_HDRLEN - 5) << 2.    *)
(* The pcb fields the parser writes: mss, snd_scale, rcv_scale, ts_recent  *)
(* and the flags "WND_SCALE" (TF_WND_SCALE) and "TIMESTAMP"                *)
(* (TF_TIMESTAMP); it reads advtsd_mss, enable_ts_opt and ts_lastacksent.  *)
(***************************************************************************)
EXTENDS TcpSeg

CONSTANTS
    ENABLE_WND_SCALE,   \* the global enable_wnd_scale
    RCV_WND_SCALE       \* the global rcv_wnd_scale

ASSUME ENABLE_WND_SCALE \in BOOLEAN /\ RCV_WND_SCALE \in 0..14

\* opts[c]: the area is indexed from 0 in the code.
Byte(o, c) == o[c + 1]

\* read32_be(&opts[c]).
Read32(o, c) == ((Byte(o, c) * 256 + Byte(o, c + 1)) * 256 + Byte(o, c + 2)) * 256
                + Byte(o, c + 3)

(***************************************************************************)
(* MSS (kind 2), applied only on a SYN: a value above advtsd_mss, or zero, *)
(* is replaced by advtsd_mss; UPDATE_PCB_BY_MSS stores it in pcb->mss.     *)
(***************************************************************************)
MssOption(pc, in, c) ==
    LET mss == Byte(in.opts, c + 2) * 256 + Byte(in.opts, c + 3)
    IN IF "SYN" \in in.flags
       THEN [pc EXCEPT !.mss = IF mss > pc.advtsd_mss \/ mss = 0 THEN pc.advtsd_mss ELSE mss]
       ELSE pc

(***************************************************************************)
(* Window scale (kind 3), taken from a SYN when scaling is enabled and not *)
(* yet negotiated (not a retransmitted SYN); the shift is capped at 14.    *)
(***************************************************************************)
\* Mutation: the shift is not capped.
WsOption_nocap(pc, in, c) ==
    IF ENABLE_WND_SCALE /\ "SYN" \in in.flags /\ "WND_SCALE" \notin pc.flags
    THEN [pc EXCEPT !.snd_scale = Byte(in.opts, c + 2),
                    !.rcv_scale = RCV_WND_SCALE,
                    !.flags = @ \cup {"WND_SCALE"}]
    ELSE pc

WsOption(pc, in, c) ==
    IF ENABLE_WND_SCALE /\ "SYN" \in in.flags /\ "WND_SCALE" \notin pc.flags
    THEN [pc EXCEPT !.snd_scale = IF Byte(in.opts, c + 2) > 14 THEN 14
                                  ELSE Byte(in.opts, c + 2),
                    !.rcv_scale = RCV_WND_SCALE,
                    !.flags = @ \cup {"WND_SCALE"}]
    ELSE pc

(***************************************************************************)
(* Timestamp (kind 8): on a SYN, recorded and TF_TIMESTAMP set if the pcb  *)
(* enables the option; otherwise recorded when ts_lastacksent lies in      *)
(* [seqno, seqno + tcplen].                                                *)
(***************************************************************************)
TsOption(pc, in, c) ==
    LET tsval == Read32(in.opts, c + 2)
    IN CASE "SYN" \in in.flags /\ pc.enable_ts_opt ->
                [pc EXCEPT !.ts_recent = tsval, !.flags = @ \cup {"TIMESTAMP"}]
         [] "SYN" \in in.flags -> pc
         [] TCP_SEQ_BETWEEN(pc.ts_lastacksent, in.seqno, SeqAdd(in.seqno, in.tcplen)) ->
                [pc EXCEPT !.ts_recent = tsval]
         [] OTHER -> pc

\* Mutation: an option ending exactly at max_c counts as running past it.
BadLength_offbyone(in, c, len) == Byte(in.opts, c + 1) # len \/ c + len >= in.optlen

\* A known option whose length byte is wrong or which runs past max_c.
BadLength(in, c, len) == Byte(in.opts, c + 1) # len \/ c + len > in.optlen

(***************************************************************************)
(* The loop "for (c = 0; c < max_c;)": end of options and a bad length     *)
(* return, NOP advances one byte, an unknown kind is skipped by its length *)
(* byte unless that is zero.                                               *)
(***************************************************************************)
RECURSIVE ParseFrom(_, _, _)
ParseFrom(pc, in, c) ==
    LET opt == Byte(in.opts, c)
    IN CASE c >= in.optlen -> pc
         [] opt = 0 -> pc
         [] opt = 1 -> ParseFrom(pc, in, c + 1)
         [] opt = 2 -> IF BadLength(in, c, 4) THEN pc
                       ELSE ParseFrom(MssOption(pc, in, c), in, c + 4)
         [] opt = 3 -> IF BadLength(in, c, 3) THEN pc
                       ELSE ParseFrom(WsOption(pc, in, c), in, c + 3)
         [] opt = 8 -> IF BadLength(in, c, 10) THEN pc
                       ELSE ParseFrom(TsOption(pc, in, c), in, c + 10)
         [] Byte(in.opts, c + 1) = 0 -> pc
         [] OTHER -> ParseFrom(pc, in, c + Byte(in.opts, c + 1))

\* tcp_parseopt(): options are present when TCPH_HDRLEN > 5.
tcp_parseopt(pc, in) == IF in.optlen > 0 THEN ParseFrom(pc, in, 0) ELSE pc

(***************************************************************************)
(* tcp_parseopt_ts(opts, opts_len, &tsval): [found |-> .., tsval |-> ..].  *)
(* Only kinds 0, 1 and 8 are known to it; MSS and window scale are skipped *)
(* by their length byte like any unknown kind.                             *)
(***************************************************************************)
RECURSIVE TsFrom(_, _, _)
TsFrom(o, len, c) ==
    CASE c >= len -> [found |-> FALSE, tsval |-> 0]
      [] Byte(o, c) = 8 ->
            IF Byte(o, c + 1) # 10 \/ c + 10 > len THEN [found |-> FALSE, tsval |-> 0]
            ELSE [found |-> TRUE, tsval |-> Read32(o, c + 2)]
      [] Byte(o, c) = 0 -> [found |-> FALSE, tsval |-> 0]
      [] Byte(o, c) = 1 -> TsFrom(o, len, c + 1)
      [] Byte(o, c + 1) = 0 -> [found |-> FALSE, tsval |-> 0]
      [] OTHER -> TsFrom(o, len, c + Byte(o, c + 1))

tcp_parseopt_ts(o, len) == TsFrom(o, len, 0)

-----------------------------------------------------------------------------
(***************************************************************************)
(* A pcb receiving a stream of segments, each parsed by tcp_parseopt() as  *)
(* tcp_process() does for every segment (and tcp_listen_input() and       *)
(* tcp_pcb_reuse() for a SYN).  PCBS are the pcbs before the first         *)
(* segment, SEGMENTS the segments that may arrive.                         *)
(*                                                                         *)
(* Each segment also carries, as the field items, the options its area was *)
(* built from: records [kind |-> k, v |-> value, bytes |-> encoding] with  *)
(* k one of "EOL", "NOP", "MSS", "WS", "TS", "UNKNOWN" (skipped by its     *)
(* length) and "BAD" (a known kind with a wrong length, or an unknown one  *)
(* with length 0).  The code never reads it; the reference does.          *)
(***************************************************************************)
CONSTANTS PCBS, SEGMENTS

VARIABLE pcb

Init == pcb \in PCBS

Arrive == \E s \in SEGMENTS : pcb' = tcp_parseopt(pcb, s)

Spec == Init /\ [][Arrive]_pcb

(***************************************************************************)
(* The reference, from the description of the option parser: the options  *)
(* are taken in order; an end-of-options, a malformed option or one that   *)
(* does not lie wholly inside the area ends the parse and leaves the       *)
(* options already applied in place.  MSS is taken on a SYN, clamped to    *)
(* advtsd_mss and never zero; window scale on a SYN that does not repeat a *)
(* negotiation, capped at 14; a timestamp on a SYN when enabled, and on    *)
(* another segment when its range [seqno, seqno + tcplen] covers the last  *)
(* acknowledgement sent.                                                   *)
(***************************************************************************)
ItemLen(it) == Len(it.bytes)

ApplyItem(pc, s, it) ==
    LET syn == "SYN" \in s.flags
    IN CASE it.kind = "MSS" /\ syn ->
                [pc EXCEPT !.mss = IF it.v \in 1..pc.advtsd_mss THEN it.v ELSE pc.advtsd_mss]
         [] it.kind = "WS" /\ syn /\ ENABLE_WND_SCALE /\ "WND_SCALE" \notin pc.flags ->
                [pc EXCEPT !.snd_scale = IF it.v < 14 THEN it.v ELSE 14,
                           !.rcv_scale = RCV_WND_SCALE,
                           !.flags = @ \cup {"WND_SCALE"}]
         [] it.kind = "TS" /\ syn /\ pc.enable_ts_opt ->
                [pc EXCEPT !.ts_recent = it.v, !.flags = @ \cup {"TIMESTAMP"}]
         [] it.kind = "TS" /\ ~syn /\ SeqSub(pc.ts_lastacksent, s.seqno) <= s.tcplen ->
                [pc EXCEPT !.ts_recent = it.v]
         [] OTHER -> pc

RECURSIVE Reference(_, _, _, _)
Reference(pc, s, i, at) ==
    CASE i > Len(s.items) -> pc
      [] s.items[i].kind \in {"EOL", "BAD"} -> pc
      [] at + ItemLen(s.items[i]) > s.optlen -> pc
      [] OTHER -> Reference(ApplyItem(pc, s, s.items[i]), s, i + 1, at + ItemLen(s.items[i]))


-----------------------------------------------------------------------------
\* The MSS is never zero (it divides) and never above advtsd_mss; the shifts are at most 14.
TypeOK ==
    /\ pcb.mss \in 1..pcb.advtsd_mss
    /\ pcb.snd_scale \in 0..14
    /\ pcb.rcv_scale \in 0..14
    /\ pcb.flags \subseteq {"WND_SCALE", "TIMESTAMP"}
    /\ pcb.ts_recent \in Nat

(***************************************************************************)
(* Whatever state the pcb has reached, tcp_parseopt() applied to any       *)
(* segment that may arrive next has the effect of the reference: the walk  *)
(* over the options (NOP, skipping unknown kinds by length, stopping at    *)
(* end-of-options, a bad length or the end of the area, and never taking   *)
(* anything from the bytes after the area) applies exactly the options     *)
(* the segment was built from, up to the first one that ends the parse.    *)
(***************************************************************************)
ParseMatchesReference ==
    \A s \in SEGMENTS : tcp_parseopt(pcb, s) = Reference(pcb, s, 1, 0)

=============================================================================

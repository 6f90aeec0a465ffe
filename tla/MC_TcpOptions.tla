---------------------------- MODULE MC_TcpOptions ----------------------------
(***************************************************************************)
(* Model-checking instance of TcpOptions: segments whose options area is   *)
(* built from up to two options of every kind (well-formed, unknown,       *)
(* malformed, end-of-options), padded with NOPs to a multiple of four,     *)
(* with the header length giving the whole area or cutting it short, and   *)
(* with a byte of payload after the area.                                  *)
(***************************************************************************)
EXTENDS TcpOptions

Zeros(n) == [i \in 1..n |-> 0]

EOL == [kind |-> "EOL", v |-> 0, bytes |-> <<0>>]
NOP == [kind |-> "NOP", v |-> 0, bytes |-> <<1>>]
Mss(v) == [kind |-> "MSS", v |-> v, bytes |-> <<2, 4, v \div 256, v % 256>>]
Ws(s) == [kind |-> "WS", v |-> s, bytes |-> <<3, 3, s>>]
Ts(t) == [kind |-> "TS", v |-> t, bytes |-> <<8, 10, 0, 0, 0, t>> \o Zeros(4)]
Unknown(l) == [kind |-> "UNKNOWN", v |-> l,
               bytes |-> <<5, l>> \o Zeros(IF l > 2 THEN l - 2 ELSE 0)]
Bad(b) == [kind |-> "BAD", v |-> 0, bytes |-> b]

MC_Items ==
    {EOL, NOP, Mss(0), Mss(536), Mss(1000), Mss(9000), Ws(2), Ws(15), Ts(1), Ts(2),
     Unknown(1), Unknown(3),
     Bad(<<2, 3, 0>>), Bad(<<3, 4, 0, 0>>), Bad(<<8, 8>> \o Zeros(6)), Bad(<<5, 0>>)}

MC_Lists == {<<>>} \cup {<<a>> : a \in MC_Items} \cup {<<a, b>> : a, b \in MC_Items}

Bytes(L) == LET RECURSIVE Cat(_)
                Cat(i) == IF i > Len(L) THEN <<>> ELSE L[i].bytes \o Cat(i + 1)
            IN Cat(1)

\* The area, padded with NOPs to a multiple of four bytes.
Area(L) == LET b == Bytes(L) IN b \o [i \in 1..((4 - (Len(b) % 4)) % 4) |-> 1]

\* The header lengths that give the whole area of L or cut it short.
OptLens(L) == {4 * k : k \in IF L = <<>> THEN {0} ELSE 1..(Len(Area(L)) \div 4)}

MC_Segments ==
    UNION {{[opts |-> Area(L) \o <<p>>, optlen |-> n, flags |-> f, seqno |-> sq[1],
             tcplen |-> sq[2], items |-> L] :
               p \in {0, 4}, f \in {{"SYN"}, {"ACK"}},
               sq \in {<<5, 0>>, <<6, 0>>}, n \in OptLens(L)} : L \in MC_Lists}

MC_Pcbs ==
    {[mss |-> a, advtsd_mss |-> a, snd_scale |-> 0, rcv_scale |-> 0, flags |-> {},
      ts_recent |-> 0, enable_ts_opt |-> e, ts_lastacksent |-> 5] :
        a \in {536, 1460, 9000}, e \in BOOLEAN}

=============================================================================

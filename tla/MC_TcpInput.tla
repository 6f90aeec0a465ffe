---------------------------- MODULE MC_TcpInput -----------------------------
(***************************************************************************)
(* Model-checking instance of TcpInput, and the refinement of RcvStream.   *)
(***************************************************************************)
EXTENDS TcpInput

\* The stream the application must see: the bytes IRS+1 .. IRS+N.
PeerStream == [i \in 1..N |-> StreamByte(i)]

Abs == INSTANCE RcvStream WITH Stream <- PeerStream,
                               delivered <- delivered,
                               finSignalled <- finSignalled,
                               open <- Alive

(***************************************************************************)
(* The input path implements RcvStream: every input call hands the         *)
(* application the next bytes of the peer's stream in order and exactly    *)
(* once, the EOF only after the last byte, and nothing after a reset or an *)
(* abort.                                                                  *)
(***************************************************************************)
DeliversStream == Abs!Spec

=============================================================================

----------------------------- MODULE MC_TcpSend ------------------------------
(***************************************************************************)
(* Model-checking instance of TcpSend.                                     *)
(***************************************************************************)
EXTENDS TcpSend

\* A copied segment of three pbufs and a zero-copy one of two.
MC_Segs == << [p |-> <<2, 1, 1>>, zc |-> FALSE], [p |-> <<2, 1>>, zc |-> TRUE] >>

=============================================================================

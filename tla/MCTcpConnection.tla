-------------------------- MODULE MCTcpConnection --------------------------
(***************************************************************************)
(* Small instances of TcpConnection for TLC.                               *)
(***************************************************************************)
EXTENDS TcpConnection

CONSTANTS w1, w2, m1, m2, m3

OneWriter     == {w1}
TwoWriters    == {w1, w2}
ThreeMessages == {m1, m2, m3}
=============================================================================

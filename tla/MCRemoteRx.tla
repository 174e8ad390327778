----------------------------- MODULE MCRemoteRx -----------------------------
(***************************************************************************)
(* Payloads of RemoteRx for TLC.                                           *)
(***************************************************************************)
EXTENDS RemoteRx

\* The two values of a switch, which the checksum cannot tell apart; a byte that
\* it can; a payload whose checksum is the magic (the packet is FE ED 38 C8
\* FE ED); and one whose packet has a right checksum behind a stray magic
\* (FE ED, FE ED B1 D9).
Payloads == {<<0, 0>>, <<255, 0>>, <<0, 1>>, <<56, 200>>, <<177, 217>>}

=============================================================================

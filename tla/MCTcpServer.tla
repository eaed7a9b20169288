---------------------------- MODULE MCTcpServer ----------------------------
(* Instances of TcpServer for TLC: what the clients write. *)
EXTENDS TcpServer

\* Two lines; a blank line and an unfinished one; a Nul between two lines.
SmallTexts == {<<"a", "nl", "b", "nl">>,
               <<"nl", "b", "nl", "a">>,
               <<"a", "nul", "nl", "b", "nl">>}
=============================================================================

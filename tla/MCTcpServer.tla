---------------------------- MODULE MCTcpServer ----------------------------
(* Two listening sockets, a client and three descriptors: numbers are      *)
(* given out again while their old users still close them.  A second stop  *)
(* is tried in the first run and with one listening socket in use, to keep *)
(* the states few.                                                         *)
EXTENDS TcpServer

CONSTANTS l1, l2, c1

TwoListeners == {l1, l2}
OneClient == {c1}

\* No step that a fairness condition is about starts a run or brings l2 into use.
Few == stops > 1 => /\ starts < 2 /\ l2 \notin m_listen_socks \cup Held
                    /\ m_sock_fd[l2] = 0 /\ Inside(l2) = {}

MCSpec == Init /\ [][Next /\ Few']_vars /\ Fairness
=============================================================================

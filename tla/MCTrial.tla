------------------------------- MODULE MCTrial -------------------------------
(***************************************************************************)
(* The calls of run_trial the program makes: a trial of the search, which  *)
(* may stop early and measure a close call again; a sweep over two power   *)
(* settings; the sweep of a pair, driven by two clients; and a layout of   *)
(* replicas, where a client may have no prompt.                            *)
(***************************************************************************)
EXTENDS Trial

MCMode(clients, enough, close, settings) ==
  [clients |-> clients, enough |-> enough, close |-> close, settings |-> settings]

\* Two levels of synthetic prompts; a file of sixteen, which has four prompts for each level
\* and four for measuring it again; one of eight, which has only the first; and one of
\* four, which has two for each level.  The lower level of a file is capped at two requests.
MCTexts == {Synthetic(3, <<1, 2>>, 0), FromFile(16, <<1, 2>>, 2), FromFile(8, <<1, 2>>, 2), FromFile(4, <<1, 2>>, 2)}

MCCalls ==
  [w : MCTexts, mode : {MCMode(1, TRUE, TRUE, 1), MCMode(1, FALSE, TRUE, 1), MCMode(1, FALSE, FALSE, 2)}]
    \cup {[w |-> Synthetic(2, <<2>>, 0), mode |-> MCMode(2, FALSE, FALSE, 2)],
          [w |-> Synthetic(4, <<2>>, 0), mode |-> MCMode(2, FALSE, FALSE, 1)],
          [w |-> Synthetic(3, <<1>>, 0), mode |-> MCMode(2, FALSE, FALSE, 1)],
          [w |-> Synthetic(3, <<3>>, 0), mode |-> MCMode(2, FALSE, FALSE, 1)],
          [w |-> Synthetic(1, <<1, 2>>, 0), mode |-> MCMode(2, FALSE, FALSE, 1)]}
=============================================================================

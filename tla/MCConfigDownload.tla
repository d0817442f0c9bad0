-------------------------- MODULE MCConfigDownload --------------------------
(* Two chains that share a node directory, and concurrent requests.         *)
EXTENDS ConfigDownload, TLC

CONSTANTS c1, c2, o1, o2, n1, n2, r1, r2

\* c1 has a node in each organisation; c2 reuses o2's node n2, so a
\* download of c2 writes into a directory a download of c1 also fills.
MCChainNodes == c1 :> << <<o1, n1>>, <<o2, n2>> >> @@ c2 :> << <<o2, n2>> >>
=============================================================================

----------------------------- MODULE MCPipeline -----------------------------
(***************************************************************************)
(* Instances of Pipeline.  A user follows a source from the start; another *)
(* may subscribe to it while updates run.                                  *)
(***************************************************************************)
EXTENDS Pipeline, TLC

CONSTANTS u1, u2

MCHandle == [j \in Subscribe \cup Test |-> "s"]
MCUser == [j \in Subscribe |-> IF j = "subscribe" THEN u2 ELSE u1]
MCTyped == [j \in Test |-> {"x?a"}]
MCSubscribed == {<<u1, "s">>}
TwoSubscribed == {<<u1, "s">>, <<u2, "t">>}

UpdateSymmetry == Permutations(Update)

\* The link "x?a" is one of the article "x" with a query that names a campaign.
MCNormalizeUrl == [link \in Link |-> IF link = "x?a" THEN "x" ELSE link]

\* One source, whose tweets may be without a link.
OneSource == [link : Link \cup {NoLink}, source : {"s"}]

\* Two sources that tweet the same article.
SharedLink == {[link |-> "x", source |-> "s"], [link |-> "x?a", source |-> "t"]}
=============================================================================

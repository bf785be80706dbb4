----------------------------- MODULE MCFeedView -----------------------------
(***************************************************************************)
(* Two documents of one source, one of another and one without; pages of  *)
(* two, so that the feed can be shorter than, as long as and longer than a *)
(* page.                                                                   *)
(***************************************************************************)
EXTENDS FeedView

MCDoc == {"a1", "a2", "b1", "x"}
MCSource == {"a", "b"}
MCSourceOf == [d \in MCDoc |-> CASE d = "b1" -> "b" [] d = "x" -> "none" [] OTHER -> "a"]
=============================================================================

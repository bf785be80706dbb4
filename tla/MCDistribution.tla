--------------------------- MODULE MCDistribution ---------------------------
(***************************************************************************)
(* Two articles of sources that are followed by two users and by one user, *)
(* and an article that nobody follows.                                     *)
(***************************************************************************)
EXTENDS Distribution

MCArticle == {"a", "b", "c"}
MCUser == {"u", "v"}
MCSubscribers == [x \in MCArticle |->
  CASE x = "a" -> {"u", "v"} [] x = "b" -> {"v"} [] OTHER -> {}]
=============================================================================

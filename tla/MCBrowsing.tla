----------------------------- MODULE MCBrowsing -----------------------------
(***************************************************************************)
(* A cell that is used for an article with a dark image, for one without   *)
(* an image and for one with a bright image; a list that preloads the      *)
(* bright image, and its successor, which preloads both.                   *)
(***************************************************************************)
EXTENDS Browsing

MCArticle == {"A", "B", "C"}
MCCanonical == [a \in MCArticle |-> a]
MCImage == [a \in MCArticle |-> CASE a = "A" -> "dark.jpg" [] a = "C" -> "bright.jpg" [] OTHER -> NoImage]
MCKey == {"dark.jpg", "bright.jpg", "html"}
MCLook == [k \in MCKey |-> IF k = "dark.jpg" THEN "dark" ELSE "bright"]
MCShows == <<"A", "B", "C">>
MCCellLoad == <<"cellA", "cellB", "cellC">>
MCSoonLoad == <<"soonA", "soonB", "soonC">>
MCListLoad == <<<<"list1">>, <<"list2", "list3">>>>
MCLoadable == {"cellA", "cellC", "soonA", "soonC", "list1", "list2", "list3", "view"}
MCKeyOf == [l \in MCLoadable |->
  CASE l = "view" -> "html" [] l \in {"cellA", "soonA", "list3"} -> "dark.jpg" [] OTHER -> "bright.jpg"]
MCPriority == [l \in MCLoadable |->
  CASE l = "view" -> 10 [] l \in {"cellA", "cellC"} -> 8 [] l \in {"soonA", "soonC"} -> 5 [] OTHER -> 4]
=============================================================================

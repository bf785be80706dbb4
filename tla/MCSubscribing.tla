---------------------------- MODULE MCSubscribing ----------------------------
(***************************************************************************)
(* Two spellings of one handle, another handle and a text of which nothing *)
(* is left.                                                                *)
(***************************************************************************)
EXTENDS Subscribing, TLC

MCStrip == "@NYT" :> "NYT" @@ "nyt" :> "nyt" @@ "@bbc" :> "bbc" @@ "@" :> ""
MCLower == "NYT" :> "nyt" @@ "nyt" :> "nyt" @@ "bbc" :> "bbc"
MCText == DOMAIN MCStrip
MCHandle == DOMAIN MCLower
MCSource == {MCLower[h] : h \in MCHandle}
=============================================================================

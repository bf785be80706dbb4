-------------------------- MODULE MCRequestManager --------------------------
(***************************************************************************)
(* Instances of RequestManager for TLC.  The feed instance is the shared   *)
(* manager of the app: a cell's image, which is alreadyInflight, a preload *)
(* of the same image, and the HTML of an article, which takes all points.  *)
(***************************************************************************)
EXTENDS RequestManager, TLC

FeedLoadable == {"cell", "preload", "html"}
FeedKey == {"image", "article"}
FeedKeyOf == [l \in FeedLoadable |-> IF l = "html" THEN "article" ELSE "image"]
FeedPriority == [l \in FeedLoadable |->
  CASE l = "html" -> 10 [] l = "cell" -> 8 [] OTHER -> 4]

(***************************************************************************)
(* The burst instance: SectionedArticleView hands the manager one preload  *)
(* for each of BurstSize images in a single loop, in order of priority.    *)
(***************************************************************************)
BurstSize == 10
BurstLoadable == 1..BurstSize
BurstKeyOf == [l \in BurstLoadable |-> l]
BurstPriority == [l \in BurstLoadable |-> 400 - l]

BurstInit ==
  /\ queue = [l \in BurstLoadable |-> [op |-> "load", l |-> l]]
  /\ pending = {}
  /\ inflight = [k \in Key |-> NoTask]
  /\ remaining = One
  /\ cache = {}
  /\ called = [l \in Loadable |-> "no"]
  /\ toLoad = {}
  /\ running = {}
  /\ loads = [l \in Loadable |-> 1]
  /\ cancels = [l \in Loadable |-> 0]

\* Nothing is cancelled, every load succeeds and nothing is evicted.
BurstNext ==
  \E l \in Loadable : \/ LoadFinished(l, "ok")
                     \/ RunLoad(l) \/ RunDone(l) \/ Schedule(l)

BurstSpec == BurstInit /\ [][BurstNext]_vars
=============================================================================

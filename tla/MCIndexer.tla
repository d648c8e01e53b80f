------------------------------- MODULE MCIndexer -------------------------------
(* Instances of Indexer and WalletFeed for TLC. *)
EXTENDS WalletFeed

CONSTANTS noToken

LiveSpec == FeedSpec /\ Fairness
=============================================================================

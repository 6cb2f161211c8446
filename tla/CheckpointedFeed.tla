-------------------------- MODULE CheckpointedFeed --------------------------
(***************************************************************************)
(* What a consumer group with tracked offsets promises, for any number of  *)
(* feeds (a feed is one group's view of one partition): records get dealt  *)
(* with, a record dealt with stays so, and a checkpoint only covers        *)
(* records that have been dealt with.  Nothing is said of who works, of    *)
(* generations or of messages; the checkpoint may move back (a rewind).    *)
(***************************************************************************)
EXTENDS Integers

CONSTANT Feeds

VARIABLES
    handled,      \* per feed, the offsets dealt with
    checkpoint    \* per feed, the offset a restart resumes from, or -1

feedVars == <<handled, checkpoint>>

Backed == \A f \in Feeds : \A o \in 0 .. checkpoint[f] - 1 : o \in handled[f]

FeedInit ==
    /\ handled = [f \in Feeds |-> {}]
    /\ checkpoint = [f \in Feeds |-> -1]

Work ==
    /\ handled' \in [Feeds -> SUBSET Nat]
    /\ \A f \in Feeds : handled[f] \subseteq handled'[f]
    /\ UNCHANGED checkpoint

Checkpoint ==
    /\ checkpoint' \in [Feeds -> Nat \cup {-1}]
    /\ handled' \in [Feeds -> SUBSET Nat]
    /\ \A f \in Feeds :
          /\ handled[f] \subseteq handled'[f]
          /\ \A o \in 0 .. checkpoint'[f] - 1 : o \in handled'[f]

FeedNext == Work \/ Checkpoint

FeedSpec == FeedInit /\ [][FeedNext]_feedVars
=============================================================================

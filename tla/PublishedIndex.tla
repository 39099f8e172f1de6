--------------------------- MODULE PublishedIndex ---------------------------
(***************************************************************************)
(* What sherpa sync promises about the index (README: "an incremental      *)
(* index is provably identical to a from-scratch rebuild"; sync.py: the    *)
(* two are held "to identical active state").  The index is either in the  *)
(* middle of a sync or exactly the image of one commit, and it becomes the *)
(* image of the commit that HEAD named when that sync looked.              *)
(***************************************************************************)
CONSTANTS
  Commits, Unborn, IgnoreSets,
  Image,        \* Image[b]: the rebuilt index of a commit under some rules
  Torn,         \* the index while a sync rewrites it
  NoPin         \* no sync is under way

VARIABLES
  head,         \* HEAD
  index,        \* the index: an image, or Torn
  pinned        \* the commit and the rules the running sync builds, or NoPin

vars == <<head, index, pinned>>

Init ==
  /\ head = Unborn
  /\ index = Image[[commit |-> Unborn, ignored |-> {}]]
  /\ pinned = NoPin

MoveHead ==
  /\ head' \in Commits
  /\ UNCHANGED <<index, pinned>>

\* A sync resolves HEAD.
Pin ==
  /\ pinned = NoPin
  /\ \E s \in IgnoreSets : pinned' = [commit |-> head, ignored |-> s]
  /\ UNCHANGED <<head, index>>

\* It begins to write.
Tear ==
  /\ pinned # NoPin
  /\ index' = Torn
  /\ UNCHANGED <<head, pinned>>

\* Its last write completes the image of what it pinned.
Publish ==
  /\ pinned # NoPin
  /\ index = Torn
  /\ index' = Image[pinned]
  /\ UNCHANGED <<head, pinned>>

\* It ends, complete or not: an incomplete one leaves the index torn.
Unpin ==
  /\ pinned # NoPin
  /\ pinned' = NoPin
  /\ UNCHANGED <<head, index>>

Next == MoveHead \/ Pin \/ Tear \/ Publish \/ Unpin

Spec == Init /\ [][Next]_vars

=============================================================================

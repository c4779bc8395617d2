---------------------------- MODULE ChangeReview ----------------------------
(***************************************************************************)
(* What a monitored target promises its reader, without runs, checkpoints  *)
(* or timestamps: the content last seen, the changes waiting for a Human,  *)
(* and whether the target is shown as waiting.                             *)
(*                                                                         *)
(* Under "review" every new content opens a change that only a review      *)
(* closes, and the flag may fall only at a look that finds no change open. *)
(* Under "handoff" changes are passed on at once and none stays open.      *)
(***************************************************************************)
EXTENDS Naturals

CONSTANTS
  Contents,   \* contents a page can have
  Nothing,    \* no content seen yet; none of Contents
  ChangeIds   \* natural numbers a change can be opened under

VARIABLES
  mode,     \* "review" or "handoff"
  known,    \* content last seen
  open,     \* changes waiting for a Human
  flagged   \* the target is shown as waiting for a Human

vars == <<mode, known, open, flagged>>

Init ==
  /\ mode \in {"review", "handoff"}
  /\ known = Nothing
  /\ open = {}
  /\ flagged = FALSE

FirstLook(content) ==
  /\ known = Nothing
  /\ known' = content
  /\ UNCHANGED <<mode, open, flagged>>

\* A new content opens a change with a number of its own.
OpenChange(content, change) ==
  /\ mode = "review"
  /\ known # Nothing /\ content # known
  /\ \A c \in open : c < change
  /\ known' = content
  /\ open' = open \cup {change}
  /\ flagged' = TRUE
  /\ UNCHANGED mode

HandOver(content) ==
  /\ mode = "handoff"
  /\ known # Nothing /\ content # known
  /\ known' = content
  /\ UNCHANGED <<mode, open, flagged>>

\* A look that found nothing new, or failed: the flag follows the open changes.
Refresh ==
  /\ flagged' = (open # {})
  /\ UNCHANGED <<mode, known, open>>

Review(change) ==
  /\ change \in open
  /\ open' = open \ {change}
  /\ UNCHANGED <<mode, known, flagged>>

Next ==
  \/ \E content \in Contents :
       \/ FirstLook(content)
       \/ HandOver(content)
       \/ \E change \in ChangeIds : OpenChange(content, change)
  \/ Refresh
  \/ \E change \in open : Review(change)

Spec == Init /\ [][Next]_vars
=============================================================================

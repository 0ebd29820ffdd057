----------------------------- MODULE Revisions -----------------------------
(***************************************************************************)
(* What Fahriva promises about the scores of a week, without transactions: *)
(* published revisions form a stack.  A draft is put on top of the very    *)
(* revision its preview showed, the top is taken off again once and for    *)
(* all, and nothing else changes.                                          *)
(***************************************************************************)
EXTENDS Integers

CONSTANTS Imports, Nil
VARIABLES
    top,        \* the revision drivers see, or Nil
    under,      \* pairs: a published revision and the one it replaced
    drafts,     \* pairs: a draft and the revision its preview showed
    retired     \* revisions taken back

revisions == <<top, under, drafts, retired>>

Names == {p[1] : p \in under \cup drafts} \cup retired

RevisionsInit == top = Nil /\ under = {} /\ drafts = {} /\ retired = {}

Draft ==
    /\ \E i \in Imports \ Names : drafts' = drafts \cup {<<i, top>>}
    /\ UNCHANGED <<top, under, retired>>

Publish ==
    \E i \in Imports :
        /\ <<i, top>> \in drafts
        /\ drafts' = drafts \ {<<i, top>>}
        /\ top' = i
        /\ under' = under \cup {<<i, top>>}
        /\ UNCHANGED retired

TakeBack ==
    \E j \in Imports \cup {Nil} :
        /\ <<top, j>> \in under
        /\ under' = under \ {<<top, j>>}
        /\ top' = j
        /\ retired' = retired \cup {top}
        /\ UNCHANGED drafts

RevisionsNext == Draft \/ Publish \/ TakeBack

RevisionsSpec == RevisionsInit /\ [][RevisionsNext]_revisions
=============================================================================

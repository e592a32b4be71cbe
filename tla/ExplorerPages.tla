----------------------------- MODULE ExplorerPages -----------------------------
(***************************************************************************)
(* The pages of Explorer over one copy: whichever is looked at, a step is  *)
(* one of the copy (the sync process, the peers, the clock), the server    *)
(* stopping, or one of the page and of the routes it asks.                 *)
(***************************************************************************)
EXTENDS ExplorerLists, ExplorerDialogs, ExplorerFigures, ExplorerUsers

readers == <<lists, search, dialogs, figures, users>>
vars == <<world, server, events, kind, readers>>

Init == CopyInit /\ ListsInit /\ SearchInit /\ DialogsInit /\ FiguresInit /\ UsersInit

Next ==
  \/ (World \/ Stop) /\ UNCHANGED readers
  \/ /\ UNCHANGED <<world, kind>>
     /\ \/ kind = "list" /\ PagedList /\ UNCHANGED <<search, dialogs, figures, users>>
        \/ kind = "range" /\ RangeSearch /\ UNCHANGED <<search, dialogs, figures, users>>
        \/ kind = "search" /\ SearchField /\ UNCHANGED <<lists, dialogs, figures, users>>
        \/ kind = "dialog" /\ Dialogs /\ UNCHANGED <<lists, search, figures, users>>
        \/ kind \in Reports /\ Figures /\ UNCHANGED <<lists, search, dialogs, users>>
        \/ kind = "users" /\ UsersPanel /\ UNCHANGED <<lists, search, dialogs, figures>>

Spec == Init /\ [][Next]_vars

-------------------------------------------------------------------------------
(* Properties; NothingSkipped is that of the lists. *)

\* The types of every part, and the shape of the copy the pages read.
TypeOK == CopyOK /\ ListsOK /\ SearchOK /\ DialogsOK /\ FiguresOK /\ UsersOK

\* What is shown for a range of blocks, a search or a row that was clicked is what the
\* channel has, however the copy, the answers and the clicks interleave.
AnswersAreTrue == RangeIsTrue /\ SearchIsTrue /\ DetailsAreTrue

\* The figures of the dashboard are of the time between their request and their answer, and
\* the users shown are those of the table, whatever changes or fails in between.
PanelsAreCurrent == FiguresAreCurrent /\ UsersAreTrue
===============================================================================

----------------------------- MODULE ExtWorkspaces -----------------------------
(***************************************************************************)
(* src/modules/ext/workspace_manager.cpp: groups and workspaces of the         *)
(* ext-workspace protocol.  Each event changes one of the two lists at once,   *)
(* and "done" has update() put the buttons right: those of the workspaces that *)
(* are in a group on the bar's output, in the order of their names, ids or     *)
(* coordinates, of which the model has the names.                            *)
(***************************************************************************)
EXTENDS Integers, Sequences, SequencesExt

CONSTANTS XwSpace, XwGroup,
          XwName,      \* a name: its number, or -1, and its place in the alphabet
          XwConfigs,   \* configurations: [all, activeOnly, ignoreHidden]
          MaxXwNews    \* bound on the compositor's changes

VARIABLES xwConfig,
          xwSpaces,    \* workspaces_: their handle, name and state
          xwGroups,    \* groups_: of each that exists, whether it is on the bar's output,
                       \* and its workspaces
          xwSort,      \* needs_sorting_
          xwBox,       \* the buttons in box_, in order
          xwShown,     \* those that are visible
          xwDp, xwOwed, xwNews,
          xwLate       \* history: since the sort a workspace came onto the bar's
                       \* output, or the last name that is no number went

xwVars == <<xwConfig, xwSpaces, xwGroups, xwSort, xwBox, xwShown, xwDp, xwOwed, xwNews, xwLate>>

Handles == {xwSpaces[i].space : i \in DOMAIN xwSpaces}
PlaceOf(s) == CHOOSE i \in DOMAIN xwSpaces : xwSpaces[i].space = s
GroupedOf(s) == {g \in DOMAIN xwGroups : s \in xwGroups[g].spaces}
OnBar(s) == \E g \in GroupedOf(s) : xwGroups[g].here \/ xwConfig.all

-----------------------------------------------------------------------------
\* An event of the compositor's; "done" is to follow.
XwEvent ==
  /\ xwNews < MaxXwNews /\ xwNews' = xwNews + 1
  /\ xwOwed' = TRUE
  /\ UNCHANGED <<xwConfig, xwDp>>

OnGroup == XwEvent /\ UNCHANGED <<xwSpaces, xwSort, xwBox, xwShown>>

GroupChange(f) == xwGroups' = f /\ xwLate' = (xwLate \/ \E s \in Handles : OnBar(s)' /\ ~OnBar(s))

GroupCreated(g) ==
  /\ g \notin DOMAIN xwGroups
  /\ OnGroup /\ GroupChange([h \in DOMAIN xwGroups \cup {g} |->
                              IF h = g THEN [here |-> FALSE, spaces |-> {}] ELSE xwGroups[h]])

\* Its workspaces leave it first.
GroupRemoved(g) ==
  /\ g \in DOMAIN xwGroups /\ xwGroups[g].spaces = {}
  /\ OnGroup /\ GroupChange([h \in DOMAIN xwGroups \ {g} |-> xwGroups[h]])

GroupMoves(g, here) ==
  /\ g \in DOMAIN xwGroups /\ xwGroups[g].here # here
  /\ OnGroup /\ GroupChange([xwGroups EXCEPT ![g].here = here])

WorkspaceEnters(g, s) ==
  /\ g \in DOMAIN xwGroups /\ s \in Handles /\ GroupedOf(s) = {}
  /\ OnGroup /\ GroupChange([xwGroups EXCEPT ![g].spaces = @ \cup {s}])

WorkspaceLeaves(g, s) ==
  /\ g \in GroupedOf(s)
  /\ OnGroup /\ GroupChange([xwGroups EXCEPT ![g].spaces = @ \ {s}])

-----------------------------------------------------------------------------
\* The order is by number if all names are numbers, else by the alphabet; then by age.
SortKey(spaces) ==
  IF \A k \in DOMAIN spaces : spaces[k].name.number >= 0 THEN "number" ELSE "letters"

OnWorkspaces == XwEvent /\ UNCHANGED xwGroups

WorkspaceCreated(s, n) ==
  /\ s \notin Handles
  /\ OnWorkspaces
  /\ xwSpaces' = Append(xwSpaces, [space |-> s, name |-> n, state |-> {}])
  /\ xwSort' = TRUE
  /\ UNCHANGED <<xwBox, xwShown, xwLate>>

\* Names, ids and coordinates may change.
WorkspaceNamed(s, n) ==
  /\ s \in Handles /\ OnWorkspaces
  /\ xwSpaces' = [xwSpaces EXCEPT ![PlaceOf(s)].name = n]
  /\ xwSort' = TRUE
  /\ UNCHANGED <<xwBox, xwShown, xwLate>>

WorkspaceState(s, state) ==
  /\ s \in Handles /\ OnWorkspaces
  /\ xwSpaces' = [xwSpaces EXCEPT ![PlaceOf(s)].state = state]
  /\ UNCHANGED <<xwSort, xwBox, xwShown, xwLate>>

\* The button goes with the workspace.
WorkspaceRemoved(s) ==
  /\ s \in Handles /\ GroupedOf(s) = {} /\ OnWorkspaces
  /\ xwSpaces' = RemoveAt(xwSpaces, PlaceOf(s))
  /\ xwBox' = SelectSeq(xwBox, LAMBDA b : b # s) /\ xwShown' = xwShown \ {s}
  /\ xwLate' = (xwLate \/ SortKey(xwSpaces') # SortKey(xwSpaces))
  /\ UNCHANGED xwSort

XwHandleDone ==
  /\ xwOwed /\ xwOwed' = FALSE /\ xwDp' = TRUE
  /\ UNCHANGED <<xwConfig, xwSpaces, xwGroups, xwSort, xwBox, xwShown, xwNews, xwLate>>

-----------------------------------------------------------------------------
Precedes(spaces, i, j) ==
  LET key(k) == spaces[k].name[SortKey(spaces)] IN key(i) < key(j) \/ (key(i) = key(j) /\ i < j)

SortWorkspaces(spaces) ==
  LET places == SetToSortSeq(DOMAIN spaces, LAMBDA i, j : Precedes(spaces, i, j))
  IN [i \in DOMAIN spaces |-> spaces[places[i]]]

\* Workspace::update(): hidden outranks active and urgent.
Visible(state) ==
  CASE "hidden" \in state -> ~xwConfig.activeOnly /\ ~xwConfig.ignoreHidden
    [] state = {} -> ~xwConfig.activeOnly
    [] OTHER -> TRUE

\* update(): with a sort all buttons are taken out first, and put in again in order.
UpdateAdding(again) ==
  /\ xwDp /\ xwDp' = FALSE
  /\ LET sorted == IF xwSort THEN SortWorkspaces(xwSpaces) ELSE xwSpaces
         handles == [i \in DOMAIN sorted |-> sorted[i].space]
         kept == IF xwSort THEN <<>> ELSE SelectSeq(xwBox, LAMBDA s : OnBar(s))
         added == SelectSeq(handles, LAMBDA s : OnBar(s) /\ (again \/ s \notin ToSet(kept)))
     IN /\ xwSpaces' = sorted
        /\ xwBox' = kept \o added
        /\ xwShown' = {s \in Handles : OnBar(s) /\ Visible(xwSpaces[PlaceOf(s)].state)}
  /\ xwSort' = FALSE /\ xwLate' = (xwLate /\ ~xwSort)
  /\ UNCHANGED <<xwConfig, xwGroups, xwOwed, xwNews>>

XwUpdateAgain == UpdateAdding(TRUE) \* mutant: a button that is in the box is put in again
XwUpdate == UpdateAdding(FALSE)

-----------------------------------------------------------------------------
\* What the compositor had at the start is told of, and to be shown.
XwInit ==
  /\ xwConfig \in XwConfigs
  /\ \E n \in XwName, here \in BOOLEAN, s \in XwSpace, g \in XwGroup :
       /\ xwSpaces = <<[space |-> s, name |-> n, state |-> {"active"}]>>
       /\ xwGroups = [h \in {g} |-> [here |-> here, spaces |-> {s}]]
  /\ xwSort = TRUE /\ xwBox = <<>> /\ xwShown = {} /\ xwDp = TRUE /\ xwOwed = FALSE
  /\ xwNews = 0 /\ xwLate = FALSE

XwNext ==
  \/ \E g \in XwGroup : GroupCreated(g)
  \/ \E g \in XwGroup : GroupRemoved(g)
  \/ \E g \in XwGroup, here \in BOOLEAN : GroupMoves(g, here)
  \/ \E g \in XwGroup, s \in XwSpace : WorkspaceEnters(g, s)
  \/ \E g \in XwGroup, s \in XwSpace : WorkspaceLeaves(g, s)
  \/ \E s \in XwSpace, n \in XwName : WorkspaceCreated(s, n)
  \/ \E s \in XwSpace, n \in XwName : WorkspaceNamed(s, n)
  \/ \E s \in XwSpace, state \in {{}, {"active"}, {"urgent", "hidden"}} : WorkspaceState(s, state)
  \/ \E s \in XwSpace : WorkspaceRemoved(s)
  \/ XwHandleDone
  \/ XwUpdate

XwSpec == XwInit /\ [][XwNext]_xwVars

-----------------------------------------------------------------------------
XwTypeOK ==
  /\ xwConfig \in XwConfigs /\ {xwSort, xwDp, xwOwed, xwLate} \subseteq BOOLEAN
  /\ Handles \subseteq XwSpace /\ DOMAIN xwGroups \subseteq XwGroup
  /\ ToSet(xwBox) \subseteq Handles /\ IsInjective(xwBox) /\ xwShown \subseteq ToSet(xwBox)
  /\ xwNews \in 0..MaxXwNews

XwAtRest == ~xwOwed /\ ~xwDp
BoxSorted ==
  \A i, j \in DOMAIN xwBox : i < j => Precedes(xwSpaces, PlaceOf(xwBox[i]), PlaceOf(xwBox[j]))

\* Between "done" and the next event the bar has the buttons of the workspaces that are in a
\* group on its output, visible by their states, and sorted unless one of them came onto the
\* output, or the last of them that has no number went, since the last sort (workspace_manager.cpp:150-260, 381-416).
ExtWorkspacesAgree ==
  XwAtRest =>
    /\ ToSet(xwBox) = {s \in Handles : OnBar(s)}
    /\ xwShown = {s \in ToSet(xwBox) : Visible(xwSpaces[PlaceOf(s)].state)}
    /\ ~xwLate => BoxSorted

\* man/waybar-ext-workspaces.5.scd:27-30: workspaces are sorted by name.  A workspace that moves
\* to the bar's output has nobody ask for a sort, and its button goes last.
LateSorted == XwAtRest => BoxSorted
=============================================================================

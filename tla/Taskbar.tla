-------------------------------- MODULE Taskbar --------------------------------
(***************************************************************************)
(* src/modules/wlr/taskbar.cpp: one button per window, from the events of    *)
(* foreign toplevels and of workspaces, which come in order on one connection *)
(* and are handled one by one.                                              *)
(*                                                                         *)
(* tb holds the module: tasks_, the buttons in box_, the class "empty", the   *)
(* bar's classes, workspaces_ and current_workspace_, and whether dp is to    *)
(* run.  Order and text of the buttons are left out.                        *)
(***************************************************************************)
EXTENDS Naturals, Sequences, SequencesExt

CONSTANTS TbWin,       \* windows
          TbSpace,     \* workspaces
          NoSpace,     \* a null handle
          TbApp, TbTitle,
          TbConfigs,   \* configurations: [all, activeOnly, sort, squash, ignore, replace,
                       \* order], with the order of app ids
          MaxTbNews    \* bound on the compositor's changes

VARIABLES tbConfig, tb,
          tbOn,        \* the windows that are on the bar's output
          tbOwed,      \* whose "done" event is still to come: windows, or "spaces"
          tbNews

tbVars == <<tbConfig, tb, tbOn, tbOwed, tbNews>>

TbStates == {"active", "maximized", "minimized", "fullscreen"}
NoTasks == [tasks |-> <<>>, box |-> {}, empty |-> TRUE, classes |-> {},
            spaces |-> <<>>, current |-> NoSpace, dp |-> FALSE]

TaskOf(w) == CHOOSE i \in DOMAIN tb.tasks : tb.tasks[i].win = w
TbWins == {tb.tasks[i].win : i \in DOMAIN tb.tasks}

-----------------------------------------------------------------------------
(* What the handlers share.  b is the module while one of them runs.         *)

CountOf(b, t) == [id |-> Len(SelectSeq(b.tasks, LAMBDA u : u.app = t.app)),
                  title |-> Len(SelectSeq(b.tasks, LAMBDA u : u.title = t.title))]
InSquashList(t) == tbConfig.squash \cap {"*", t.app, t.title} # {}
HasTwins(b, t) == CountOf(b, t).id > 1 \/ CountOf(b, t).title > 1
IsIgnored(t) == tbConfig.ignore \cap {t.app, t.title} # {}
Replaced(app) == IF app \in DOMAIN tbConfig.replace THEN tbConfig.replace[app] ELSE app

\* update_bar_css_classes()
ToplevelClasses(b) ==
  LET visible == SelectSeq(b.tasks, LAMBDA t : t.visible)
      active == SelectSeq(visible, LAMBDA t : "active" \in t.state)
      here(t) == IF b.current = NoSpace THEN "active" \in t.state ELSE t.space = b.current
      some(s) == \E t \in ToSet(visible) : "minimized" \notin t.state /\ here(t) /\ s \in t.state
  IN {s \in TbStates : \/ s = "active" /\ active # <<>>
                       \/ s = "minimized" /\ active # <<>> /\ s \in Head(active).state
                       \/ s \in {"maximized", "fullscreen"} /\ some(s)}
UpdateBarCssClasses(b) == [b EXCEPT !.classes = ToplevelClasses(b)]

ShowButton(b, i) ==
  LET t == b.tasks[i] IN
  IF t.visible THEN b
  ELSE UpdateBarCssClasses(
         [b EXCEPT !.tasks[i] = [t EXCEPT !.visible = TRUE,
                                          !.shown = ~tbConfig.activeOnly \/ "active" \in t.state],
                   !.box = @ \cup {t.win}, !.empty = FALSE])

RemoveButton(b, w) == [b EXCEPT !.box = @ \ {w}, !.empty = @ \/ b.box \ {w} = {}]

HideButton(b, i) ==
  LET t == b.tasks[i] IN
  IF ~t.visible THEN b
  ELSE UpdateBarCssClasses(
         [RemoveButton(b, t.win) EXCEPT !.tasks[i] = [t EXCEPT !.visible = FALSE, !.shown = FALSE]])

ShowIfHere(b, i) ==
  IF tbConfig.all \/ b.tasks[i].here THEN ShowButton(b, i) ELSE b

HideIfDuplicate(b, i) ==
  IF InSquashList(b.tasks[i]) /\ HasTwins(b, b.tasks[i])
  THEN HideButton([b EXCEPT !.tasks[i].squashed = TRUE], i)
  ELSE IF b.tasks[i].squashed \/ b.tasks[i].ignored THEN b ELSE ShowIfHere(b, i)

HideIfIgnored(b, i) ==
  IF IsIgnored(b.tasks[i]) THEN HideButton([b EXCEPT !.tasks[i].ignored = TRUE], i)
  ELSE LET seen == [b EXCEPT !.tasks[i].ignored = FALSE] IN
       IF b.tasks[i].ignored /\ ~b.tasks[i].squashed THEN ShowIfHere(seen, i) ELSE seen

HandleTitle(b, i, title) == HideIfDuplicate(HideIfIgnored([b EXCEPT !.tasks[i].title = title], i), i)

HandleAppId(b, i, app) ==
  LET judged == HideIfDuplicate(HideIfIgnored([b EXCEPT !.tasks[i].app = app], i), i)
  IN [judged EXCEPT !.tasks[i].app = Replaced(app)]

HandleOutputEnterUnnoted(b, i, ours) == \* mutant: the output of a window without a button is not noted
  IF b.tasks[i].ignored \/ b.tasks[i].squashed THEN b
  ELSE ShowIfHere([b EXCEPT !.tasks[i].here = @ \/ ours], i)

HandleOutputEnter(b, i, ours) ==
  LET in == [b EXCEPT !.tasks[i].here = @ \/ ours] IN
  IF b.tasks[i].ignored \/ b.tasks[i].squashed THEN in ELSE ShowIfHere(in, i)

HandleOutputLeave(b, i, ours) ==
  LET left == [b EXCEPT !.tasks[i].here = @ /\ ~ours] IN
  IF tbConfig.all \/ left.tasks[i].here THEN left ELSE HideButton(left, i)

HandleToplevelDone(b, i) ==
  LET active == "active" \in b.tasks[i].state
      set == [b EXCEPT !.tasks[i] =
                [@ EXCEPT !.shown = IF b.tasks[i].visible /\ tbConfig.activeOnly THEN active ELSE @,
                          !.space = IF active /\ b.current # NoSpace THEN b.current ELSE @],
                       !.dp = TRUE]
  IN UpdateBarCssClasses(set)

\* handle_closed(): a task that was squashed takes the place of one that goes.
HandleClosed(b, i) ==
  LET t == b.tasks[i]
      out == [(IF t.visible THEN RemoveButton(b, t.win) ELSE b) EXCEPT !.tasks[i].visible = FALSE]
      twins == {j \in DOMAIN b.tasks \ {i} : b.tasks[j].squashed /\ (b.tasks[j].app = t.app \/ b.tasks[j].title = t.title)}
      next == CHOOSE j \in twins : \A k \in twins : j <= k
      reveals == InSquashList(t) /\ ~t.squashed /\ HasTwins(b, t) /\ twins # {} /\ ~b.tasks[next].ignored
      seen == IF reveals THEN ShowIfHere([out EXCEPT !.tasks[next].squashed = FALSE], next) ELSE out
  IN UpdateBarCssClasses([seen EXCEPT !.tasks = RemoveAt(@, i)])

\* The constructor handles the app id "unknown" before the task is in tasks_.
ToplevelCreate(b, w) ==
  LET new == [win |-> w, app |-> "unknown", title |-> "", ignored |-> FALSE, squashed |-> FALSE,
              here |-> FALSE, visible |-> FALSE, shown |-> FALSE, state |-> {}, space |-> NoSpace]
      squashed == InSquashList(new) /\ HasTwins(b, new)
      visible == tbConfig.all /\ ~IsIgnored(new) /\ ~squashed
      made == [new EXCEPT !.app = Replaced(@), !.ignored = IsIgnored(new), !.squashed = squashed,
                          !.visible = visible, !.shown = visible /\ ~tbConfig.activeOnly]
      put == [b EXCEPT !.tasks = Append(@, made)]
  IN IF visible THEN [put EXCEPT !.classes = ToplevelClasses(b), !.box = @ \cup {w}, !.empty = FALSE]
     ELSE put

-----------------------------------------------------------------------------
\* One event of the compositor's is handled, and "done" is to follow.
OnToplevel(w, b, on) ==
  /\ tbNews < MaxTbNews /\ tbNews' = tbNews + 1
  /\ tb' = b /\ tbOwed' = tbOwed \cup {w} /\ tbOn' = on
  /\ UNCHANGED tbConfig

\* A window that appears is told of with all it has, in one dispatch; it may have no app
\* id, and no title.
TaskAppears(w, app, title, here) ==
  /\ w \notin TbWins
  /\ LET i == Len(tb.tasks) + 1
         made == ToplevelCreate(tb, w)
         titled == IF title = "" THEN made ELSE HandleTitle(made, i, title)
         named == IF app = "" THEN titled ELSE HandleAppId(titled, i, app)
     IN OnToplevel(w, HandleOutputEnter(named, i, here), IF here THEN tbOn \cup {w} ELSE tbOn)

TitleChanges(w, title) == w \in TbWins /\ OnToplevel(w, HandleTitle(tb, TaskOf(w), title), tbOn)
AppIdChanges(w, app) == w \in TbWins /\ OnToplevel(w, HandleAppId(tb, TaskOf(w), app), tbOn)
OutputEntered(w, ours) ==
  /\ w \in TbWins /\ (ours => w \notin tbOn)
  /\ OnToplevel(w, HandleOutputEnter(tb, TaskOf(w), ours), IF ours THEN tbOn \cup {w} ELSE tbOn)

OutputLeft(w, ours) ==
  /\ w \in TbWins /\ (ours => w \in tbOn)
  /\ OnToplevel(w, HandleOutputLeave(tb, TaskOf(w), ours), IF ours THEN tbOn \ {w} ELSE tbOn)

\* handle_state() only notes the state; no two windows are active.
StateChanges(w, state) ==
  /\ w \in TbWins
  /\ "active" \in state => \A i \in DOMAIN tb.tasks : tb.tasks[i].win = w \/ "active" \notin tb.tasks[i].state
  /\ OnToplevel(w, [tb EXCEPT !.tasks[TaskOf(w)].state = state], tbOn)

TaskDone(w) ==
  /\ w \in tbOwed \cap TbWins
  /\ tb' = HandleToplevelDone(tb, TaskOf(w)) /\ tbOwed' = tbOwed \ {w}
  /\ UNCHANGED <<tbConfig, tbOn, tbNews>>

TaskCloses(w) ==
  /\ w \in TbWins
  /\ tbNews < MaxTbNews /\ tbNews' = tbNews + 1
  /\ tb' = HandleClosed(tb, TaskOf(w)) /\ tbOwed' = tbOwed \ {w} /\ tbOn' = tbOn \ {w}
  /\ UNCHANGED tbConfig

-----------------------------------------------------------------------------
\* Workspaces, of which one is active.
OnSpaces(b) ==
  /\ tbNews < MaxTbNews /\ tbNews' = tbNews + 1
  /\ tb' = b /\ tbOwed' = tbOwed \cup {"spaces"}
  /\ UNCHANGED <<tbConfig, tbOn>>

SpaceOf(s) == CHOOSE i \in DOMAIN tb.spaces : tb.spaces[i].space = s
TbSpaces == {tb.spaces[i].space : i \in DOMAIN tb.spaces}

SpaceCreated(s) ==
  s \notin TbSpaces /\ OnSpaces([tb EXCEPT !.spaces = Append(@, [space |-> s, active |-> FALSE])])

SpaceActivated(s) ==
  /\ s \in TbSpaces
  /\ OnSpaces([tb EXCEPT !.spaces = [i \in DOMAIN @ |-> [@[i] EXCEPT !.active = (i = SpaceOf(s))]]])

\* The window that is active is on the workspace that is.
HandleWorkspaceDone ==
  /\ "spaces" \in tbOwed
  /\ LET active == SelectSeq(tb.spaces, LAMBDA p : p.active)
         current == IF active = <<>> THEN NoSpace ELSE Head(active).space
         on == {i \in DOMAIN tb.tasks : "active" \in tb.tasks[i].state}
         first == CHOOSE i \in on : \A j \in on : i <= j
     IN tb' = UpdateBarCssClasses(
                IF current = NoSpace \/ on = {} THEN [tb EXCEPT !.current = current]
                ELSE [tb EXCEPT !.current = current, !.tasks[first].space = current])
  /\ tbOwed' = tbOwed \ {"spaces"}
  /\ UNCHANGED <<tbConfig, tbOn, tbNews>>

WithoutSpace(b, s) ==
  [b EXCEPT !.current = IF @ = s THEN NoSpace ELSE @,
            !.tasks = [i \in DOMAIN @ |-> IF @[i].space = s THEN [@[i] EXCEPT !.space = NoSpace] ELSE @[i]],
            !.spaces = RemoveAt(@, SpaceOf(s))]

HandleWorkspaceRemoved(s) == s \in TbSpaces /\ OnSpaces(UpdateBarCssClasses(WithoutSpace(tb, s)))

\* update() sorts tasks_ by app id, stably.
Sorted ==
  LET key(i) == tbConfig.order[tb.tasks[i].app] IN
  SetToSortSeq(DOMAIN tb.tasks, LAMBDA i, j : key(i) < key(j) \/ (key(i) = key(j) /\ i < j))

TaskbarUpdate ==
  /\ tb.dp
  /\ tb' = [tb EXCEPT !.dp = FALSE,
       !.tasks = IF tbConfig.sort THEN [i \in DOMAIN @ |-> @[Sorted[i]]] ELSE @]
  /\ UNCHANGED <<tbConfig, tbOn, tbOwed, tbNews>>

-----------------------------------------------------------------------------
TaskbarInit == tbConfig \in TbConfigs /\ tb = NoTasks /\ tbOn = {} /\ tbOwed = {} /\ tbNews = 0

TaskbarNext ==
  \/ \E w \in TbWin, app \in TbApp, title \in TbTitle, here \in BOOLEAN : TaskAppears(w, app, title, here)
  \/ \E w \in TbWin, title \in TbTitle : TitleChanges(w, title)
  \/ \E w \in TbWin, app \in TbApp \ {""} : AppIdChanges(w, app)
  \/ \E w \in TbWin, ours \in BOOLEAN : OutputEntered(w, ours)
  \/ \E w \in TbWin, ours \in BOOLEAN : OutputLeft(w, ours)
  \/ \E w \in TbWin, state \in {{}, {"active"}, {"active", "maximized"}, {"minimized"}} : StateChanges(w, state)
  \/ \E w \in TbWin : TaskDone(w)
  \/ \E w \in TbWin : TaskCloses(w)
  \/ \E s \in TbSpace : SpaceCreated(s)
  \/ \E s \in TbSpace : SpaceActivated(s)
  \/ \E s \in TbSpace : HandleWorkspaceRemoved(s)
  \/ HandleWorkspaceDone
  \/ TaskbarUpdate

TaskbarSpec == TaskbarInit /\ [][TaskbarNext]_tbVars

-----------------------------------------------------------------------------
TaskbarTypeOK ==
  /\ tbConfig \in TbConfigs /\ tbOwed \subseteq TbWin \cup {"spaces"} /\ tbNews \in 0..MaxTbNews
  /\ TbWins \subseteq TbWin
  /\ tb.classes \subseteq TbStates /\ tb.current \in TbSpace \cup {NoSpace}

\* A window has a button iff it is where the bar shows it, and is neither ignored nor
\* squashed; the class "empty" says that no window has one (taskbar.cpp:273-410, 471-502,
\* 1057-1084).
ButtonsFit ==
  /\ \A i \in DOMAIN tb.tasks :
       LET t == tb.tasks[i] IN
       /\ t.visible = ((tbConfig.all \/ t.win \in tbOn) /\ ~t.ignored /\ ~t.squashed)
       /\ t.visible = (t.win \in tb.box)
       /\ t.win \notin tbOwed => t.shown = (t.visible /\ (tbConfig.activeOnly => "active" \in t.state))
  /\ tb.box \subseteq TbWins
  /\ tb.empty = (tb.box = {})

\* No window and no state of the bar names a workspace that is gone, and between two "done"
\* the active window is on the active workspace and the bar's classes are those of what is
\* shown (taskbar.cpp:447-469, 1018-1055, 1086-1135).
SpacesFit ==
  /\ \A i \in DOMAIN tb.tasks : tb.tasks[i].space \in TbSpaces \cup {NoSpace}
  /\ tb.current \in TbSpaces \cup {NoSpace}
  /\ tbOwed = {} =>
       /\ tb.classes = ToplevelClasses(tb)
       /\ \A i \in DOMAIN tb.tasks :
            "active" \in tb.tasks[i].state /\ tb.current # NoSpace => tb.tasks[i].space = tb.current

TaskbarFits == ButtonsFit /\ SpacesFit
=============================================================================

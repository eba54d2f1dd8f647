--------------------------- MODULE PowerProfiles ---------------------------
(***************************************************************************)
(* src/modules/power_profiles_daemon.cpp: the active profile.  A click     *)
(* goes to the next profile at once and asks the daemon for it, which      *)
(* answers and announces changes, also those of other programs, in order.  *)
(***************************************************************************)
EXTENDS Naturals, SequencesExt

CONSTANTS PpProfiles,   \* availableProfiles_, a sequence
          OddProfile,   \* an active profile that is not among them
          MaxPpNews,    \* bound on what happens to the daemon and on clicks
          MaxPpAsked    \* bound on requests under way

ASSUME PpAssumption ==
  /\ PpProfiles \in Seq(ToSet(PpProfiles)) /\ OddProfile \notin ToSet(PpProfiles)
  /\ \A i, j \in DOMAIN PpProfiles : PpProfiles[i] = PpProfiles[j] => i = j
  /\ MaxPpNews \in Nat /\ MaxPpAsked \in Nat

VARIABLES ppConnection, \* "connecting", "asked" (GetAll), "connected", "failed"
          daemonActive, \* the daemon's profile
          ppCached,     \* the proxy's ActiveProfile
          ppInbox,      \* what the daemon sent: [kind, profile]
          ppAsked,      \* Set calls on their way
          activeProfile,    \* activeProfile_: a position, 0 for end()
          ppDp, ppShown,    \* ppShown: 0 for hidden
          ppNews,
          ppRefused     \* history: the daemon refused the profile the module has gone to

ppDaemon == <<daemonActive, ppCached, ppInbox, ppAsked>>
ppModule == <<ppConnection, activeProfile, ppDp, ppShown>>
ppVars == <<ppDaemon, ppModule, ppNews, ppRefused>>

Profiles == ToSet(PpProfiles)
End == 0

-----------------------------------------------------------------------------
PpNewsComes == ppNews < MaxPpNews /\ ppNews' = ppNews + 1

Announces(p) ==
  /\ daemonActive' = p
  /\ ppInbox' = IF p = daemonActive THEN ppInbox ELSE Append(ppInbox, [kind |-> "changed", profile |-> p])

\* Another program sets the profile.
OtherSets(p) ==
  /\ p # daemonActive /\ PpNewsComes /\ Announces(p)
  /\ UNCHANGED <<ppCached, ppAsked, ppModule, ppRefused>>

\* The daemon answers a Set: it does so after it announces the change.
DaemonAnswers(grants) ==
  /\ ppAsked # <<>> /\ ppAsked' = Tail(ppAsked)
  /\ LET p == Head(ppAsked)
         told == IF grants /\ p # daemonActive THEN Append(ppInbox, [kind |-> "changed", profile |-> p]) ELSE ppInbox
     IN /\ daemonActive' = IF grants THEN p ELSE daemonActive
        /\ ppInbox' = Append(told, [kind |-> IF grants THEN "done" ELSE "refused", profile |-> p])
  /\ UNCHANGED <<ppCached, ppModule, ppNews, ppRefused>>

-----------------------------------------------------------------------------
\* busConnectedCb(): the proxy has read the properties, and hears of changes from now on.
BusConnectedCb(works) ==
  /\ ppConnection = "connecting"
  /\ ppConnection' = IF works THEN "asked" ELSE "failed"
  /\ ppCached' = daemonActive /\ ppInbox' = <<>>
  /\ UNCHANGED <<daemonActive, ppAsked, activeProfile, ppDp, ppShown, ppNews, ppRefused>>

PositionIn(p) == IF p \in Profiles THEN CHOOSE i \in DOMAIN PpProfiles : PpProfiles[i] = p ELSE End

\* switchToProfile()
SwitchToProfile(p) == activeProfile' = PositionIn(p) /\ ppDp' = TRUE /\ ppRefused' = FALSE

\* getAllPropsCb(), populateInitState(): the cached value, which is the last one dispatched.
GetAllPropsCb(works) ==
  /\ ppConnection = "asked"
  /\ IF works THEN ppConnection' = "connected" /\ SwitchToProfile(ppCached)
     ELSE ppConnection' = "failed" /\ UNCHANGED <<activeProfile, ppDp, ppRefused>>
  /\ UNCHANGED <<ppDaemon, ppShown, ppNews>>

\* profileChangedCb(); the proxy updates its cache first.
ProfileChangedCb ==
  /\ ppInbox # <<>> /\ Head(ppInbox).kind = "changed" /\ ppInbox' = Tail(ppInbox)
  /\ LET p == Head(ppInbox).profile IN
     /\ ppCached' = p
     /\ IF ppConnection = "connected" THEN SwitchToProfile(p) ELSE UNCHANGED <<activeProfile, ppDp, ppRefused>>
  /\ UNCHANGED <<daemonActive, ppAsked, ppConnection, ppShown, ppNews>>

\* setPropCb()
SetPropCb ==
  /\ ppInbox # <<>> /\ Head(ppInbox).kind # "changed" /\ ppInbox' = Tail(ppInbox)
  /\ IF Head(ppInbox).kind = "done" THEN ppDp' = TRUE /\ UNCHANGED ppRefused
     ELSE ppRefused' = TRUE /\ UNCHANGED ppDp
  /\ UNCHANGED <<daemonActive, ppCached, ppAsked, ppConnection, activeProfile, ppShown, ppNews>>

\* handleToggle(): from a profile that is not listed, as from the first.
PpHandleToggle(left) ==
  LET n == Len(PpProfiles)
      from == IF activeProfile = End THEN 1 ELSE activeProfile
      to == IF left THEN (from % n) + 1 ELSE IF from = 1 THEN n ELSE from - 1
  IN /\ ppConnection = "connected" /\ Profiles # {} /\ PpNewsComes /\ Len(ppAsked) < MaxPpAsked
     /\ activeProfile' = to /\ ppAsked' = Append(ppAsked, PpProfiles[to])
     /\ UNCHANGED <<daemonActive, ppCached, ppInbox, ppConnection, ppDp, ppShown, ppRefused>>

\* update()
PpUpdate ==
  /\ ppDp /\ ppDp' = FALSE
  /\ ppShown' = IF ppConnection = "connected" THEN activeProfile ELSE End
  /\ UNCHANGED <<ppDaemon, ppConnection, activeProfile, ppNews, ppRefused>>

-----------------------------------------------------------------------------
PpInit ==
  /\ daemonActive \in Profiles \cup {OddProfile}
  /\ ppConnection = "connecting" /\ ppCached = daemonActive /\ ppInbox = <<>> /\ ppAsked = <<>>
  /\ activeProfile = End /\ ppDp = TRUE /\ ppShown = End /\ ppNews = 0 /\ ppRefused = FALSE

PpNext ==
  \/ \E p \in Profiles \cup {OddProfile} : OtherSets(p)
  \/ \E grants \in BOOLEAN : DaemonAnswers(grants)
  \/ \E works \in BOOLEAN : BusConnectedCb(works)
  \/ \E works \in BOOLEAN : GetAllPropsCb(works)
  \/ ProfileChangedCb \/ SetPropCb
  \/ \E left \in BOOLEAN : PpHandleToggle(left)
  \/ PpUpdate

PpSpec == PpInit /\ [][PpNext]_ppVars

-----------------------------------------------------------------------------
PpTypeOK ==
  /\ ppConnection \in {"connecting", "asked", "connected", "failed"}
  /\ activeProfile \in 0..Len(PpProfiles) /\ ppShown \in 0..Len(PpProfiles)
  /\ Len(ppAsked) <= MaxPpAsked /\ ppNews \in 0..MaxPpNews /\ {ppDp, ppRefused} \subseteq BOOLEAN

\* Once every call is answered and every signal dispatched, the profile shown, and the one a
\* click starts from, is the daemon's, however the user's clicks and other programs' changes
\* interleaved, unless the daemon refused the last one clicked
\* (power_profiles_daemon.cpp:153-251).
ProfilesAgree ==
  ppConnection = "connected" /\ ppInbox = <<>> /\ ppAsked = <<>> /\ ~ppDp /\ ~ppRefused =>
    activeProfile = PositionIn(daemonActive) /\ ppShown = activeProfile
=============================================================================

----------------------------- MODULE PftcProofs -----------------------------
(***************************************************************************)
(* Theorems about PFTC for any device, any texts and any number of         *)
(* retries: PftcInv is inductive, and what the screens promise follows.    *)
(*                                                                         *)
(* The five parts of the invariant are carried through each step one by    *)
(* one; a step with several outcomes is split first.                       *)
(***************************************************************************)
EXTENDS Pftc, TLAPS

-----------------------------------------------------------------------------
(* What the operators return *)

\* init_interface_settings makes settings of any report (gui.c:343).
LEMMA DefaultsType ==
  ASSUME NEW c \in Configs PROVE Defaults(c) \in [net : NetEdits, ip : IpEdits]
BY DEF Defaults, Configs, NetEdits, IpEdits, PskTexts, Modes

\* SET_NETIF asks for a setting a device can have (gui.c:375).
LEMMA SentType == TypeOK => Sent \in Configs
BY DEF TypeOK, Sent, Configs, NetEdits, IpEdits

\* A report is a setting, whatever became of its SSID (gui.c:86).
LEMMA ReportsType ==
  ASSUME TypeOK, NEW i \in Interfaces PROVE Reports(i) \subseteq Configs
<1>1. device[i] \in Configs
  BY DEF TypeOK
<1>2. \A t \in SsidTexts : [device[i] EXCEPT !.ssid = t] \in Configs
  BY <1>1 DEF Configs
<1> QED
  BY <1>1, <1>2 DEF Reports, Configs, SsidTexts

\* The menus' lengths.
LEMMA EntriesLen ==
  /\ \A e \in NetEdits : Len(NetEntries(e)) = IF e.enabled THEN 5 ELSE 2
  /\ \A e \in IpEdits : Len(IpEntries(e)) = IF e.mode = "static" THEN 6 ELSE 3
BY DEF NetEntries, IpEntries

\* A settings menu has a first entry to highlight.
LEMMA EntriesNonEmpty ==
  /\ \A e \in NetEdits : 0 < Len(NetEntries(e))
  /\ \A e \in IpEdits : 0 < Len(IpEntries(e))
BY DEF NetEntries, IpEntries

\* Every position of the network settings does what its entry says
\* (gui_iface.c:183-191 and 323-387).
LEMMA NetMenuTrue ==
  ASSUME NEW e \in NetEdits, NEW i \in 1..Len(NetEntries(e))
  PROVE  NetDoes(e, i - 1) = NetEntries(e)[i]
<1>1. CASE e.enabled
  <2>1. i \in 1..5
    BY <1>1, EntriesLen
  <2>2. NetEntries(e) = <<"enabled", "scan", "ssid", "psk", "done">>
    BY <1>1 DEF NetEntries
  <2> QED
    BY <1>1, <2>1, <2>2 DEF NetDoes
<1>2. CASE ~e.enabled
  <2>1. i \in 1..2
    BY <1>2, EntriesLen
  <2>2. NetEntries(e) = <<"enabled", "done">>
    BY <1>2 DEF NetEntries
  <2> QED
    BY <1>2, <2>1, <2>2 DEF NetDoes
<1> QED
  BY <1>1, <1>2

\* Likewise the address settings (gui_ip.c:32-43 and 80-144).
LEMMA IpMenuTrue ==
  ASSUME NEW e \in IpEdits, NEW i \in 1..Len(IpEntries(e))
  PROVE  IpDoes(e, i - 1) = IpEntries(e)[i]
<1>1. CASE e.mode = "static"
  <2>1. i \in 1..6
    BY <1>1, EntriesLen
  <2>2. IpEntries(e) = <<"mode", "ip", "prefix", "gateway", "ipv6", "done">>
    BY <1>1 DEF IpEntries
  <2> QED
    BY <1>1, <2>1, <2>2 DEF IpDoes
<1>2. CASE e.mode # "static"
  <2>1. i \in 1..3
    BY <1>2, EntriesLen
  <2>2. IpEntries(e) = <<"mode", "ipv6", "done">>
    BY <1>2 DEF IpEntries
  <2> QED
    BY <1>2, <2>1, <2>2 DEF IpDoes
<1> QED
  BY <1>1, <1>2

\* The settings screens are right whenever the edit copy is (MenuDoesWhatItSays
\* adds nothing to the induction).
LEMMA MenusTrue ==
  EditWhere /\ ScreensBalanced => MenuDoesWhatItSays
<1> SUFFICES ASSUME EditWhere, ScreensBalanced PROVE MenuDoesWhatItSays
  OBVIOUS
<1>1. In("network_settings") => edit \in NetEdits /\ item < Len(NetEntries(edit))
  BY DEF In, ScreensBalanced, EditWhere
<1>2. In("ip_settings") => edit \in IpEdits /\ item < Len(IpEntries(edit))
  BY DEF In, ScreensBalanced, EditWhere
<1> QED
  BY <1>1, <1>2, NetMenuTrue, IpMenuTrue DEF MenuDoesWhatItSays

\* The counters of retries and changes keep within their bounds.
LEMMA Bounds ==
  /\ SyncRetries \in 0..SyncRetries
  /\ \A c \in 0..MaxChanges : c < MaxChanges => c + 1 \in 0..MaxChanges
BY PftcAssumption

\* Nothing confirmed is a state of `confirmed`.
LEMMA UndecidedType ==
  Undecided \in [net : NetEdits \cup {NoEdit}, ip : IpEdits \cup {NoEdit}]
BY DEF Undecided

\* Leaving an interface, or showing its menu, keeps the types.
LEMMA LeaveType ==
  ASSUME LeaveInterface
  PROVE  /\ nav' \in Screens /\ at' \in Stations /\ initialized' \in BOOLEAN
         /\ confirmed' \in [net : NetEdits \cup {NoEdit}, ip : IpEdits \cup {NoEdit}]
BY UndecidedType DEF LeaveInterface, Return, Screens, Stations

LEMMA ShowType ==
  ASSUME TypeOK, ShowInterfaceMenu
  PROVE  /\ nav' \in Screens /\ at' \in Stations /\ initialized' \in BOOLEAN
         /\ frames' \in 0..ScreenStackMax
         /\ confirmed' \in [net : NetEdits \cup {NoEdit}, ip : IpEdits \cup {NoEdit}]
<1>1. CASE LeaveInterface /\ frames' = frames
  BY <1>1, LeaveType DEF TypeOK
<1>2. CASE /\ frames < ScreenStackMax /\ frames' = frames + 1
           /\ nav' = "interface_menu" /\ at' = "menu" /\ initialized' = TRUE
           /\ UNCHANGED confirmed
  <2>1. frames' \in 0..ScreenStackMax
    BY <1>2 DEF TypeOK, ScreenStackMax
  <2> QED
    BY <1>2, <2>1 DEF TypeOK, Screens, Stations
<1> QED
  BY <1>1, <1>2 DEF ShowInterfaceMenu

-----------------------------------------------------------------------------
(* The invariant is inductive *)

\* PftcInv without what MenusTrue and the definitions give for nothing.
Core == TypeOK /\ RequestWhere /\ SettingsWhere /\ EditWhere /\ ScreensBalanced

\* An exchange that failed leaves the settings alone and goes back to where its
\* request came from.
LEMMA FailInv ==
  ASSUME Core, ExchangeFails, at \in {"send", "receive"},
         taken' \in Nat, device' \in [Interfaces -> Configs]
  PROVE  Core'
<1> USE PftcAssumption
    DEF Core, ExchangeFails, Finish, NextPass, Return, heapVars, dataVars
<1>1. TypeOK'
  BY DEF TypeOK, RequestWhere, FallBack, Screens, Stations, Requests, ScreensBalanced,
         ScreenStackMax
<1>2. RequestWhere'
  BY DEF RequestWhere, FallBack, TypeOK, Requests
<1>3. SettingsWhere'
  BY DEF SettingsWhere, SettingsInUse, InterfaceScreens, RequestWhere, FallBack, Kept,
         TypeOK, Requests
<1>4. EditWhere'
  BY DEF EditWhere, RequestWhere, ScreensBalanced, FallBack, TypeOK, Requests
<1>5. ScreensBalanced'
  BY DEF ScreensBalanced, RequestWhere, EditWhere, FallBack, TypeOK, Requests
<1> QED
  BY <1>1, <1>2, <1>3, <1>4, <1>5

\* The cable: the block goes out, once more, or not.
LEMMA CableInv ==
  ASSUME Core, SendBlock \/ SyncMissed \/ SendFails \/ ReceiveFails
  PROVE  Core'
<1>1. DeviceTakes => taken' \in Nat /\ device' \in [Interfaces -> Configs]
  BY SentType DEF Core, TypeOK, DeviceTakes
<1>2. taken \in Nat /\ device \in [Interfaces -> Configs]
  BY DEF Core, TypeOK
<1>3. CASE SendBlock
  <2> USE <1>1, <1>2, <1>3
      DEF SendBlock, Core, heapVars, dataVars
  <2>1. TypeOK'
    BY DEF TypeOK, Stations
  <2>2. RequestWhere'
    BY DEF RequestWhere
  <2>3. SettingsWhere' /\ EditWhere' /\ ScreensBalanced'
    BY DEF SettingsWhere, SettingsInUse, Kept, EditWhere, ScreensBalanced
  <2> QED
    BY <2>1, <2>2, <2>3
<1>4. CASE SyncMissed /\ retries > 0
  <2>1. UNCHANGED <<nav, at, heapVars, request, taken, dataVars, device, confirmed, changes>>
    BY <1>4 DEF SyncMissed, ExchangeFails
  <2> USE <1>4, <2>1 DEF Core, SyncMissed, heapVars, dataVars
  <2>2. retries' \in 0..SyncRetries
    BY PftcAssumption DEF TypeOK
  <2>3. TypeOK'
    BY <2>2 DEF TypeOK
  <2>4. RequestWhere' /\ SettingsWhere' /\ EditWhere' /\ ScreensBalanced'
    BY DEF RequestWhere, SettingsWhere, SettingsInUse, Kept, EditWhere, ScreensBalanced
  <2> QED
    BY <2>3, <2>4
<1>5. CASE ExchangeFails /\ at \in {"send", "receive"}
            /\ (DeviceTakes \/ UNCHANGED <<taken, device>>)
  BY <1>1, <1>2, <1>5, FailInv
<1> QED
  BY <1>3, <1>4, <1>5 DEF SyncMissed, SendFails, ReceiveFails

\* Responses that are looked at and, for the dashboard, drawn.
LEMMA PlainAnswerInv ==
  ASSUME Core, AfterHello \/ AfterDashboard \/ AfterSet \/ AfterScan PROVE Core'
<1> USE PftcAssumption
    DEF Core, AfterHello, AfterDashboard, AfterSet, AfterScan, Answered, Exchange,
        Finish, Return, NextPass, heapVars, dataVars
<1>1. TypeOK'
  <2>1. CASE AfterHello
    BY <2>1, Bounds, UndecidedType
       DEF TypeOK, Screens, Stations, Requests, ScreenStackMax, RequestWhere, ScreensBalanced
  <2>2. CASE AfterDashboard
    BY <2>2, Bounds, UndecidedType
       DEF TypeOK, Screens, Stations, Requests, ScreenStackMax, RequestWhere, ScreensBalanced
  <2>3. CASE AfterSet
    BY <2>3, Bounds, UndecidedType
       DEF TypeOK, Screens, Stations, Requests, ScreenStackMax, RequestWhere, ScreensBalanced
  <2>4. CASE AfterScan
    BY <2>4, Bounds, UndecidedType
       DEF TypeOK, Screens, Stations, Requests, ScreenStackMax, RequestWhere, ScreensBalanced
  <2> QED
    BY <2>1, <2>2, <2>3, <2>4
<1>2. RequestWhere'
  BY DEF TypeOK, RequestWhere, Requests
<1>3. SettingsWhere'
  BY DEF TypeOK, SettingsWhere, SettingsInUse, InterfaceScreens, RequestWhere, Kept
<1>4. EditWhere'
  BY DEF TypeOK, EditWhere, RequestWhere, ScreensBalanced
<1>5. ScreensBalanced'
  BY DEF TypeOK, ScreensBalanced, RequestWhere, EditWhere, SettingsWhere, InterfaceScreens
<1> QED
  BY <1>1, <1>2, <1>3, <1>4, <1>5

\* The list of interfaces.
LEMMA NetifsInv ==
  ASSUME Core, AfterNetifs PROVE Core'
<1> USE PftcAssumption
    DEF Core, AfterNetifs, Answered, Finish, Return, OpenMenu
<1>1. TypeOK'
  BY Bounds, UndecidedType DEF TypeOK, RequestWhere, ScreensBalanced, Screens, Stations, Requests, ScreenStackMax
<1>2. RequestWhere'
  BY DEF TypeOK, RequestWhere, Requests
<1>3. SettingsWhere'
  BY DEF TypeOK, SettingsWhere, SettingsInUse, InterfaceScreens, RequestWhere, Kept
<1>4. EditWhere'
  BY DEF TypeOK, EditWhere, RequestWhere, ScreensBalanced
<1>5. ScreensBalanced'
  BY DEF TypeOK, ScreensBalanced, RequestWhere, EditWhere, SettingsWhere, InterfaceScreens
<1> QED
  BY <1>1, <1>2, <1>3, <1>4, <1>5

\* The report: from here on the settings are those of the selected interface.
LEMMA NetifInv ==
  ASSUME Core, AfterNetif
  PROVE  Core'
<1>1. PICK report \in Configs :
        netif' = NetifOf(selected, report) /\ settings' = Defaults(report)
  BY ReportsType DEF AfterNetif, Core, TypeOK
<1>2. /\ settings' \in [net : NetEdits, ip : IpEdits]
      /\ netif' \in [iface : Interfaces, config : Configs]
      /\ netif'.iface = selected /\ netif'.config = report
  BY <1>1, DefaultsType DEF NetifOf, Core, TypeOK
<1>3. TypeOK'
  BY <1>2, ShowType, Bounds DEF Core, AfterNetif, Finish, TypeOK
<1> USE <1>2, PftcAssumption
    DEF Core, AfterNetif, Answered, Finish, Return, ShowInterfaceMenu, LeaveInterface
<1>4. RequestWhere'
  BY DEF RequestWhere
<1>5. SettingsWhere'
  BY <1>1 DEF SettingsWhere, SettingsInUse, InterfaceScreens, RequestWhere, Kept, Undecided
<1>6. EditWhere' /\ ScreensBalanced'
  BY DEF EditWhere, RequestWhere, ScreensBalanced, TypeOK
<1> QED
  BY <1>3, <1>4, <1>5, <1>6

\* main's switch: what is pushed is shown, what cannot be pushed is not.
LEMMA LoopInv ==
  ASSUME Core, LoopSteps
  PROVE  Core'
<1>1. CASE InterfaceMenu
  <2> USE <1>1, PftcAssumption DEF Core, InterfaceMenu, Entering
  <2>1. CASE ~initialized
    <3> USE <2>1 DEF Exchange
    <3>1. TypeOK'
      BY Bounds DEF TypeOK, Stations, Requests
    <3>2. RequestWhere' /\ SettingsWhere'
      BY DEF RequestWhere, SettingsWhere, SettingsInUse, InterfaceScreens, Kept
    <3>3. EditWhere' /\ ScreensBalanced'
      BY DEF EditWhere, ScreensBalanced, RequestWhere
    <3> QED
      BY <3>1, <3>2, <3>3
  <2>2. CASE initialized
    <3>1. TypeOK'
      BY <2>2, ShowType DEF linkVars, TypeOK
    <3> USE <2>2 DEF ShowInterfaceMenu, LeaveInterface, Return, linkVars
    <3>2. RequestWhere' /\ SettingsWhere'
      BY DEF RequestWhere, SettingsWhere, SettingsInUse, InterfaceScreens, Kept
    <3>3. EditWhere' /\ ScreensBalanced'
      BY DEF EditWhere, ScreensBalanced, RequestWhere, TypeOK
    <3> QED
      BY <3>1, <3>2, <3>3
  <2> QED
    BY <2>1, <2>2
<1>2. CASE NetworkSettings \/ IpSettings
  <2> USE <1>2, PftcAssumption
      DEF Core, NetworkSettings, IpSettings, OpenSettings, Entering, Elsewhere, Return,
          linkVars, heapVars, dataVars
  <2>1. TypeOK'
    BY DEF TypeOK, Screens, Stations, ScreenStackMax
  <2>2. RequestWhere' /\ SettingsWhere'
    BY DEF RequestWhere, SettingsWhere, SettingsInUse, InterfaceScreens, Kept
  <2>3. EditWhere'
    <3>1. settings.net \in NetEdits /\ settings.ip \in IpEdits
      BY DEF TypeOK
    <3>2. 0 < Len(NetEntries(settings.net)) /\ 0 < Len(IpEntries(settings.ip))
      BY <3>1, EntriesNonEmpty
    <3> QED
      BY <3>1, <3>2 DEF EditWhere, RequestWhere, ScreensBalanced
  <2>4. ScreensBalanced'
    BY DEF TypeOK, ScreensBalanced, RequestWhere
  <2> QED
    BY <2>1, <2>2, <2>3, <2>4
<1>3. CASE LoopSteps /\ ~InterfaceMenu /\ ~NetworkSettings /\ ~IpSettings
  <2> USE <1>3, PftcAssumption
      DEF Core, LoopSteps, Dashboard, RootMenu, InterfacesList, InterfaceDetail,
          InfoScreen, Exit, Entering, Elsewhere, Exchange, Return, OpenMenu, linkVars,
          heapVars, dataVars
  <2>1. TypeOK'
    BY Bounds DEF TypeOK, Screens, Stations, Requests, ScreenStackMax
  <2>2. RequestWhere' /\ SettingsWhere'
    BY DEF RequestWhere, SettingsWhere, SettingsInUse, InterfaceScreens, Kept
  <2>3. EditWhere' /\ ScreensBalanced'
    BY DEF EditWhere, ScreensBalanced, RequestWhere, TypeOK
  <2> QED
    BY <2>1, <2>2, <2>3
<1> QED
  BY <1>1, <1>2, <1>3

\* Choices outside the settings screens.
LEMMA MenuInv ==
  ASSUME Core, DashboardKey \/ RootChoice \/ InterfacesChoice \/ InterfaceChoice \/ DetailClosed PROVE Core'
<1> USE PftcAssumption
    DEF Core, DashboardKey, RootChoice, InterfacesChoice, InterfaceChoice, DetailClosed,
        In, Pop, Elsewhere, Exchange, Return, LeaveInterface, Change, linkVars, heapVars, dataVars
<1>1. TypeOK'
  <2>1. CASE DashboardKey
    BY <2>1, Bounds, UndecidedType
       DEF TypeOK, Screens, Stations, Requests, ScreenStackMax, RequestWhere, ScreensBalanced
  <2>2. CASE RootChoice
    BY <2>2, Bounds, UndecidedType
       DEF TypeOK, Screens, Stations, Requests, ScreenStackMax, RequestWhere, ScreensBalanced
  <2>3. CASE InterfacesChoice
    BY <2>3, Bounds, UndecidedType
       DEF TypeOK, Screens, Stations, Requests, ScreenStackMax, RequestWhere, ScreensBalanced
  <2>4. CASE InterfaceChoice
    <3>1. CASE LeaveInterface /\ UNCHANGED <<linkVars, changes>>
      <4>1. frames' \in 0..ScreenStackMax
        BY <2>4 DEF ScreensBalanced, ScreenStackMax
      <4> QED
        BY <2>4, <3>1, <4>1, LeaveType DEF TypeOK
    <3>2. CASE UNCHANGED <<initialized, confirmed>>
      BY <2>4, <3>2, Bounds
         DEF TypeOK, Screens, Stations, Requests, ScreenStackMax, ScreensBalanced
    <3> QED
      BY <2>4, <3>1, <3>2
  <2>5. CASE DetailClosed
    BY <2>5, Bounds, UndecidedType
       DEF TypeOK, Screens, Stations, Requests, ScreenStackMax, RequestWhere, ScreensBalanced
  <2> QED
    BY <2>1, <2>2, <2>3, <2>4, <2>5
<1>2. RequestWhere'
  BY DEF TypeOK, RequestWhere, Requests
<1>3. SettingsWhere'
  BY DEF TypeOK, SettingsWhere, SettingsInUse, InterfaceScreens, RequestWhere, Kept
<1>4. EditWhere'
  BY DEF TypeOK, EditWhere, RequestWhere, ScreensBalanced
<1>5. ScreensBalanced'
  BY DEF TypeOK, ScreensBalanced, RequestWhere, EditWhere, SettingsWhere, InterfaceScreens
<1> QED
  BY <1>1, <1>2, <1>3, <1>4, <1>5

\* What a choice does is done to an entry of the menu: the position exists in the
\* menu the changed copy gets, too.
LEMMA NetEditStays ==
  ASSUME NEW i \in 0..4, NEW copy \in NetEdits, edit \in NetEdits,
         NetEdit(NetDoes(edit, i), copy)
  PROVE  i < Len(NetEntries(copy))
<1>1. CASE i = 0
  BY <1>1, EntriesNonEmpty
<1>2. CASE i # 0
  <2>1. i < 4 /\ edit.enabled
    BY <1>2 DEF NetDoes, NetEdit
  <2>2. NetDoes(edit, i) # "enabled"
    BY <1>2, <2>1 DEF NetDoes
  <2>3. \/ \E t \in SsidTexts : copy = [edit EXCEPT !.ssid = t]
        \/ \E t \in PskTexts : copy = [edit EXCEPT !.psk = t]
    BY <2>2 DEF NetEdit
  <2>4. copy.enabled
    BY <2>1, <2>3 DEF NetEdits
  <2>5. Len(NetEntries(copy)) = 5
    BY <2>4, EntriesLen
  <2> QED
    BY <2>1, <2>5
<1> QED
  BY <1>1, <1>2

LEMMA IpEditStays ==
  ASSUME NEW i \in 0..5, NEW copy \in IpEdits, edit \in IpEdits,
         IpEdit(IpDoes(edit, i), copy)
  PROVE  i < Len(IpEntries(copy))
<1>1. CASE i = 0
  BY <1>1, EntriesNonEmpty
<1>2. CASE i # 0
  <2>1. i < IF edit.mode = "static" THEN 5 ELSE 2
    BY <1>2 DEF IpDoes, IpEdit
  <2>2. copy.mode = edit.mode
    BY <1>2 DEF IpDoes, IpEdit, IpEdits
  <2>3. Len(IpEntries(copy)) = IF edit.mode = "static" THEN 6 ELSE 3
    BY <2>2, EntriesLen
  <2> QED
    BY <2>1, <2>3
<1> QED
  BY <1>1, <1>2

\* The edit copies and what can be highlighted on a settings screen have their
\* types whichever way the next pass begins.
LEMMA PassInv ==
  ASSUME Core, at' \in Stations, NEW copy, NEW choice \in 0..5, NEW popped,
         NextPass(copy, choice, popped),
         \/ /\ nav = "network_settings" /\ copy \in NetEdits
            /\ choice < Len(NetEntries(copy))
         \/ /\ nav = "ip_settings" /\ copy \in IpEdits
            /\ choice < Len(IpEntries(copy)),
         popped = frames, frames \in 1..2,
         changes' \in 0..MaxChanges, request = "none", initialized,
         UNCHANGED <<linkVars, dataVars, device, confirmed>>
  PROVE  Core'
<1> USE PftcAssumption DEF Core, NextPass, Return, linkVars, dataVars
<1>1. TypeOK'
  BY DEF TypeOK, Screens, ScreenStackMax
<1>2. RequestWhere'
  BY DEF RequestWhere
<1>3. SettingsWhere'
  BY DEF SettingsWhere, SettingsInUse, InterfaceScreens, Kept
<1>4. EditWhere'
  BY DEF EditWhere
<1>5. ScreensBalanced'
  BY DEF ScreensBalanced
<1> QED
  BY <1>1, <1>2, <1>3, <1>4, <1>5

\* Done and ESC on a settings screen: the copy becomes the settings, or goes.
LEMMA CloseInv ==
  ASSUME Core, at = "menu", NEW part \in {"net", "ip"},
         part = "net" => nav = "network_settings",
         part = "ip" => nav = "ip_settings",
         CloseSettings, SettingsEscape \/ SettingsDone(part),
         UNCHANGED <<linkVars, dashboardOk, listed, selected, initialized, netif, device,
                     changes>>
  PROVE  Core'
<1> USE PftcAssumption DEF Core, CloseSettings, Return, linkVars
<1>1. frames = 1 /\ edit # NoEdit
  BY DEF ScreensBalanced
<1>2. part = "net" => edit \in NetEdits
  BY <1>1 DEF EditWhere
<1>3. part = "ip" => edit \in IpEdits
  BY <1>1 DEF EditWhere
<1>4. /\ settings' \in [net : NetEdits, ip : IpEdits]
      /\ confirmed' \in [net : NetEdits \cup {NoEdit}, ip : IpEdits \cup {NoEdit}]
  BY <1>2, <1>3 DEF TypeOK, SettingsEscape, SettingsDone
<1>5. initialized /\ request = "none"
  BY DEF SettingsWhere, SettingsInUse, InterfaceScreens, RequestWhere
<1>6. Kept("net")' /\ Kept("ip")'
  <2>1. Kept("net") /\ Kept("ip")
    BY <1>5 DEF SettingsWhere
  <2>2. CASE SettingsEscape
    BY <2>1, <2>2 DEF SettingsEscape, Kept
  <2>3. CASE SettingsDone("net") /\ part = "net"
    BY <1>1, <2>1, <2>3 DEF SettingsDone, Kept, TypeOK
  <2>4. CASE SettingsDone("ip") /\ part = "ip"
    BY <1>1, <2>1, <2>4 DEF SettingsDone, Kept, TypeOK
  <2> QED
    BY <2>2, <2>3, <2>4
<1>7. TypeOK'
  BY <1>1, <1>4 DEF TypeOK, Screens, Stations, ScreenStackMax
<1>8. RequestWhere' /\ EditWhere' /\ ScreensBalanced'
  BY <1>1, <1>5 DEF RequestWhere, EditWhere, ScreensBalanced
<1>9. SettingsWhere'
  BY <1>5, <1>6 DEF SettingsWhere, SettingsInUse, InterfaceScreens
<1> QED
  BY <1>7, <1>8, <1>9

\* The network settings (gui_iface.c:315-390).
LEMMA NetChoiceInv ==
  ASSUME Core, NetChoice PROVE Core'
<1>1. /\ at = "menu" /\ nav = "network_settings" /\ frames = 1 /\ edit \in NetEdits
      /\ request = "none" /\ initialized
      /\ UNCHANGED <<dashboardOk, listed, selected, initialized, netif, device>>
  BY DEF Core, NetChoice, In, ScreensBalanced, EditWhere, SettingsWhere, SettingsInUse,
         InterfaceScreens, RequestWhere
<1>2. CASE /\ CloseSettings
           /\ SettingsEscape \/ SettingsDone("net")
           /\ UNCHANGED <<linkVars, changes>>
  BY <1>1, <1>2, CloseInv
<1>3. CASE \E i \in 0..4 :
             /\ \E copy \in NetEdits : NetEdit(NetDoes(edit, i), copy) /\ NextPass(copy, i, 1)
             /\ Change
             /\ UNCHANGED <<linkVars, settings, confirmed>>
  <2>1. PICK i \in 0..4, copy \in NetEdits :
             NetEdit(NetDoes(edit, i), copy) /\ NextPass(copy, i, 1)
    BY <1>3
  <2>2. i < Len(NetEntries(copy))
    BY <1>1, <2>1, NetEditStays
  <2>3. changes' \in 0..MaxChanges
    BY <1>3, Bounds DEF Core, TypeOK, Change
  <2>4. at' \in Stations
    BY <2>1 DEF NextPass, Return, Stations
  <2>5. UNCHANGED <<linkVars, dataVars, device, confirmed>>
    BY <1>1, <1>3 DEF dataVars
  <2> QED
    BY <1>1, <2>1, <2>2, <2>3, <2>4, <2>5, PassInv
<1>4. CASE \E i \in 0..4 :
             /\ NetDoes(edit, i) = "scan" /\ item' = i
             /\ Exchange("scan")
             /\ UNCHANGED <<nav, frames, edit, settings, confirmed, changes>>
  <2>1. item' = 1 /\ edit.enabled
    BY <1>4 DEF NetDoes
  <2>2. item' < Len(NetEntries(edit))
    BY <1>1, <2>1, EntriesLen
  <2> USE <1>1, <1>4, <2>1 DEF Core, Exchange
  <2>3. TypeOK'
    BY Bounds DEF TypeOK, Stations, Requests
  <2>4. RequestWhere' /\ SettingsWhere'
    BY DEF RequestWhere, SettingsWhere, SettingsInUse, InterfaceScreens, Kept
  <2>5. EditWhere' /\ ScreensBalanced'
    BY <2>2 DEF EditWhere, ScreensBalanced
  <2> QED
    BY <2>3, <2>4, <2>5
<1> QED
  BY <1>2, <1>3, <1>4 DEF NetChoice

\* A network picked from a scan (gui_iface.c:358-374).
LEMMA ScanChoiceInv ==
  ASSUME Core, ScanChoice PROVE Core'
<1>1. /\ nav = "network_settings" /\ frames = 2 /\ edit \in NetEdits /\ edit.enabled
      /\ item \in 0..5 /\ item < Len(NetEntries(edit))
      /\ request = "none" /\ initialized
      /\ UNCHANGED <<linkVars, dataVars, device, confirmed>>
  BY DEF Core, ScanChoice, ScreensBalanced, EditWhere, SettingsWhere, SettingsInUse,
         InterfaceScreens, RequestWhere, TypeOK
<1>2. CASE NextPass(edit, item, 2) /\ UNCHANGED changes
  <2>1. at' \in Stations /\ changes' \in 0..MaxChanges
    BY <1>2 DEF Core, TypeOK, NextPass, Return, Stations
  <2> QED
    BY <1>1, <1>2, <2>1, PassInv
<1>3. CASE /\ Change
           /\ \E s \in Ssids :
                \/ NextPass([edit EXCEPT !.ssid = s], 2, 2)
                \/ \E t \in PskTexts : NextPass([edit EXCEPT !.ssid = s, !.psk = t], 3, 2)
  <2>1. PICK copy \in NetEdits, i \in 2..3 : copy.enabled /\ NextPass(copy, i, 2)
    <3>1. PICK s \in Ssids :
                \/ NextPass([edit EXCEPT !.ssid = s], 2, 2)
                \/ \E t \in PskTexts : NextPass([edit EXCEPT !.ssid = s, !.psk = t], 3, 2)
      BY <1>3
    <3>2. CASE NextPass([edit EXCEPT !.ssid = s], 2, 2)
      <4>1. /\ [edit EXCEPT !.ssid = s] \in NetEdits
            /\ [edit EXCEPT !.ssid = s].enabled
        BY <1>1 DEF NetEdits, SsidTexts
      <4> QED
        BY <3>2, <4>1, 2 \in 2..3
    <3>3. CASE \E t \in PskTexts : NextPass([edit EXCEPT !.ssid = s, !.psk = t], 3, 2)
      <4>1. PICK t \in PskTexts : NextPass([edit EXCEPT !.ssid = s, !.psk = t], 3, 2)
        BY <3>3
      <4>2. /\ [edit EXCEPT !.ssid = s, !.psk = t] \in NetEdits
            /\ [edit EXCEPT !.ssid = s, !.psk = t].enabled
        BY <1>1 DEF NetEdits, SsidTexts
      <4> QED
        BY <4>1, <4>2, 3 \in 2..3
    <3> QED
      BY <3>1, <3>2, <3>3
  <2>2. Len(NetEntries(copy)) = 5
    BY <2>1, EntriesLen
  <2>3. i \in 0..5 /\ i < Len(NetEntries(copy))
    BY <2>2
  <2>4. at' \in Stations /\ changes' \in 0..MaxChanges
    BY <1>3, <2>1, Bounds DEF Core, TypeOK, NextPass, Return, Stations, Change
  <2> QED
    BY <1>1, <2>1, <2>3, <2>4, PassInv
<1> QED
  BY <1>2, <1>3 DEF ScanChoice

\* The address settings (gui_ip.c:72-147).
LEMMA IpChoiceInv ==
  ASSUME Core, IpChoice PROVE Core'
<1>1. /\ at = "menu" /\ nav = "ip_settings" /\ frames = 1 /\ edit \in IpEdits
      /\ request = "none" /\ initialized
      /\ UNCHANGED <<linkVars, dashboardOk, listed, selected, initialized, netif, device>>
  BY DEF Core, IpChoice, In, ScreensBalanced, EditWhere, SettingsWhere, SettingsInUse,
         InterfaceScreens, RequestWhere
<1>2. CASE /\ CloseSettings
           /\ SettingsEscape \/ SettingsDone("ip")
           /\ UNCHANGED changes
  BY <1>1, <1>2, CloseInv
<1>3. CASE \E i \in 0..5 :
             /\ \E copy \in IpEdits : IpEdit(IpDoes(edit, i), copy) /\ NextPass(copy, i, 1)
             /\ Change
             /\ UNCHANGED <<settings, confirmed>>
  <2>1. PICK i \in 0..5, copy \in IpEdits :
             IpEdit(IpDoes(edit, i), copy) /\ NextPass(copy, i, 1)
    BY <1>3
  <2>2. i < Len(IpEntries(copy))
    BY <1>1, <2>1, IpEditStays
  <2>3. changes' \in 0..MaxChanges
    BY <1>3, Bounds DEF Core, TypeOK, Change
  <2>4. at' \in Stations
    BY <2>1 DEF NextPass, Return, Stations
  <2>5. UNCHANGED <<linkVars, dataVars, device, confirmed>>
    BY <1>1, <1>3 DEF dataVars
  <2> QED
    BY <1>1, <2>1, <2>2, <2>3, <2>4, <2>5, PassInv
<1> QED
  BY <1>2, <1>3 DEF IpChoice

\* main starts with the handshake and nothing set (pftc.c:7-20).
LEMMA InitInv == Init => Core
<1> SUFFICES ASSUME Init PROVE Core
  OBVIOUS
<1>1. AnyInterface \in Interfaces
  BY PftcAssumption DEF AnyInterface
<1>2. Reported[AnyInterface] \in Configs
  BY <1>1, PftcAssumption
<1>3. netif \in [iface : Interfaces, config : Configs]
  BY <1>1, <1>2 DEF Init, NetifOf
<1>4. settings \in [net : NetEdits, ip : IpEdits]
  BY <1>2, DefaultsType DEF Init, NetifOf
<1>5. TypeOK
  <2>1. /\ frames \in 0..ScreenStackMax /\ item \in 0..5
        /\ retries \in 0..SyncRetries /\ changes \in 0..MaxChanges
    BY PftcAssumption DEF Init, ScreenStackMax
  <2>2. device \in [Interfaces -> Configs]
    BY PftcAssumption DEF Init
  <2>3. confirmed \in [net : NetEdits \cup {NoEdit}, ip : IpEdits \cup {NoEdit}]
    BY UndecidedType DEF Init
  <2> QED
    BY <1>1, <1>3, <1>4, <2>1, <2>2, <2>3 DEF Init, TypeOK, Screens, Stations, Requests
<1>6. RequestWhere /\ EditWhere /\ ScreensBalanced
  BY DEF Init, RequestWhere, EditWhere, ScreensBalanced
<1>7. SettingsWhere
  BY DEF Init, SettingsWhere, SettingsInUse, InterfaceScreens
<1> QED
  BY <1>5, <1>6, <1>7 DEF Core

\* Only the cable's steps count, and the one that sends is the first since the
\* exchange began (smartcable.c:92-100).
LEMMA SentOnceInv == Core /\ SentOnce /\ [Next]_vars => SentOnce'
<1> SUFFICES ASSUME Core, SentOnce, [Next]_vars PROVE SentOnce'
  OBVIOUS
<1>1. CASE SendBlock \/ SendFails
  <2>1. taken = 0
    BY <1>1 DEF Core, RequestWhere, SendBlock, SendFails
  <2>2. taken' \in {0, 1}
    BY <1>1, <2>1 DEF SendBlock, SendFails, DeviceTakes
  <2> QED
    BY <2>2 DEF SentOnce
<1>2. CASE taken' \in {taken, 0}
  BY <1>2 DEF SentOnce
<1>3. CASE ExchangeSteps /\ ~(SendBlock \/ SendFails)
  <2>1. taken' \in {taken, 0}
    BY <1>3 DEF ExchangeSteps, SyncMissed, ReceiveFails, AfterHello, AfterDashboard,
                AfterNetifs, AfterNetif, AfterSet, AfterScan, Exchange
  <2> QED
    BY <1>2, <2>1
<1>4. CASE LoopSteps
  <2>1. taken' \in {taken, 0}
    BY <1>4 DEF LoopSteps, Dashboard, RootMenu, InterfacesList, InterfaceMenu,
                InterfaceDetail, NetworkSettings, IpSettings, OpenSettings, InfoScreen,
                Exit, Elsewhere, linkVars, Exchange
  <2> QED
    BY <1>2, <2>1
<1>5. CASE UserSteps
  <2>1. taken' \in {taken, 0}
    BY <1>5 DEF UserSteps, DashboardKey, RootChoice, InterfacesChoice, InterfaceChoice,
                DetailClosed, NetChoice, ScanChoice, IpChoice, Elsewhere, linkVars, Exchange
  <2> QED
    BY <1>2, <2>1
<1>6. CASE UNCHANGED vars
  BY <1>2, <1>6 DEF vars, linkVars
<1> QED
  BY <1>1, <1>3, <1>4, <1>5, <1>6 DEF Next

\* Every step keeps the invariant.
LEMMA NextInv == Core /\ [Next]_vars => Core'
<1> SUFFICES ASSUME Core, [Next]_vars PROVE Core'
  OBVIOUS
<1>1. CASE ExchangeSteps
  BY <1>1, CableInv, PlainAnswerInv, NetifsInv, NetifInv DEF ExchangeSteps
<1>2. CASE LoopSteps
  BY <1>2, LoopInv
<1>3. CASE UserSteps
  BY <1>3, MenuInv, NetChoiceInv, ScanChoiceInv, IpChoiceInv DEF UserSteps
<1>4. CASE UNCHANGED vars
  BY <1>4 DEF vars, heapVars, linkVars, dataVars, Core, TypeOK, RequestWhere, SettingsWhere,
              SettingsInUse, Kept, EditWhere, ScreensBalanced
<1> QED
  BY <1>1, <1>2, <1>3, <1>4 DEF Next

-----------------------------------------------------------------------------
(* The theorems *)

\* Where each request is made, where the settings and the edit copies are
\* there, and how many screens are saved: the invariant of main's loop over all
\* screens (pftc.c:21-45).
THEOREM PftcInvariant == Spec => []PftcInv
<1>1. Init => Core /\ SentOnce
  BY InitInv DEF Init, SentOnce
<1>2. Core /\ SentOnce /\ [Next]_vars => (Core /\ SentOnce)'
  BY NextInv, SentOnceInv
<1>3. Core /\ SentOnce => PftcInv
  BY MenusTrue DEF Core, PftcInv
<1> QED
  BY <1>1, <1>2, <1>3, PTL DEF Spec

\* The settings shown, edited and sent are those of the interface selected
\* (gui_iface.c:53-63): a failed report, an ESC or a lack of memory never leave
\* those of another one armed.
THEOREM SettingsOfSelectedHolds == Spec => []SettingsOfSelected
<1>1. PftcInv => SettingsOfSelected
  BY DEF PftcInv, SettingsWhere, SettingsOfSelected
<1> QED
  BY <1>1, PftcInvariant, PTL

\* What Done confirmed stays until the list of interfaces is back, and nothing
\* else gets into the settings (gui_iface.c:337-345, gui_ip.c:94-104).
THEOREM ConfirmedEditsKeptHolds == Spec => []ConfirmedEditsKept
<1>1. PftcInv => ConfirmedEditsKept
  BY DEF PftcInv, SettingsWhere, ConfirmedEditsKept
<1> QED
  BY <1>1, PftcInvariant, PTL

\* Every screen pushed is popped and every edit copy freed, by whichever way a
\* screen returns (gui_core.c:106-134).
THEOREM ScreensBalancedHolds == Spec => []ScreensBalanced
<1>1. PftcInv => ScreensBalanced
  BY DEF PftcInv
<1> QED
  BY <1>1, PftcInvariant, PTL

\* A position chosen from a settings menu does what its entry says, for any edit
\* copy (gui_iface.c:178-193 against 337-387, gui_ip.c:27-44 against 94-144).
THEOREM MenuDoesWhatItSaysHolds == Spec => []MenuDoesWhatItSays
<1>1. PftcInv => MenuDoesWhatItSays
  BY DEF PftcInv
<1> QED
  BY <1>1, PftcInvariant, PTL

\* However many retries there are, the device gets a request once at most
\* (smartcable.c:92-100).
THEOREM SentOnceHolds == Spec => []SentOnce
<1>1. PftcInv => SentOnce
  BY DEF PftcInv
<1> QED
  BY <1>1, PftcInvariant, PTL

=============================================================================

-------------------------------- MODULE Pftc --------------------------------
(***************************************************************************)
(* PFTC, the configuration client on the Portfolio: main's loop over the   *)
(* screens (pftc.c), the screens (gui.c, gui_iface.c, gui_ip.c), the       *)
(* stack of saved screens (gui_core.c) and the exchange of a request for a *)
(* response (smartcable.c).                                                *)
(*                                                                         *)
(* One thread: a step leads from one wait, for a key or for the cable, to  *)
(* the next, or through one turn of main's loop.  Memory may run out at    *)
(* any malloc.  What a screen looks like, and the dialogs that report an   *)
(* error, are left out.                                                    *)
(***************************************************************************)
EXTENDS Integers, Sequences

CONSTANTS
  Interfaces,   \* slots of the device at the other end
  Wifi,         \* those that are WiFi clients
  Ssids, Psks,  \* texts a user may enter or a scan may find
  Addrs,        \* each stands for an address, its prefix and a gateway
  NoText,       \* the empty text
  NoEdit,       \* no edit copy is allocated
  Reported,     \* Interfaces -> Configs, what the device is set to at first
  SyncRetries,  \* SMARTCABLE_SYNC_RETRIES
  MaxChanges    \* bound: changes to an edit copy, and Applies

Modes == {"dhcp", "static"}
SsidTexts == Ssids \cup {NoText}
PskTexts == Psks \cup {NoText}

NetEdits == [enabled : BOOLEAN, ssid : SsidTexts, psk : PskTexts]
IpEdits  == [mode : Modes, addr : Addrs, v6 : BOOLEAN]
Configs  == [enabled : BOOLEAN, ssid : SsidTexts, mode : Modes, addr : Addrs, v6 : BOOLEAN]

ASSUME PftcAssumption ==
  /\ Interfaces # {} /\ Wifi \subseteq Interfaces
  /\ Reported \in [Interfaces -> Configs]
  /\ NoEdit \notin NetEdits \cup IpEdits
  /\ SyncRetries \in Nat /\ MaxChanges \in Nat

ScreenStackMax == 3     \* gui_core.c, SCREEN_STACK_MAX

VARIABLES
  nav,          \* the nav_state main holds
  at,           \* where the program is, see Stations
  frames,       \* screen_stack_depth
  edit,         \* the edit copy on the heap, or NoEdit
  item,         \* last_item of a settings screen
  request,      \* the request of the exchange under way, or "none"
  retries,      \* its retries left
  taken,        \* history: times the device has taken it
  dashboardOk,
  listed,       \* interfaces_menu_interface
  selected,     \* selected_interface
  initialized,  \* interface_menu_initialized
  netif,        \* menu_netif: the interface asked about and its report
  settings,     \* interface_settings, by the screen they are edited on
  device,       \* what the device is set to
  confirmed,    \* history: what the user left each screen with by Done, this visit
  changes

linkVars == <<request, retries, taken>>
heapVars == <<frames, edit, item>>
dataVars == <<dashboardOk, listed, selected, initialized, netif, settings>>
vars == <<nav, at, heapVars, linkVars, dataVars, device, confirmed, changes>>

Screens == {"dashboard", "root_menu", "interfaces", "interface_menu", "detail",
            "network_settings", "ip_settings", "info", "exit"}

\* loop: main is about to call the function of nav; menu: that function waits
\* for a key; scan: the menu of networks over the network settings; send and
\* receive: smartcable_exchange; off: main has returned.
Stations == {"loop", "menu", "scan", "send", "receive", "off"}
UserStations == {"menu", "scan", "off"}

Requests == {"hello", "dashboard", "netifs", "netif", "set", "scan"}
Undecided == [net |-> NoEdit, ip |-> NoEdit]

\* init_interface_settings: what a report is turned into.
Defaults(report) ==
  [net |-> [enabled |-> report.enabled, ssid |-> report.ssid, psk |-> NoText],
   ip  |-> [mode |-> "dhcp", addr |-> report.addr, v6 |-> FALSE]]

AnyInterface == CHOOSE i \in Interfaces : TRUE
NetifOf(i, config) == [iface |-> i, config |-> config]

\* main clears the screen and shakes hands.
Init ==
  /\ nav = "dashboard" /\ at = "send" /\ request = "hello"
  /\ retries = SyncRetries /\ taken = 0
  /\ frames = 0 /\ edit = NoEdit /\ item = 0
  /\ dashboardOk = FALSE /\ listed = {} /\ initialized = FALSE
  /\ selected = AnyInterface
  /\ netif = NetifOf(AnyInterface, Reported[AnyInterface])
  /\ settings = Defaults(netif.config)
  /\ device = Reported /\ confirmed = Undecided /\ changes = 0

-----------------------------------------------------------------------------
(* Ways out of a step *)

Return(screen) == nav' = screen /\ at' = "loop"

\* screen_push and the menu over it, or no memory and back to `otherwise`.
OpenMenu(screen, otherwise) ==
  \/ /\ frames < ScreenStackMax /\ frames' = frames + 1
     /\ nav' = screen /\ at' = "menu"
  \/ frames' = frames /\ Return(otherwise)

\* Every exit from an interface's menu to the list of interfaces.
\* Mutant: one that leaves the settings armed.
LeaveInterfaceArmed ==
  Return("interfaces") /\ confirmed' = Undecided /\ UNCHANGED initialized
LeaveInterface ==
  Return("interfaces") /\ confirmed' = Undecided /\ initialized' = FALSE

\* The menu of the interface, once the settings are there.
\* Mutant: interface_menu_initialized is not set.
ShowInterfaceMenuForgets ==
  \/ /\ frames < ScreenStackMax /\ frames' = frames + 1
     /\ nav' = "interface_menu" /\ at' = "menu"
     /\ UNCHANGED <<initialized, confirmed>>
  \/ frames' = frames /\ LeaveInterface
ShowInterfaceMenu ==
  \/ /\ frames < ScreenStackMax /\ frames' = frames + 1
     /\ nav' = "interface_menu" /\ at' = "menu" /\ initialized' = TRUE
     /\ UNCHANGED confirmed
  \/ frames' = frames /\ LeaveInterface

\* The end of a pass of a settings screen: `popped` screens are restored, and the
\* next pass saves the screen again or gives the edit copy up.
\* Mutant: the copy is not freed.
NextPassLeaks(copy, choice, popped) ==
  \/ /\ frames' = frames - popped + 1
     /\ edit' = copy /\ item' = choice
     /\ at' = "menu" /\ UNCHANGED nav
  \/ frames' = frames - popped /\ Return("interface_menu") /\ UNCHANGED <<edit, item>>
NextPass(copy, choice, popped) ==
  \/ /\ frames' = frames - popped + 1
     /\ edit' = copy /\ item' = choice
     /\ at' = "menu" /\ UNCHANGED nav
  \/ /\ frames' = frames - popped /\ edit' = NoEdit /\ item' = 0
     /\ Return("interface_menu")

Change == changes < MaxChanges /\ changes' = changes + 1

-----------------------------------------------------------------------------
(* smartcable_exchange *)

Exchange(r) ==
  request' = r /\ retries' = SyncRetries /\ taken' = 0 /\ at' = "send"

Finish == request' = "none" /\ retries' = 0

\* Where each request's function goes on after a transport error or a response
\* it does not accept.
FallBack == [hello |-> "dashboard", dashboard |-> "dashboard", netifs |-> "root_menu",
             netif |-> "interfaces", set |-> "interface_menu"]

ExchangeFails ==
  /\ Finish
  /\ \/ request = "scan" /\ NextPass(edit, item, 1)
     \/ request # "scan" /\ Return(FallBack[request]) /\ UNCHANGED heapVars
  /\ UNCHANGED <<dataVars, confirmed, changes>>

\* What a SET_NETIF asks for; addresses go with static mode only.
Sent ==
  [enabled |-> settings.net.enabled, ssid |-> settings.net.ssid, mode |-> settings.ip.mode,
   addr |-> IF settings.ip.mode = "static" THEN settings.ip.addr ELSE device[selected].addr,
   v6 |-> settings.ip.v6]

\* The device has the whole request, and does what it says or refuses to.
DeviceTakes ==
  /\ taken' = taken + 1
  /\ \/ UNCHANGED device
     \/ request = "set" /\ device' = [device EXCEPT ![selected] = Sent]

SendBlock ==
  /\ at = "send"
  /\ DeviceTakes
  /\ at' = "receive"
  /\ UNCHANGED <<nav, heapVars, request, retries, dataVars, confirmed, changes>>

\* Nobody answered the sync: after half a second once more, as long as there
\* are retries left.
\* Mutants: one too many; the counter wraps.
SyncMissedLate ==
  /\ at = "send"
  /\ \/ /\ retries >= 0 /\ retries' = retries - 1
        /\ UNCHANGED <<nav, at, heapVars, request, taken, dataVars, confirmed, changes>>
     \/ retries < 0 /\ ExchangeFails /\ UNCHANGED taken
  /\ UNCHANGED device
SyncMissedForever ==
  /\ at = "send"
  /\ retries' = IF retries = 0 THEN SyncRetries ELSE retries - 1
  /\ UNCHANGED <<nav, at, heapVars, request, taken, dataVars, device, confirmed, changes>>
SyncMissed ==
  /\ at = "send"
  /\ \/ /\ retries > 0 /\ retries' = retries - 1
        /\ UNCHANGED <<nav, at, heapVars, request, taken, dataVars, confirmed, changes>>
     \/ retries = 0 /\ ExchangeFails /\ UNCHANGED taken
  /\ UNCHANGED device

\* Any other status, the port not opening included, is final; the device may
\* have the request all the same.
\* Mutant: any failure is tried again.
SendFailsRetried ==
  /\ at = "send" /\ retries > 0 /\ retries' = retries - 1
  /\ DeviceTakes
  /\ UNCHANGED <<nav, at, heapVars, request, dataVars, confirmed, changes>>
SendFails ==
  /\ at = "send"
  /\ ExchangeFails
  /\ DeviceTakes \/ UNCHANGED <<taken, device>>

\* No response, a short one, or one with an error code.
ReceiveFails == at = "receive" /\ ExchangeFails /\ UNCHANGED <<taken, device>>

-----------------------------------------------------------------------------
(* A response accepted *)

Answered(r) == at = "receive" /\ request = r

AfterHello ==
  /\ Answered("hello")
  /\ Exchange("dashboard")
  /\ UNCHANGED <<nav, heapVars, dataVars, device, confirmed, changes>>

AfterDashboard ==
  /\ Answered("dashboard") /\ Finish /\ UNCHANGED taken
  /\ dashboardOk' = TRUE
  /\ Return("dashboard")
  /\ UNCHANGED <<heapVars, listed, selected, initialized, netif, settings, device,
                 confirmed, changes>>

AfterNetifs ==
  /\ Answered("netifs") /\ Finish /\ UNCHANGED taken
  /\ \E s \in SUBSET Interfaces : s # {} /\ listed' = s
  /\ OpenMenu("interfaces", "root_menu")
  /\ UNCHANGED <<edit, item, dashboardOk, selected, initialized, netif, settings, device,
                 confirmed, changes>>

\* The report of the interface asked for; its SSID may be missing or cut off.
Reports(i) ==
  LET c == device[i] IN {[c EXCEPT !.ssid = t] : t \in IF i \in Wifi THEN {c.ssid, NoText}
                                                                    ELSE {NoText}}

AfterNetif ==
  /\ Answered("netif") /\ Finish /\ UNCHANGED taken
  /\ \E report \in Reports(selected) :
       netif' = NetifOf(selected, report) /\ settings' = Defaults(report)
  /\ ShowInterfaceMenu
  /\ UNCHANGED <<edit, item, dashboardOk, listed, selected, device, changes>>

\* "Applied.": the settings stay as they are.
AfterSet ==
  /\ Answered("set") /\ Finish /\ UNCHANGED taken
  /\ Return("interface_menu")
  /\ UNCHANGED <<heapVars, dataVars, device, confirmed, changes>>

AfterScan ==
  /\ Answered("scan") /\ Finish /\ UNCHANGED taken
  /\ \/ /\ frames < ScreenStackMax /\ frames' = frames + 1 /\ at' = "scan"
        /\ UNCHANGED <<nav, edit, item>>
     \/ NextPass(edit, item, 1)
  /\ UNCHANGED <<dataVars, device, confirmed, changes>>

ExchangeSteps == \/ SendBlock \/ SyncMissed \/ SendFails \/ ReceiveFails
                 \/ AfterHello \/ AfterDashboard \/ AfterNetifs \/ AfterNetif
                 \/ AfterSet \/ AfterScan

-----------------------------------------------------------------------------
(* Entering a screen: main's switch *)

Entering(screen) == at = "loop" /\ nav = screen
Elsewhere == UNCHANGED <<linkVars, dataVars, device, confirmed, changes>>

Dashboard ==
  /\ Entering("dashboard")
  /\ at' = "menu"
  /\ UNCHANGED <<nav, heapVars>> /\ Elsewhere

RootMenu ==
  /\ Entering("root_menu")
  /\ OpenMenu("root_menu", "dashboard")
  /\ UNCHANGED <<edit, item>> /\ Elsewhere

InterfacesList ==
  /\ Entering("interfaces")
  /\ Exchange("netifs")
  /\ UNCHANGED <<nav, heapVars, dataVars, device, confirmed, changes>>

InterfaceMenu ==
  /\ Entering("interface_menu")
  /\ \/ /\ ~initialized /\ Exchange("netif")
        /\ UNCHANGED <<nav, frames, initialized, confirmed>>
     \/ initialized /\ ShowInterfaceMenu /\ UNCHANGED linkVars
  /\ UNCHANGED <<edit, item, dashboardOk, listed, selected, netif, settings, device, changes>>

InterfaceDetail ==
  /\ Entering("detail")
  /\ OpenMenu("detail", "interface_menu")
  /\ UNCHANGED <<edit, item>> /\ Elsewhere

\* A copy of the settings and its screen, or no memory for one of the two.
OpenSettings(screen, copy) ==
  /\ Entering(screen)
  /\ \/ /\ frames < ScreenStackMax /\ frames' = frames + 1
        /\ edit' = copy /\ item' = 0 /\ at' = "menu" /\ UNCHANGED nav
     \/ Return("interface_menu") /\ UNCHANGED heapVars
  /\ Elsewhere

NetworkSettings == OpenSettings("network_settings", settings.net)
IpSettings == OpenSettings("ip_settings", settings.ip)

InfoScreen == Entering("info") /\ Return("root_menu") /\ UNCHANGED heapVars /\ Elsewhere

Exit == Entering("exit") /\ at' = "off" /\ UNCHANGED <<nav, heapVars>> /\ Elsewhere

LoopSteps == \/ Dashboard \/ RootMenu \/ InterfacesList \/ InterfaceMenu
             \/ InterfaceDetail \/ NetworkSettings \/ IpSettings \/ InfoScreen \/ Exit

-----------------------------------------------------------------------------
(* A key, or a choice from a menu *)

In(screen) == at = "menu" /\ nav = screen
Pop == frames' = frames - 1 /\ UNCHANGED <<edit, item>>

\* F9 or the Atari key, Ctrl-Q; F5 fetches.
DashboardKey ==
  /\ In("dashboard")
  /\ \/ \E s \in {"root_menu", "exit"} : Return(s) /\ UNCHANGED linkVars
     \/ Exchange("dashboard") /\ UNCHANGED nav
  /\ UNCHANGED <<heapVars, dataVars, device, confirmed, changes>>

RootChoice ==
  /\ In("root_menu") /\ Pop
  /\ \/ /\ Return(IF dashboardOk THEN "interfaces" ELSE "root_menu")
        /\ UNCHANGED linkVars
     \/ \E s \in {"dashboard", "info", "exit"} : Return(s) /\ UNCHANGED linkVars
     \/ Exchange("hello") /\ nav' = "dashboard"
  /\ UNCHANGED <<dataVars, device, confirmed, changes>>

InterfacesChoice ==
  /\ In("interfaces") /\ Pop
  /\ \/ Return("root_menu") /\ UNCHANGED selected
     \/ \E i \in listed : selected' = i /\ Return("interface_menu")
  /\ UNCHANGED <<linkVars, dashboardOk, listed, initialized, netif, settings, device,
                 confirmed, changes>>

InterfaceChoice ==
  /\ In("interface_menu") /\ Pop
  /\ \/ LeaveInterface /\ UNCHANGED <<linkVars, changes>>
     \/ /\ \E s \in {"detail", "network_settings", "ip_settings"} : Return(s)
        /\ UNCHANGED <<linkVars, initialized, confirmed, changes>>
     \/ /\ Exchange("set") /\ Change
        /\ UNCHANGED <<nav, initialized, confirmed>>
  /\ UNCHANGED <<dashboardOk, listed, selected, netif, settings, device>>

DetailClosed == In("detail") /\ Pop /\ Return("interface_menu") /\ Elsewhere

-----------------------------------------------------------------------------
(* The settings screens.  What is chosen comes back as a position in the menu *)
(* that was shown.                                                            *)

\* build_network_settings_text, build_ip_settings_text: the entries, titles aside.
NetEntries(copy) == IF copy.enabled THEN <<"enabled", "scan", "ssid", "psk", "done">>
                                    ELSE <<"enabled", "done">>
IpEntries(copy) == IF copy.mode = "static"
                     THEN <<"mode", "ip", "prefix", "gateway", "ipv6", "done">>
                     ELSE <<"mode", "ipv6", "done">>

\* What the code after the menu does with a position of that menu.
\* Mutant: done_item is that of the long menu.
NetDoesLong(copy, i) ==
  CASE i = 4 -> "done"
    [] i = 0 -> "enabled"
    [] copy.enabled /\ i = 1 -> "scan"
    [] copy.enabled /\ i = 2 -> "ssid"
    [] copy.enabled /\ i = 3 -> "psk"
    [] ~copy.enabled /\ i \in 1..3 -> "nothing"
NetDoes(copy, i) ==
  CASE i = (IF copy.enabled THEN 4 ELSE 1) -> "done"
    [] i = 0 -> "enabled"
    [] copy.enabled /\ i = 1 -> "scan"
    [] copy.enabled /\ i = 2 -> "ssid"
    [] copy.enabled /\ i = 3 -> "psk"
    [] ~copy.enabled /\ i \in 2..4 -> "nothing"

IpDoes(copy, i) ==
  LET static == copy.mode = "static" IN
  CASE i = (IF static THEN 5 ELSE 2) -> "done"
    [] i = 0 -> "mode"
    [] i = (IF static THEN 4 ELSE 1) -> "ipv6"
    [] static /\ i = 1 -> "ip"
    [] static /\ i = 2 -> "prefix"
    [] static /\ i = 3 -> "gateway"
    [] ~static /\ i \in 3..5 -> "nothing"

\* Done: the copy becomes the settings.  ESC: it does not.
SettingsDone(part) ==
  /\ settings' = [settings EXCEPT ![part] = edit]
  /\ confirmed' = [confirmed EXCEPT ![part] = edit]
SettingsEscape == UNCHANGED <<settings, confirmed>>

CloseSettings == frames' = frames - 1 /\ edit' = NoEdit /\ item' = 0 /\ Return("interface_menu")

\* The line editor returns with a valid text, or with the old one on ESC.
NetEdit(what, copy) ==
  \/ what = "enabled" /\ copy = [edit EXCEPT !.enabled = ~@]
  \/ what = "ssid" /\ \E t \in SsidTexts : copy = [edit EXCEPT !.ssid = t]
  \/ what = "psk" /\ \E t \in PskTexts : copy = [edit EXCEPT !.psk = t]
IpEdit(what, copy) ==
  \/ what = "mode" /\ copy = [edit EXCEPT !.mode = IF @ = "dhcp" THEN "static" ELSE "dhcp"]
  \/ what = "ipv6" /\ copy = [edit EXCEPT !.v6 = ~@]
  \/ what \in {"ip", "prefix", "gateway"} /\ \E x \in Addrs : copy = [edit EXCEPT !.addr = x]

NetChoice ==
  /\ In("network_settings")
  /\ \/ /\ CloseSettings
        /\ SettingsEscape \/ (\E i \in 0..4 : NetDoes(edit, i) = "done" /\ SettingsDone("net"))
        /\ UNCHANGED <<linkVars, changes>>
     \/ \E i \in 0..4 :
          /\ \E copy \in NetEdits : NetEdit(NetDoes(edit, i), copy) /\ NextPass(copy, i, 1)
          /\ Change
          /\ UNCHANGED <<linkVars, settings, confirmed>>
     \/ \E i \in 0..4 :
          /\ NetDoes(edit, i) = "scan" /\ item' = i
          /\ Exchange("scan")
          /\ UNCHANGED <<nav, frames, edit, settings, confirmed, changes>>
  /\ UNCHANGED <<dashboardOk, listed, selected, initialized, netif, device>>

\* A network from the scan, with the PSK editor after it unless it is open.
ScanChoice ==
  /\ at = "scan"
  /\ \/ NextPass(edit, item, 2) /\ UNCHANGED changes
     \/ /\ Change
        /\ \E s \in Ssids :
             \/ NextPass([edit EXCEPT !.ssid = s], 2, 2)
             \/ \E t \in PskTexts : NextPass([edit EXCEPT !.ssid = s, !.psk = t], 3, 2)
  /\ UNCHANGED <<linkVars, dataVars, device, confirmed>>

IpChoice ==
  /\ In("ip_settings")
  /\ \/ /\ CloseSettings
        /\ SettingsEscape \/ (\E i \in 0..5 : IpDoes(edit, i) = "done" /\ SettingsDone("ip"))
        /\ UNCHANGED changes
     \/ \E i \in 0..5 :
          /\ \E copy \in IpEdits : IpEdit(IpDoes(edit, i), copy) /\ NextPass(copy, i, 1)
          /\ Change
          /\ UNCHANGED <<settings, confirmed>>
  /\ UNCHANGED <<linkVars, dashboardOk, listed, selected, initialized, netif, device>>

UserSteps == \/ DashboardKey \/ RootChoice \/ InterfacesChoice \/ InterfaceChoice
             \/ DetailClosed \/ NetChoice \/ ScanChoice \/ IpChoice

Next == ExchangeSteps \/ LoopSteps \/ UserSteps

Spec == Init /\ [][Next]_vars

\* The program runs by itself between two keys, and the ROM's transfers over the
\* cable return with a status, if only a timeout.
FairSpec == Spec /\ WF_vars(ExchangeSteps \/ LoopSteps)

-----------------------------------------------------------------------------
(* Properties *)

TypeOK ==
  /\ nav \in Screens /\ at \in Stations
  /\ frames \in 0..ScreenStackMax /\ item \in 0..5
  /\ edit \in NetEdits \cup IpEdits \cup {NoEdit}
  /\ request \in Requests \cup {"none"} /\ retries \in 0..SyncRetries
  /\ taken \in Nat
  /\ dashboardOk \in BOOLEAN /\ listed \subseteq Interfaces /\ selected \in Interfaces
  /\ initialized \in BOOLEAN
  /\ netif \in [iface : Interfaces, config : Configs]
  /\ settings \in [net : NetEdits, ip : IpEdits]
  /\ device \in [Interfaces -> Configs]
  /\ confirmed \in [net : NetEdits \cup {NoEdit}, ip : IpEdits \cup {NoEdit}]
  /\ changes \in 0..MaxChanges

\* Settings are shown, edited or being sent.
InterfaceScreens == {"interface_menu", "detail", "network_settings", "ip_settings"}
SettingsInUse == \/ at \in {"menu", "scan"} /\ nav \in InterfaceScreens
                 \/ request \in {"set", "scan"}

\* Whenever settings are in use, they were made from the report of the very
\* interface that is selected: gui_iface.c keeps them while
\* interface_menu_initialized is set, and every way back to the list resets it.
SettingsOfSelected == SettingsInUse => netif.iface = selected

\* gui_iface.c:37 and the comments on the edit copies: what Done confirmed on
\* either screen stays through visits to sub-screens, Applies that fail and
\* memory running out, and nothing else ever gets into the settings.
Kept(part) ==
  settings[part] = IF confirmed[part] = NoEdit THEN Defaults(netif.config)[part]
                                               ELSE confirmed[part]
ConfirmedEditsKept == SettingsInUse => Kept("net") /\ Kept("ip")

\* No screen is left on the stack and no edit copy on the heap when a screen's
\* function returns to main, by whichever way; and the stack has room for the
\* deepest nesting.
ScreensBalanced ==
  /\ frames = IF at = "scan" THEN 2
              ELSE IF (at = "menu" /\ nav # "dashboard") \/ request = "scan" THEN 1 ELSE 0
  /\ (edit # NoEdit) <=> \/ at = "menu" /\ nav \in {"network_settings", "ip_settings"}
                         \/ at = "scan" \/ request = "scan"

\* The entries of the settings menus come and go with the settings; each
\* position still does what the entry shown there says, and the highlighted
\* position exists.
MenuDoesWhatItSays ==
  /\ In("network_settings") =>
       /\ item < Len(NetEntries(edit))
       /\ \A i \in 1..Len(NetEntries(edit)) : NetDoes(edit, i - 1) = NetEntries(edit)[i]
  /\ In("ip_settings") =>
       /\ item < Len(IpEntries(edit))
       /\ \A i \in 1..Len(IpEntries(edit)) : IpDoes(edit, i - 1) = IpEntries(edit)[i]

\* The device gets a request of one exchange at most once, although the
\* exchange retries: only a sync nobody answered is tried again.
SentOnce == taken <= 1

\* Why the above hold: which request is made where, and that the settings are
\* there, of the selected interface and as confirmed, from their making to the
\* return to the list.
RequestWhere ==
  /\ request # "none" <=> at \in {"send", "receive"}
  /\ request \in {"hello", "dashboard"} => nav = "dashboard"
  /\ request = "netifs" => nav = "interfaces"
  /\ request \in {"netif", "set"} => nav = "interface_menu"
  /\ request = "scan" \/ at = "scan" => nav = "network_settings"
  /\ at = "send" => taken = 0

SettingsWhere ==
  /\ SettingsInUse \/ nav \in InterfaceScreens \ {"interface_menu"} => initialized
  /\ request = "netif" => ~initialized
  /\ initialized => /\ nav \in InterfaceScreens /\ netif.iface = selected
                    /\ Kept("net") /\ Kept("ip")
  /\ ~initialized => confirmed = Undecided

EditWhere ==
  /\ edit # NoEdit /\ nav = "network_settings" =>
       edit \in NetEdits /\ item < Len(NetEntries(edit))
  /\ edit # NoEdit /\ nav = "ip_settings" =>
       edit \in IpEdits /\ item < Len(IpEntries(edit))
  /\ request = "scan" \/ at = "scan" => edit.enabled

PftcInv == /\ TypeOK /\ RequestWhere /\ SettingsWhere /\ EditWhere
           /\ ScreensBalanced /\ MenuDoesWhatItSays /\ SentOnce

\* The program always comes back to the user: retries run out, and of the ways
\* out of a screen on an error none leads round in a circle.
ComesBackToUser == at \notin UserStations ~> at \in UserStations

\* gui.c:342: the defaults are for "fields not yet supplied by GET_NETIF", so
\* an Apply sends the addressing mode as reported unless the user changed it.
UneditedSettingsAreReported ==
  request = "set" /\ confirmed.ip = NoEdit =>
    settings.ip.mode = netif.config.mode /\ settings.ip.v6 = netif.config.v6

=============================================================================

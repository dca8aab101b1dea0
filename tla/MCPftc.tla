------------------------------- MODULE MCPftc -------------------------------
(***************************************************************************)
(* PFTC's two halves, side by side.  The client starts and shows what it   *)
(* was told; from the first wait for a key on, a behaviour goes on with    *)
(* the screens (Pftc) or with the texts in their editors (PftcFields).     *)
(***************************************************************************)
EXTENDS Pftc, PftcFields, TLC

\* Two interfaces, one of them a WiFi client with a static address.
CONSTANTS wlan, eth, home, key, here, there

BothReported ==
  wlan :> [enabled |-> TRUE, ssid |-> home, mode |-> "static", addr |-> here, v6 |-> TRUE]
  @@ eth :> [enabled |-> FALSE, ssid |-> NoText, mode |-> "dhcp", addr |-> there, v6 |-> FALSE]

\* Octets at their limits in every place, and one odd octet in each place; one to
\* five octets; something after the last.
Join(parts) == FoldLeft(LAMBDA text, part : text \o <<Dot>> \o part, Head(parts), Tail(parts))
Limits == {<<0>>, <<2, 5, 5>>, <<2, 5, 6>>}
Odd == {<<>>, <<0, 0, 9>>, <<0, 0, 0, 1>>, <<1, 11>>, <<9, 9, 9>>}
Ones == [i \in 1..5 |-> <<1>>]
AddressTexts ==
  {Join(parts) : parts \in Limits \X Limits \X Limits \X Limits}
  \cup {Join([SubSeq(Ones, 1, 4) EXCEPT ![i] = odd]) : i \in 1..4, odd \in Odd}
  \cup {Join(SubSeq(Ones, 1, n)) : n \in 1..5}
  \cup {Join(SubSeq(Ones, 1, 4)) \o <<c>> : c \in {Dot, 11}}
PrefixTexts == {<<a, b>> : a \in {0, 3, 9, 11}, b \in 0..11} \cup {<<a>> : a \in 0..11} \cup {<<>>}

Text(n, c) == [i \in 1..n |-> c]
AllTyped ==
  [ssid |-> {Text(n, 12) : n \in {0, 1, 32}}, psk |-> {Text(n, 13) : n \in {0, 7, 8, 63, 64}},
   ip |-> AddressTexts, prefix |-> PrefixTexts, gateway |-> AddressTexts]
SomeTyped ==
  [ssid |-> {Text(1, 12)}, psk |-> {Text(7, 13), Text(8, 13)},
   ip |-> {<<1>>, Join(SubSeq(Ones, 1, 4))}, prefix |-> {<<3, 3>>, <<3, 2>>},
   gateway |-> {<<1>>, Join(SubSeq(Ones, 1, 4))}]

Device == [enabled |-> 1, ssid |-> Text(8, 12), ip |-> <<192, 168, 1, 42>>, prefix |-> 24,
           gateway |-> <<10, 0, 255, 9>>]
AllReports == {Device, [Device EXCEPT !.enabled = 0, !.prefix = 0]}

-----------------------------------------------------------------------------
VARIABLE half   \* the one this behaviour goes on with

AtTexts == half = "texts" /\ at \in UserStations

MCInit ==
  /\ Init /\ FieldsInit /\ half \in {"screens", "texts"}
  /\ half = "screens" => form = FromReport(Device)

MCNext ==
  /\ half' = half
  /\ \/ ~AtTexts /\ Next /\ UNCHANGED fieldsVars
     \/ AtTexts /\ dashboardOk /\ FieldsNext /\ UNCHANGED vars

MCSpec == MCInit /\ [][MCNext]_<<vars, fieldsVars, half>> /\ WF_vars(ExchangeSteps \/ LoopSteps)

=============================================================================

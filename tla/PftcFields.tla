----------------------------- MODULE PftcFields -----------------------------
(***************************************************************************)
(* The texts PFTC's user edits and the bytes it makes of them: the texts a *)
(* report becomes, the editor that keeps an invalid text and asks again    *)
(* (gui.c over pofo_edit.c), the validators and parsers of valid.c on      *)
(* 16-bit registers, the SET_NETIF request, and the device that takes it   *)
(* apart (parse_set_netif of the mock server).  When the screens lead to   *)
(* an editor or to Apply is in Pftc.                                       *)
(*                                                                         *)
(* A text is a sequence of characters without its NUL: the digits are the  *)
(* numbers 0..9, and of the others only the dot is told apart.             *)
(***************************************************************************)
EXTENDS Integers, Sequences, SequencesExt, FiniteSets, FiniteSetsExt

CONSTANTS
  Typed,          \* Fields -> texts a user may enter
  Retyped,        \* bound: those among them entered after one that was refused
  DeviceReports,  \* what a device may report
  MaxEdits        \* bound: visits to an editor

Digit == 0..9
Dot == 10
Fields == {"ssid", "psk", "ip", "prefix", "gateway"}

\* The sizes of the editors' texts, and of what is built from them.
MaxChars == [ssid |-> 32, psk |-> 64, ip |-> 15, prefix |-> 2, gateway |-> 15]
RequestSize == 112
NetMenuSize == 64 * 3 + 32
IpMenuSize == 64 * 5 + 32

ASSUME FieldsAssumption ==
  /\ Typed \in [Fields -> SUBSET Seq(Nat)] /\ MaxEdits \in Nat
  /\ Retyped \in [Fields -> SUBSET Seq(Nat)] /\ \A f \in Fields : Retyped[f] \subseteq Typed[f]
  /\ \A r \in DeviceReports :
       /\ r.enabled \in {0, 1} /\ r.ssid \in Seq(Nat) /\ Len(r.ssid) <= 32
       /\ r.ip \in [1..4 -> 0..255] /\ r.prefix \in 0..32 /\ r.gateway \in [1..4 -> 0..255]

VARIABLES
  form,         \* interface_settings, or the copy a screen edits
  stage,        \* menu, editor or applied
  field,        \* the one in the editor
  backup,       \* edit_backup
  setRequest,   \* set_netif_request
  edits

fieldsVars == <<form, stage, field, backup, setRequest, edits>>

-----------------------------------------------------------------------------
(* valid.c *)

Word(n) == n % 65536
Ten(value, c) == Word(value * 10 + c)

\* is_valid_ipv4 between two characters: the octet so far, its digits, and the
\* octets before it; octets = -1 after .ipv4_fail.
Failed == [value |-> 0, digits |-> 0, octets |-> -1]
OctetOk(s) == s.digits > 0 /\ s.value <= 255
Ipv4Char(s, c) ==
  CASE s.octets >= 0 /\ c \in Digit /\ s.digits < 3 ->
         [s EXCEPT !.value = Ten(@, c), !.digits = @ + 1]
    [] s.octets \in 0..2 /\ c = Dot /\ OctetOk(s) ->
         [value |-> 0, digits |-> 0, octets |-> s.octets + 1]
    [] OTHER -> Failed
\* Mutant: the range of the last octet is not looked at.
IsValidIpv4Wide(text) ==
  LET s == FoldLeft(Ipv4Char, [value |-> 0, digits |-> 0, octets |-> 0], text)
  IN  s.octets = 3 /\ s.digits > 0
IsValidIpv4(text) ==
  LET s == FoldLeft(Ipv4Char, [value |-> 0, digits |-> 0, octets |-> 0], text)
  IN  s.octets = 3 /\ OctetOk(s)

\* The decimal number up to the first character that is not a digit.
Leading(text) == SelectInSeq(text, LAMBDA c : c \notin Digit)
DigitsOf(text) == IF Leading(text) = 0 THEN text ELSE SubSeq(text, 1, Leading(text) - 1)
NumberOf(text) == FoldLeft(Ten, 0, DigitsOf(text))

IsValidPrefix(text) ==
  Len(DigitsOf(text)) > 0 /\ DigitsOf(text) = text /\ NumberOf(text) <= 32

ParsePrefix(text) == NumberOf(text) % 256

\* Four octets, one character skipped after each; nothing is looked at.
\* Mutant: the dot is not skipped.
After(text) == SubSeq(text, Len(DigitsOf(text)) + 2, Len(text))
ParseIpv4NoSkip(text) ==
  LET rest[i \in 0..3] ==
        IF i = 0 THEN text ELSE SubSeq(rest[i - 1], Len(DigitsOf(rest[i - 1])) + 1, Len(rest[i - 1]))
  IN  [i \in 1..4 |-> NumberOf(rest[i - 1]) % 256]
ParseIpv4(text) ==
  LET rest[i \in 0..3] == IF i = 0 THEN text ELSE After(rest[i - 1])
  IN  [i \in 1..4 |-> NumberOf(rest[i - 1]) % 256]

-----------------------------------------------------------------------------
(* gui.c and gui_iface.c *)

\* sprintf of %u and of %u.%u.%u.%u.
Decimal(n) == (IF n > 99 THEN <<n \div 100>> ELSE <<>>)
              \o (IF n > 9 THEN <<(n \div 10) % 10>> ELSE <<>>) \o <<n % 10>>
Dotted(b) == Decimal(b[1]) \o <<Dot>> \o Decimal(b[2]) \o <<Dot>>
             \o Decimal(b[3]) \o <<Dot>> \o Decimal(b[4])

\* init_interface_settings
FromReport(r) ==
  [enabled |-> r.enabled, ssid |-> r.ssid, psk |-> <<>>, mode |-> 0,
   ip |-> Dotted(r.ip), prefix |-> Decimal(r.prefix), gateway |-> Dotted(r.gateway), v6 |-> 0]

\* Mutant: 64 characters, the size of the editor's text.
IsValidPskOff(text) == Len(text) = 0 \/ Len(text) \in 8..64
IsValidPsk(text) == Len(text) = 0 \/ Len(text) \in 8..63

Validator(f, text) == CASE f \in {"ip", "gateway"} -> IsValidIpv4(text)
                        [] f = "prefix" -> IsValidPrefix(text)
                        [] f = "psk" -> IsValidPsk(text)
                        [] f = "ssid" -> TRUE

\* apply_netif_settings: the interface and its type are 0 and 1.
Opcode == 4
Addresses(s) == IF s.mode = 1 THEN ParseIpv4(s.ip) \o <<ParsePrefix(s.prefix)>> \o ParseIpv4(s.gateway)
                ELSE [i \in 1..9 |-> 0]
Request(s) == <<Opcode, 0, 1, s.enabled, s.mode>> \o Addresses(s) \o <<s.v6>>
              \o <<Len(s.ssid)>> \o s.ssid \o <<Len(s.psk)>> \o s.psk

\* parse_set_netif of the request after its opcode; <<>> if malformed.
From(body, first, n) == SubSeq(body, first, first + n - 1)
ParseSetNetif(body) ==
  LET ssidLen == body[15]  pskAt == 16 + ssidLen  pskLen == body[pskAt] IN
  IF Len(body) < 15 \/ Len(body) < pskAt \/ Len(body) # pskAt + pskLen THEN <<>>
  ELSE <<[enabled |-> body[3], mode |-> body[4], ip |-> From(body, 5, 4), prefix |-> body[9],
          gateway |-> From(body, 10, 4), v6 |-> body[14],
          ssid |-> From(body, 16, ssidLen), psk |-> From(body, pskAt + 1, pskLen)]>>

\* build_network_settings_text, build_ip_settings_text: the bytes of the titles,
\* the entries and their NULs.
NetMenuBytes(s) == 17 + 12 + s.enabled + 5 * s.enabled
                   + (IF s.enabled = 1 THEN 7 + Len(s.ssid) + 6 + Len(s.psk) ELSE 0) + 6
IpMenuBytes(s) == 12 + (IF s.mode = 1 THEN 13 + 5 + Len(s.ip) + 9 + Len(s.prefix) + 10 + Len(s.gateway)
                        ELSE 11) + 9 + s.v6 + 6

-----------------------------------------------------------------------------
FieldsInit ==
  /\ \E r \in DeviceReports : form = FromReport(r)
  /\ stage = "menu" /\ field = "ssid" /\ backup = <<>> /\ setRequest = <<>> /\ edits = 0

\* The addresses are on the menu in static mode, the names while enabled.
Editable(f) == IF f \in {"ssid", "psk"} THEN form.enabled = 1 ELSE form.mode = 1

EditField ==
  /\ stage = "menu" /\ edits < MaxEdits /\ edits' = edits + 1
  /\ \E f \in Fields : Editable(f) /\ field' = f /\ backup' = form[f]
  /\ stage' = "editor" /\ UNCHANGED <<form, setRequest>>

\* pofo_line_edit returns Enter with a text no longer than asked for.
Entered == {text \in IF form[field] = backup THEN Typed[field] ELSE Retyped[field] :
              Len(text) <= MaxChars[field]}

Enter ==
  /\ stage = "editor"
  /\ \E text \in Entered :
       /\ form' = [form EXCEPT ![field] = text]
       /\ stage' = IF Validator(field, text) THEN "menu" ELSE "editor"
  /\ UNCHANGED <<field, backup, setRequest, edits>>

Escape ==
  /\ stage = "editor" /\ stage' = "menu"
  /\ form' = [form EXCEPT ![field] = backup]
  /\ UNCHANGED <<field, backup, setRequest, edits>>

Toggle ==
  /\ stage = "menu"
  /\ \E what \in {"enabled", "mode", "v6"} : form' = [form EXCEPT ![what] = 1 - @]
  /\ UNCHANGED <<stage, field, backup, setRequest, edits>>

Apply ==
  /\ stage = "menu" /\ stage' = "applied" /\ setRequest' = Request(form)
  /\ UNCHANGED <<form, field, backup, edits>>
Applied ==
  /\ stage = "applied" /\ stage' = "menu" /\ setRequest' = <<>>
  /\ UNCHANGED <<form, field, backup, edits>>

FieldsNext == EditField \/ Enter \/ Escape \/ Toggle \/ Apply \/ Applied

FieldsSpec == FieldsInit /\ [][FieldsNext]_fieldsVars

-----------------------------------------------------------------------------
(* Properties.  What a text means, by the places of its dots and digits.      *)

Dots(text) == {i \in 1..Len(text) : text[i] = Dot}
Octet(text, n) == {i \in 1..Len(text) \ Dots(text) : Cardinality(Dots(text) \cap 1..i) = n - 1}
Number(text, places) ==
  MapThenSumSet(LAMBDA i : text[i] * 10^Cardinality({j \in places : j > i}), places)
IsNumber(text, places, digits, max) ==
  /\ Cardinality(places) \in 1..digits /\ \A i \in places : text[i] \in Digit
  /\ Number(text, places) <= max

Proper(f, text) ==
  CASE f \in {"ip", "gateway"} ->
         Cardinality(Dots(text)) = 3 /\ \A n \in 1..4 : IsNumber(text, Octet(text, n), 3, 255)
    [] f = "prefix" -> IsNumber(text, 1..Len(text), 2, 32)
    [] f = "psk" -> Len(text) = 0 \/ Len(text) \in 8..63
    [] f = "ssid" -> Len(text) <= 32

\* valid.h: every text that gets out of an editor, by Enter or by ESC, is four
\* numbers up to 255 with dots between them, a number up to 32, a passphrase;
\* and the editor holds on to no text that is.
OnlyProperTexts ==
  /\ \A f \in Fields \ {field} : Proper(f, form[f])
  /\ Proper(field, form[field]) <=> stage # "editor" \/ form[field] = backup

\* valid.c:113-118 parses without looking: the device reads from the request the
\* numbers and the texts the user saw, whatever their lengths.
Quad(text) == [n \in 1..4 |-> Number(text, Octet(text, n))]
Zero == [i \in 1..4 |-> 0]
Shown == LET static == form.mode = 1 IN
  [enabled |-> form.enabled, mode |-> form.mode, v6 |-> form.v6,
   ip |-> IF static THEN Quad(form.ip) ELSE Zero,
   prefix |-> IF static THEN Number(form.prefix, 1..Len(form.prefix)) ELSE 0,
   gateway |-> IF static THEN Quad(form.gateway) ELSE Zero,
   ssid |-> form.ssid, psk |-> form.psk]
RequestSaysWhatIsShown ==
  stage = "applied" => ParseSetNetif(Tail(setRequest)) = <<Shown>>

\* pftc_proto.h:80-83 adds up to 112 with 64 characters of PSK, which would be
\* 113: the request and the menus fit because of what the validators refuse.
TextsFit ==
  /\ Len(setRequest) <= RequestSize
  /\ stage = "menu" => NetMenuBytes(form) <= NetMenuSize /\ IpMenuBytes(form) <= IpMenuSize

=============================================================================

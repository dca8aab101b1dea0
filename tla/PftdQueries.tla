----------------------------- MODULE PftdQueries -----------------------------
(***************************************************************************)
(* The commands of the driver that read the directory, the drive and the   *)
(* clock, or set the clock: LIST (0x86, list.inc), DRIVES (0x87,           *)
(* drives.inc), GETDATETIME (0x8D) and SETDATETIME (0x8E, datetime.inc).   *)
(*                                                                         *)
(* One action per int 0x21 call with what the code does on its result; the *)
(* clock goes on between any two of them.  A listing is the bytes it takes *)
(* in list_response and its count, not the entries themselves.             *)
(***************************************************************************)
EXTENDS Integers

CONSTANTS
  NameLens,     \* lengths of the names DOS may find, their NUL included
  Word,         \* number of values of a 16-bit register in the space arithmetic
  Geometries,   \* what Get Disk Free Space may return for a drive that exists
  DateWords, TimeWords,   \* packed dates and times a client may ask to set
  Dates, Times, \* what the clock may show when it goes on by itself
  FaultyCalls   \* the calls a media fault (int 0x24) may hit

Calls == {"find", "set_date", "set_time"}
Words == 0..65535
Registers == 0..Word - 1
AnyDate == [year : 1980..2107, month : 0..15, day : 0..31]
AnyTime == [hour : 0..31, minute : 0..63, second : 0..62]

ASSUME QueriesAssumption ==
  /\ NameLens \subseteq 2..13
  /\ Word \in Nat \ {0}
  /\ Geometries \subseteq [spc : Registers, bps : Registers, free : Registers, total : Registers]
  /\ DateWords \subseteq Words /\ TimeWords \subseteq Words
  /\ Dates \subseteq AnyDate /\ Times \subseteq AnyTime
  /\ FaultyCalls \subseteq Calls

ListBufSize == 2048     \* LIST_BUFSIZE
Trailer == 8            \* free and total bytes, after the last entry

Ok  == 32               \* status byte 0x20
Err == 16               \* status byte 0x10

VARIABLES
  pc,           \* the call the handler is at; "idle" between two commands
  cmd,          \* the command being served, or served last
  used,         \* di - list_response
  count,        \* cx of the walk: entries so far
  space,        \* list_free_bytes and list_total_bytes
  geom,         \* history: what Get Disk Free Space said of the drive
  critical,     \* critical_error_flag
  asked,        \* the packed date and time of a SETDATETIME
  packed,       \* datetime_response of a GETDATETIME
  status, errcode,  \* datetime_response of a SETDATETIME
  clock,        \* the date and time DOS keeps
  ticked,       \* history: the clock went on by itself since Set Time
  midnight,     \* history: a day went by since Set Date
  hit           \* history: int 0x24 fired during this command

listVars == <<used, count, space, geom>>
dateVars == <<asked, packed, status, errcode>>
clockVars == <<clock, ticked, midnight>>
vars == <<pc, cmd, listVars, critical, dateVars, clockVars, hit>>

Commands == {"list", "drives", "get", "set"}
FirstCall == [list |-> "find_first", drives |-> "drives", get |-> "get_date", set |-> "set_date"]
Labels == {"idle", "find_first", "entry", "space", "drives", "get_date", "get_time",
           "set_date", "set_time", "respond"}

Nowhere == [spc |-> 0, bps |-> 0, free |-> 0, total |-> 0]
NoSpace == [free |-> 0, total |-> 0]
NoWords == [date |-> 0, time |-> 0]

-----------------------------------------------------------------------------
(* Packed dates and times *)

PackDate(d) == (d.year - 1980) * 512 + d.month * 32 + d.day
\* Mutant: seconds are not halved.
PackTimeWhole(t) == t.hour * 2048 + t.minute * 32 + t.second
PackTime(t) == t.hour * 2048 + t.minute * 32 + (t.second \div 2)

\* Mutant: the year is a bit out of place.
UnpackDateOff(w) == [year |-> 1980 + (w \div 1024), month |-> (w \div 32) % 16, day |-> w % 32]
UnpackDate(w) == [year |-> 1980 + (w \div 512), month |-> (w \div 32) % 16, day |-> w % 32]
UnpackTime(w) == [hour |-> w \div 2048, minute |-> (w \div 32) % 64, second |-> 2 * (w % 32)]

\* What DOS takes: a day of the calendar up to 2099 (leap days apart), a time of
\* the day.
LongMonths == {1, 3, 5, 7, 8, 10, 12}
ValidDate(d) ==
  /\ d.year <= 2099 /\ d.month \in 1..12 /\ d.day >= 1
  /\ d.month = 2 => d.day <= 29
  /\ d.month \notin LongMonths => d.day <= 30
ValidTime(t) == t.hour <= 23 /\ t.minute <= 59 /\ t.second <= 59

-----------------------------------------------------------------------------
(* The arithmetic of the drive's space, on 16-bit registers *)

\* Bytes per cluster (32 bits, the product of two registers) times a number of
\* clusters: each half is multiplied, what is left of the low product goes to
\* the high word, and the high word's carry is dropped.
\* Mutant: the high half of the low product is forgotten.
TimesClustersNoCarry(bytes, clusters) ==
  LET low == (bytes % Word) * clusters
      high == (bytes \div Word) * clusters
  IN (low % Word) + Word * (high % Word)
TimesClusters(bytes, clusters) ==
  LET low == (bytes % Word) * clusters
      high == (bytes \div Word) * clusters
  IN (low % Word) + Word * (((low \div Word) + high) % Word)

SpaceOf(g) ==
  [free |-> TimesClusters(g.spc * g.bps, g.free), total |-> TimesClusters(g.spc * g.bps, g.total)]

-----------------------------------------------------------------------------
(* The handlers *)

Goto(label) == pc' = label

Init ==
  /\ pc = "idle" /\ cmd = "drives"
  /\ used = 2 /\ count = 0 /\ space = NoSpace /\ geom = Nowhere
  /\ critical \in BOOLEAN /\ hit = FALSE
  /\ asked = NoWords /\ packed = NoWords
  /\ status = Ok /\ errcode = 0
  /\ clock \in [date : Dates, time : Times] /\ ticked = FALSE /\ midnight = FALSE

\* The hook hands over a block whose first byte is one of the four codes.
Request(c) ==
  /\ pc = "idle"
  /\ Goto(FirstCall[c]) /\ cmd' = c /\ hit' = FALSE
  /\ \/ c = "set" /\ asked' \in [date : DateWords, time : TimeWords]
     \/ c # "set" /\ UNCHANGED asked
  /\ ticked' = FALSE /\ midnight' = FALSE
  /\ UNCHANGED <<listVars, critical, packed, status, errcode, clock>>

\* A call that may meet a fault, with the flag `before` it.
Int21(call, before, fault) ==
  /\ fault => call \in FaultyCalls
  /\ critical' = (before \/ fault)
  /\ hit' = (hit \/ fault)

\* Find First or Find Next, whose carry flag alone is looked at: an entry, maybe
\* an old one in the DTA, or the end.
Search ==
  /\ \E fault \in BOOLEAN : Int21("find", critical, fault)
  /\ \E found \in BOOLEAN : Goto(IF found THEN "entry" ELSE "space")

FindFirst ==
  /\ pc = "find_first"
  /\ Search
  /\ used' = 2 /\ count' = 0
  /\ UNCHANGED <<cmd, space, geom, dateVars, clockVars>>

\* Mutant: room for the entry only, not for the space after it.
HasRoomForEntry(n) == n <= ListBufSize - 22
HasRoom(n) == n < ListBufSize - 32

\* Attribute, size, date, time and name.
AfterEntry(n, name) == n + 9 + name

\* Mutant: an entry that does not fit is skipped, and the walk goes on.
WhenFullSkip == "entry"
WhenFull == "space"

Entry ==
  /\ pc = "entry"
  /\ \/ /\ ~HasRoom(used)
        /\ Goto(WhenFull) /\ UNCHANGED <<used, count, critical, hit>>
     \/ /\ HasRoom(used)
        /\ \E name \in NameLens : used' = AfterEntry(used, name)
        /\ count' = count + 1
        /\ Search
  /\ UNCHANGED <<cmd, space, geom, dateVars, clockVars>>

\* Get Disk Free Space, of a drive that exists or not.
GetSpace ==
  /\ pc = "space"
  /\ \/ \E g \in Geometries : geom' = g /\ space' = SpaceOf(g)
     \/ geom' = Nowhere /\ space' = NoSpace
  /\ Goto("respond")
  /\ UNCHANGED <<cmd, used, count, critical, dateVars, clockVars, hit>>

\* Get and Select Default Drive, for the number the latter returns.
Drives ==
  /\ pc = "drives"
  /\ Goto("respond")
  /\ UNCHANGED <<cmd, listVars, critical, dateVars, clockVars, hit>>

GetDate ==
  /\ pc = "get_date"
  /\ packed' = [packed EXCEPT !.date = PackDate(clock.date)]
  /\ Goto("get_time")
  /\ UNCHANGED <<cmd, listVars, critical, asked, status, errcode, clockVars, hit>>

GetTime ==
  /\ pc = "get_time"
  /\ packed' = [packed EXCEPT !.time = PackTime(clock.time)]
  /\ Goto("respond")
  /\ UNCHANGED <<cmd, listVars, critical, asked, status, errcode, clockVars, hit>>

\* Mutant: the flag is not cleared before the calls.
FlagKept == critical
ClearedFlag == FALSE

\* The answer of Set Date and Set Time: the flag first, then AL.
Refused(code) == status' = Err /\ errcode' = code /\ Goto("respond")

SetDate ==
  /\ pc = "set_date"
  /\ \E fault \in BOOLEAN, taken \in BOOLEAN :
       /\ Int21("set_date", ClearedFlag, fault)
       /\ fault \/ (taken <=> ValidDate(UnpackDate(asked.date)))
       /\ taken => ValidDate(UnpackDate(asked.date))
       /\ clock' = IF taken THEN [clock EXCEPT !.date = UnpackDate(asked.date)] ELSE clock
       /\ \/ critical' /\ Refused(255)
          \/ ~critical' /\ ~taken /\ Refused(4)
          \/ ~critical' /\ taken /\ Goto("set_time") /\ UNCHANGED <<status, errcode>>
  /\ midnight' = FALSE /\ UNCHANGED ticked
  /\ UNCHANGED <<cmd, listVars, asked, packed>>

SetTime ==
  /\ pc = "set_time"
  /\ \E fault \in BOOLEAN, taken \in BOOLEAN :
       /\ Int21("set_time", ClearedFlag, fault)
       /\ fault \/ (taken <=> ValidTime(UnpackTime(asked.time)))
       /\ taken => ValidTime(UnpackTime(asked.time))
       /\ clock' = IF taken THEN [clock EXCEPT !.time = UnpackTime(asked.time)] ELSE clock
       /\ \/ critical' /\ Refused(255)
          \/ ~critical' /\ ~taken /\ Refused(4)
          \/ ~critical' /\ taken /\ status' = Ok /\ errcode' = 0 /\ Goto("respond")
  /\ ticked' = FALSE /\ UNCHANGED midnight
  /\ UNCHANGED <<cmd, listVars, asked, packed>>

\* The transmit; what the buffers hold is of no use any more, and is forgotten.
Respond ==
  /\ pc = "respond"
  /\ Goto("idle")
  /\ used' = 2 /\ count' = 0 /\ space' = NoSpace /\ geom' = Nowhere
  /\ asked' = NoWords /\ packed' = NoWords /\ status' = Ok /\ errcode' = 0
  /\ UNCHANGED <<cmd, critical, clockVars, hit>>

Handlers == FindFirst \/ Entry \/ GetSpace \/ Drives \/ GetDate \/ GetTime
            \/ SetDate \/ SetTime \/ Respond

\* The clock goes on, over midnight or not.  LIST and DRIVES never look at it.
Tick ==
  /\ cmd \in {"get", "set"}
  /\ clock' \in [date : Dates \cup {clock.date}, time : Times]
  /\ ticked' = TRUE
  /\ midnight' = (midnight \/ clock'.date # clock.date)
  /\ UNCHANGED <<pc, cmd, listVars, critical, dateVars, hit>>

Next == (\E c \in Commands : Request(c)) \/ Handlers \/ Tick

Spec == Init /\ [][Next]_vars

\* The handlers are straight-line code between DOS calls that return.
FairSpec == Spec /\ WF_vars(Handlers)

-----------------------------------------------------------------------------
(* Properties *)

TypeOK ==
  /\ pc \in Labels /\ cmd \in Commands
  /\ used \in Nat /\ count \in Nat
  /\ space \in [free : Nat, total : Nat]
  /\ geom \in Geometries \cup {Nowhere}
  /\ critical \in BOOLEAN /\ hit \in BOOLEAN
  /\ asked \in [date : Words, time : Words]
  /\ packed \in [date : Int, time : Int]
  /\ status \in {Ok, Err} /\ errcode \in {0, 4, 255}
  /\ clock \in [date : AnyDate, time : AnyTime]
  /\ ticked \in BOOLEAN /\ midnight \in BOOLEAN

\* LIST never writes beyond list_response, the eight bytes after the last entry
\* included, however many entries DOS finds and however long their names; and
\* a client that walks `count` entries ends at those eight bytes.
ListFits ==
  /\ used + Trailer <= ListBufSize
  /\ 2 + 11 * count <= used /\ used <= 2 + 22 * count

\* The space reported is the drive's whenever 32 bits can hold it
\* (list.inc:228-231), although no register holds more than 16.
SpaceExact ==
  LET bytes == geom.spc * geom.bps
  IN /\ bytes * geom.free < Word * Word => space.free = bytes * geom.free
     /\ bytes * geom.total < Word * Word => space.total = bytes * geom.total

\* A SETDATETIME is answered ok when both words were taken, and then the clock
\* reads back as what was asked, unless it has gone on since, over midnight
\* between the two calls in particular.  0xFF tells of a fault of this command,
\* 4 of a word that is out of range.
SetAnswersTruthfully ==
  pc = "respond" /\ cmd = "set" =>
    /\ (status = Ok /\ ~ticked /\ ~midnight) =>
         (PackDate(clock.date) = asked.date /\ PackTime(clock.time) = asked.time)
    /\ errcode = 255 => hit
    /\ errcode = 4 => (hit \/ ~ValidDate(UnpackDate(asked.date)) \/ ~ValidTime(UnpackTime(asked.time)))
    /\ (~hit /\ status = Err) => errcode = 4

\* What the answers rest on: the command the handler is in; the space still the
\* one of the drive asked about; between Set Date and Set Time, no fault, and a
\* date that was taken and is still the clock's unless a day went by.
LabelOfCommand ==
  /\ pc \in {"find_first", "entry", "space"} => cmd = "list"
  /\ pc = "drives" => cmd = "drives"
  /\ pc \in {"get_date", "get_time"} => cmd = "get"
  /\ pc \in {"set_date", "set_time"} => (cmd = "set" /\ ~hit)

DateTaken ==
  /\ ValidDate(UnpackDate(asked.date))
  /\ ~midnight => clock.date = UnpackDate(asked.date)
TimeTaken ==
  /\ ValidTime(UnpackTime(asked.time))
  /\ ~ticked => clock.time = UnpackTime(asked.time)

ClockSet ==
  /\ pc = "set_time" => DateTaken
  /\ (pc = "respond" /\ cmd = "set") =>
       /\ status = Ok => DateTaken /\ TimeTaken
       /\ errcode = 255 => hit
       /\ errcode = 4 => (~ValidDate(UnpackDate(asked.date)) \/ ~ValidTime(UnpackTime(asked.time)) \/ hit)
       /\ (~hit /\ status = Err) => errcode = 4

QueriesInv == TypeOK /\ ListFits /\ space = SpaceOf(geom) /\ LabelOfCommand /\ ClockSet

\* LIST, the one command with a loop, is answered: its walk ends even if DOS never says
\* that there is nothing more to find.
Answered == (pc = "find_first") ~> (pc = "respond")

=============================================================================

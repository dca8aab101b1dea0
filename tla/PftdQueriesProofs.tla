-------------------------- MODULE PftdQueriesProofs --------------------------
(***************************************************************************)
(* Theorems about LIST's buffer, the drive's space and the answer of       *)
(* SETDATETIME, for any names, drives, clock and words.                    *)
(***************************************************************************)
EXTENDS PftdQueries, TLAPS

\* Quotient and remainder, and products of naturals.
LEMMA Division ==
  ASSUME NEW n \in Nat, NEW d \in Nat \ {0}
  PROVE  /\ n \div d \in Nat /\ n % d \in 0..d - 1
         /\ n = d * (n \div d) + (n % d)
OBVIOUS

LEMMA Products ==
  ASSUME NEW m \in Nat, NEW n \in Nat
  PROVE  m * n \in Nat
OBVIOUS

\* Packed words are integers.
LEMMA PackedType ==
  ASSUME NEW d \in AnyDate, NEW t \in AnyTime
  PROVE  PackDate(d) \in Int /\ PackTime(t) \in Int
<1>1. d.year \in Nat /\ d.month \in Nat /\ d.day \in Nat
  BY DEF AnyDate
<1>2. t.hour \in Nat /\ t.minute \in Nat /\ t.second \in Nat
  BY DEF AnyTime
<1>3. t.second \div 2 \in Nat
  BY <1>2, Division
<1> QED
  BY <1>1, <1>2, <1>3 DEF PackDate, PackTime

\* A date word unpacked by SETDATETIME is packed again by GETDATETIME to the same
\* word, whatever its 16 bits (datetime.inc:53-68, 145-160).
LEMMA DateRoundTrip ==
  ASSUME NEW w \in Words
  PROVE  UnpackDate(w) \in AnyDate /\ PackDate(UnpackDate(w)) = w
<1> DEFINE day == w % 32
           v == w \div 32
           month == v % 16
           year == v \div 16
<1>1. w \in Nat /\ w < 65536
  BY DEF Words
<1>2. v \in Nat /\ day \in 0..31 /\ w = 32 * v + day
  BY <1>1, Division
<1>3. w \div 512 = year
  BY <1>1
<1>4. UnpackDate(w) = [year |-> 1980 + year, month |-> month, day |-> day]
  BY <1>3 DEF UnpackDate
<1> HIDE DEF v, day
<1>5. year \in Nat /\ month \in 0..15 /\ v = 16 * year + month
  BY <1>2, Division
<1> HIDE DEF month, year
<1>6. year \in 0..127
  BY <1>1, <1>2, <1>5
<1>7. UnpackDate(w) \in AnyDate
  BY <1>2, <1>4, <1>5, <1>6 DEF AnyDate
<1>8. PackDate(UnpackDate(w)) = ((1980 + year) - 1980) * 512 + month * 32 + day
  BY <1>4 DEF PackDate
<1> QED
  BY <1>2, <1>5, <1>7, <1>8

\* The same of a time word, whose seconds are even (datetime.inc:74-95, 170-189).
LEMMA TimeRoundTrip ==
  ASSUME NEW w \in Words
  PROVE  UnpackTime(w) \in AnyTime /\ PackTime(UnpackTime(w)) = w
<1> DEFINE half == w % 32
           v == w \div 32
           minute == v % 64
           hour == v \div 64
<1>1. w \in Nat /\ w < 65536
  BY DEF Words
<1>2. v \in Nat /\ half \in 0..31 /\ w = 32 * v + half
  BY <1>1, Division
<1>3. w \div 2048 = hour
  BY <1>1
<1>4. UnpackTime(w) = [hour |-> hour, minute |-> minute, second |-> 2 * half]
  BY <1>3 DEF UnpackTime
<1> HIDE DEF v, half
<1>5. hour \in Nat /\ minute \in 0..63 /\ v = 64 * hour + minute
  BY <1>2, Division
<1> HIDE DEF minute, hour
<1>6. hour \in 0..31
  BY <1>1, <1>2, <1>5
<1>7. UnpackTime(w) \in AnyTime
  BY <1>2, <1>4, <1>5, <1>6 DEF AnyTime
<1>8. PackTime(UnpackTime(w)) = hour * 2048 + minute * 32 + ((2 * half) \div 2)
  BY <1>4 DEF PackTime
<1>9. (2 * half) \div 2 = half
  BY <1>2
<1> QED
  BY <1>2, <1>5, <1>7, <1>8, <1>9

\* A product that two registers can hold is what the two multiplications and the
\* addition of the carry come to (list.inc:241-261).
LEMMA TimesClustersExact ==
  ASSUME NEW bytes \in Nat, NEW clusters \in Nat
  PROVE  /\ TimesClusters(bytes, clusters) \in Nat
         /\ bytes * clusters < Word * Word => TimesClusters(bytes, clusters) = bytes * clusters
<1> DEFINE h == bytes \div Word
           l == bytes % Word
           low == l * clusters
           high == h * clusters
           q == low \div Word
           r == low % Word
           k == q + high
<1>1. Word \in Nat \ {0}
  BY QueriesAssumption
<1>2. h \in Nat /\ l \in Nat /\ bytes = Word * h + l
  BY <1>1, Division
<1>3. TimesClusters(bytes, clusters) = r + Word * (k % Word)
  BY DEF TimesClusters
<1> HIDE DEF h, l
<1>4. low \in Nat /\ high \in Nat
  BY <1>2, Products
<1>5. bytes * clusters = Word * high + low
  BY <1>1, <1>2
<1> HIDE DEF low, high
<1>6. q \in Nat /\ r \in Nat /\ low = Word * q + r
  BY <1>1, <1>4, Division
<1> HIDE DEF q, r
<1>7. k \in Nat /\ bytes * clusters = Word * k + r
  BY <1>1, <1>4, <1>5, <1>6
<1> HIDE DEF k
<1>8. k % Word \in Nat
  BY <1>1, <1>7, Division
<1>9. TimesClusters(bytes, clusters) \in Nat
  BY <1>1, <1>3, <1>6, <1>8, Products
<1>10. ASSUME bytes * clusters < Word * Word
       PROVE  TimesClusters(bytes, clusters) = bytes * clusters
  <2>1. k < Word
    <3> SUFFICES ASSUME k >= Word PROVE FALSE
      BY <1>1, <1>7
    <3>1. Word * k >= Word * Word
      BY <1>1, <1>7
    <3> QED
      BY <3>1, <1>1, <1>6, <1>7, <1>10, Products
  <2>2. k % Word = k
    BY <2>1, <1>1, <1>7
  <2> QED
    BY <2>2, <1>1, <1>3, <1>6, <1>7, Products
<1> QED
  BY <1>9, <1>10

\* The space of a drive, if a client may trust it.
LEMMA SpaceOfExact ==
  ASSUME TypeOK, space = SpaceOf(geom)
  PROVE  SpaceExact
<1>1. geom.spc \in Nat /\ geom.bps \in Nat /\ geom.free \in Nat /\ geom.total \in Nat
  BY QueriesAssumption DEF TypeOK, Nowhere, Registers
<1>2. geom.spc * geom.bps \in Nat
  BY <1>1, Products
<1> QED
  BY <1>1, <1>2, TimesClustersExact DEF SpaceExact, SpaceOf

LEMMA SpaceOfType ==
  ASSUME NEW g \in Geometries \cup {Nowhere}
  PROVE  SpaceOf(g) \in [free : Nat, total : Nat]
<1>1. g.spc \in Nat /\ g.bps \in Nat /\ g.free \in Nat /\ g.total \in Nat
  BY QueriesAssumption DEF Nowhere, Registers
<1>2. g.spc * g.bps \in Nat
  BY <1>1, Products
<1> QED
  BY <1>1, <1>2, TimesClustersExact DEF SpaceOf

LEMMA SpaceOfNowhere == SpaceOf(Nowhere) = NoSpace
<1>1. 0 * 0 = 0 /\ 0 \in Nat /\ 0 < Word * Word
  BY QueriesAssumption
<1>2. TimesClusters(0, 0) = 0
  BY <1>1, TimesClustersExact
<1> QED
  BY <1>1, <1>2 DEF SpaceOf, Nowhere, NoSpace

-----------------------------------------------------------------------------
(* The invariant *)

\* The driver starts with an empty response and the clock DOS keeps.
LEMMA InitInv == Init => QueriesInv
<1> SUFFICES ASSUME Init PROVE QueriesInv
  OBVIOUS
<1>1. TypeOK
  <2>1. clock \in [date : AnyDate, time : AnyTime]
    BY QueriesAssumption DEF Init
  <2>2. asked \in [date : Words, time : Words] /\ packed \in [date : Int, time : Int]
        /\ space \in [free : Nat, total : Nat]
    BY DEF Init, NoWords, Words, NoSpace
  <2> QED
    BY <2>1, <2>2 DEF Init, TypeOK, Labels, Commands
<1>2. ListFits /\ LabelOfCommand /\ ClockSet /\ space = SpaceOf(geom)
  BY SpaceOfNowhere DEF Init, ListFits, LabelOfCommand, ClockSet, ListBufSize, Trailer
<1> QED
  BY <1>1, <1>2 DEF QueriesInv

\* The commands that write no answer of SETDATETIME (list.inc:141-287,
\* drives.inc:29-42, datetime.inc:49-100).
LEMMA ReadersInv ==
  ASSUME QueriesInv, FindFirst \/ Entry \/ GetSpace \/ Drives \/ GetDate \/ GetTime
  PROVE  QueriesInv'
<1> USE QueriesAssumption DEF QueriesInv, TypeOK, Goto, Labels, Commands, dateVars, clockVars, listVars
<1>1. CASE FindFirst \/ Entry
  <2>1. /\ UNCHANGED <<cmd, space, geom, asked, packed, status, errcode, clock, ticked, midnight>>
        /\ critical' \in BOOLEAN /\ hit' \in BOOLEAN
        /\ pc \in {"find_first", "entry"} /\ pc' \in {"entry", "space"}
    BY <1>1 DEF FindFirst, Entry, Search, Int21, WhenFull
  <2>2. used' \in Nat /\ count' \in Nat /\ ListFits'
    <3>1. CASE FindFirst
      BY <3>1 DEF FindFirst, ListFits, ListBufSize, Trailer
    <3>2. CASE Entry /\ ~HasRoom(used)
      BY <3>2 DEF Entry, ListFits, ListBufSize, Trailer
    <3>3. CASE Entry /\ HasRoom(used)
      <4>1. PICK name \in NameLens : used' = used + 9 + name
        BY <3>3 DEF Entry, AfterEntry
      <4>2. name \in 2..13 /\ count' = count + 1 /\ used < 2016
        BY <3>3 DEF Entry, HasRoom, ListBufSize
      <4> QED
        BY <4>1, <4>2 DEF ListFits, ListBufSize, Trailer
    <3> QED
      BY <1>1, <3>1, <3>2, <3>3
  <2> QED
    BY <2>1, <2>2 DEF LabelOfCommand, ClockSet
<1>2. CASE GetSpace
  <2>1. geom' \in Geometries \cup {Nowhere} /\ space' = SpaceOf(geom')
    BY <1>2, SpaceOfNowhere DEF GetSpace
  <2> QED
    BY <1>2, <2>1, SpaceOfType DEF GetSpace, ListFits, LabelOfCommand, ClockSet
<1>3. CASE Drives
  BY <1>3 DEF Drives, ListFits, LabelOfCommand, ClockSet
<1>4. CASE GetDate \/ GetTime
  <2>1. packed' \in [date : Int, time : Int]
    <3>1. PackDate(clock.date) \in Int /\ PackTime(clock.time) \in Int
      <4>1. clock.date \in AnyDate /\ clock.time \in AnyTime
        OBVIOUS
      <4> QED
        BY <4>1, PackedType
    <3> QED
      BY <1>4, <3>1 DEF GetDate, GetTime
  <2> QED
    BY <1>4, <2>1 DEF GetDate, GetTime, ListFits, LabelOfCommand, ClockSet
<1> QED
  BY <1>1, <1>2, <1>3, <1>4

\* Set Date and Set Time, whose flag says whether the call met a fault of its own
\* (datetime.inc:162-211).
LEMMA SettersInv ==
  ASSUME QueriesInv, SetDate \/ SetTime
  PROVE  QueriesInv'
<1>1. TypeOK /\ ListFits /\ space = SpaceOf(geom) /\ LabelOfCommand /\ ClockSet
  BY DEF QueriesInv
<1>2. UnpackDate(asked.date) \in AnyDate /\ UnpackTime(asked.time) \in AnyTime
  BY <1>1, DateRoundTrip, TimeRoundTrip DEF TypeOK
<1>3. CASE SetDate
  <2>1. /\ pc = "set_date" /\ midnight' = FALSE
        /\ UNCHANGED <<cmd, used, count, space, geom, asked, packed, ticked>>
    BY <1>3 DEF SetDate, listVars
  <2>2. PICK fault \in BOOLEAN, taken \in BOOLEAN :
          /\ critical' = (FALSE \/ fault) /\ hit' = (hit \/ fault)
          /\ fault \/ (taken <=> ValidDate(UnpackDate(asked.date)))
          /\ taken => ValidDate(UnpackDate(asked.date))
          /\ clock' = IF taken THEN [clock EXCEPT !.date = UnpackDate(asked.date)] ELSE clock
          /\ \/ critical' /\ status' = Err /\ errcode' = 255 /\ pc' = "respond"
             \/ ~critical' /\ ~taken /\ status' = Err /\ errcode' = 4 /\ pc' = "respond"
             \/ ~critical' /\ taken /\ pc' = "set_time" /\ UNCHANGED <<status, errcode>>
    BY <1>3 DEF SetDate, Int21, Refused, Goto, ClearedFlag
  <2>3. cmd = "set" /\ ~hit
    BY <2>1, <1>1 DEF LabelOfCommand
  <2>4. /\ pc' \in {"set_time", "respond"} /\ status' \in {Ok, Err} /\ errcode' \in {0, 4, 255}
        /\ (pc' = "set_time" => ~hit')
    BY <2>2, <2>3, <1>1 DEF TypeOK
  <2>5. critical' \in BOOLEAN /\ hit' \in BOOLEAN
    BY <2>2, Zenon
  <2>6. clock' \in [date : AnyDate, time : AnyTime]
    BY <2>2, <1>1, <1>2 DEF TypeOK
  <2>7. pc' \in Labels
    BY <2>4 DEF Labels
  <2>8. TypeOK'
    BY <2>1, <2>4, <2>5, <2>6, <2>7, <1>1 DEF TypeOK
  <2>9. LabelOfCommand'
    BY <2>1, <2>3, <2>4 DEF LabelOfCommand
  <2>10. ClockSet'
    BY <2>1, <2>2, <2>3, <1>1 DEF ClockSet, DateTaken, TimeTaken, TypeOK, Ok, Err
  <2> QED
    BY <2>1, <2>8, <2>9, <2>10, <1>1 DEF QueriesInv, ListFits
<1>4. CASE SetTime
  <2>1. /\ pc = "set_time" /\ ticked' = FALSE
        /\ UNCHANGED <<cmd, used, count, space, geom, asked, packed, midnight>>
    BY <1>4 DEF SetTime, listVars
  <2>2. PICK fault \in BOOLEAN, taken \in BOOLEAN :
          /\ critical' = (FALSE \/ fault) /\ hit' = (hit \/ fault)
          /\ fault \/ (taken <=> ValidTime(UnpackTime(asked.time)))
          /\ taken => ValidTime(UnpackTime(asked.time))
          /\ clock' = IF taken THEN [clock EXCEPT !.time = UnpackTime(asked.time)] ELSE clock
          /\ \/ critical' /\ status' = Err /\ errcode' = 255 /\ pc' = "respond"
             \/ ~critical' /\ ~taken /\ status' = Err /\ errcode' = 4 /\ pc' = "respond"
             \/ ~critical' /\ taken /\ status' = Ok /\ errcode' = 0 /\ pc' = "respond"
    BY <1>4 DEF SetTime, Int21, Refused, Goto, ClearedFlag
  <2>3. cmd = "set" /\ ~hit
    BY <2>1, <1>1 DEF LabelOfCommand
  <2>4. /\ pc' \in {"set_time", "respond"} /\ status' \in {Ok, Err} /\ errcode' \in {0, 4, 255}
        /\ pc' = "respond"
    BY <2>2
  <2>5. critical' \in BOOLEAN /\ hit' \in BOOLEAN
    BY <2>2, Zenon
  <2>6. clock' \in [date : AnyDate, time : AnyTime]
    BY <2>2, <1>1, <1>2 DEF TypeOK
  <2>7. pc' \in Labels
    BY <2>4 DEF Labels
  <2>8. TypeOK'
    BY <2>1, <2>4, <2>5, <2>6, <2>7, <1>1 DEF TypeOK
  <2>9. LabelOfCommand'
    BY <2>4 DEF LabelOfCommand
  <2>10. ClockSet'
    BY <2>1, <2>2, <2>3, <1>1 DEF ClockSet, DateTaken, TimeTaken, TypeOK, Ok, Err
  <2> QED
    BY <2>1, <2>8, <2>9, <2>10, <1>1 DEF QueriesInv, ListFits
<1> QED
  BY <1>3, <1>4

\* Every step keeps the invariant; the clock's own only makes it older.
LEMMA NextInv == QueriesInv /\ [Next]_vars => QueriesInv'
<1> SUFFICES ASSUME QueriesInv, [Next]_vars PROVE QueriesInv'
  OBVIOUS
<1> USE DEF listVars, dateVars, clockVars
<1>1. ASSUME NEW c \in Commands, Request(c) PROVE QueriesInv'
  <2>1. /\ UNCHANGED <<used, count, space, geom, critical, packed, status, errcode, clock>>
        /\ cmd' = c /\ pc' = FirstCall[c] /\ hit' = FALSE /\ ticked' = FALSE /\ midnight' = FALSE
    BY <1>1 DEF Request, Goto
  <2>2. asked' \in [date : Words, time : Words]
    BY <1>1, QueriesAssumption DEF Request, QueriesInv, TypeOK
  <2>3. /\ pc' \in {"find_first", "drives", "get_date", "set_date"} /\ cmd' \in Commands
        /\ pc' = "find_first" => cmd' = "list"
        /\ pc' = "drives" => cmd' = "drives"
        /\ pc' = "get_date" => cmd' = "get"
        /\ pc' = "set_date" => cmd' = "set"
    BY <2>1 DEF Commands, FirstCall
  <2>4. TypeOK'
    <3>1. pc' \in Labels /\ cmd' \in Commands
      BY <2>3 DEF Labels
    <3> QED
      BY <2>1, <2>2, <3>1 DEF QueriesInv, TypeOK
  <2>5. LabelOfCommand' /\ ClockSet' /\ ListFits' /\ space' = SpaceOf(geom')
    BY <2>1, <2>3 DEF QueriesInv, LabelOfCommand, ClockSet, ListFits
  <2> QED
    BY <2>4, <2>5 DEF QueriesInv
<1>2. CASE FindFirst \/ Entry \/ GetSpace \/ Drives \/ GetDate \/ GetTime
  BY <1>2, ReadersInv
<1>3. CASE SetDate \/ SetTime
  BY <1>3, SettersInv
<1>4. CASE Respond
  <2>1. /\ asked' \in [date : Words, time : Words] /\ packed' \in [date : Int, time : Int]
        /\ space' \in [free : Nat, total : Nat]
    BY <1>4 DEF Respond, NoWords, Words, NoSpace
  <2>2. TypeOK'
    BY <1>4, <2>1 DEF Respond, Goto, QueriesInv, TypeOK, Labels
  <2>3. ListFits' /\ LabelOfCommand' /\ ClockSet' /\ space' = SpaceOf(geom')
    BY <1>4, SpaceOfNowhere
       DEF Respond, Goto, QueriesInv, ListFits, LabelOfCommand, ClockSet, ListBufSize, Trailer
  <2> QED
    BY <2>2, <2>3 DEF QueriesInv
<1>5. CASE Tick
  <2>1. TypeOK'
    BY <1>5, QueriesAssumption DEF Tick, QueriesInv, TypeOK
  <2>2. ClockSet'
    BY <1>5 DEF Tick, QueriesInv, TypeOK, ClockSet, DateTaken, TimeTaken
  <2> QED
    BY <1>5, <2>1, <2>2 DEF Tick, QueriesInv, ListFits, LabelOfCommand
<1>6. CASE UNCHANGED vars
  BY <1>6 DEF vars, QueriesInv, TypeOK, ListFits, LabelOfCommand, ClockSet, DateTaken, TimeTaken
<1> QED
  BY <1>1, <1>2, <1>3, <1>4, <1>5, <1>6 DEF Next, Handlers

\* The inductive invariant of the directory, drive and clock commands.
THEOREM QueriesInvariant == Spec => []QueriesInv
BY InitInv, NextInv, PTL DEF Spec

\* LIST stays inside its 2048 bytes, the drive's space after the last entry
\* included, for any names of at most 12 characters (list.inc:160-165, 270-280).
THEOREM ListFitsHolds == Spec => []ListFits
<1>1. QueriesInv => ListFits
  BY DEF QueriesInv
<1> QED
  BY <1>1, QueriesInvariant, PTL

\* The space LIST reports is exact below the square of a register's values, for
\* any width of the registers and any drive (list.inc:217-268).
THEOREM SpaceExactHolds == Spec => []SpaceExact
<1>1. QueriesInv => SpaceExact
  BY SpaceOfExact DEF QueriesInv
<1> QED
  BY <1>1, QueriesInvariant, PTL

\* An ok of SETDATETIME means that GETDATETIME reads back what was set, and an
\* error is of this command, for any words, clock and faults (datetime.inc:145-217).
THEOREM SetAnswersTruthfullyHolds == Spec => []SetAnswersTruthfully
<1>1. QueriesInv => SetAnswersTruthfully
  <2> SUFFICES ASSUME QueriesInv, pc = "respond", cmd = "set" PROVE SetAnswersTruthfully
    BY DEF SetAnswersTruthfully
  <2>1. /\ PackDate(UnpackDate(asked.date)) = asked.date
        /\ PackTime(UnpackTime(asked.time)) = asked.time
    BY DateRoundTrip, TimeRoundTrip DEF QueriesInv, TypeOK
  <2> QED
    BY <2>1 DEF QueriesInv, ClockSet, DateTaken, TimeTaken, SetAnswersTruthfully
<1> QED
  BY <1>1, QueriesInvariant, PTL

=============================================================================

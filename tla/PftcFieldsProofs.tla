--------------------------- MODULE PftcFieldsProofs ---------------------------
(***************************************************************************)
(* Theorems about PFTC's texts: whatever the device reports within its     *)
(* protocol and whatever the user types, the request and the menus stay    *)
(* inside their buffers, only texts that mean something leave an editor,   *)
(* and the device reads from the request what the user saw.                *)
(*                                                                         *)
(* The loops of valid.c are folds and the properties sum over sets of      *)
(* places, so most of the module is about those: a fold is a table over    *)
(* the characters read (FoldExists), an octet the few digits between two   *)
(* dots (IsDecimal, Value), an address a text that three dots cut into     *)
(* four of them (IsAddress).  Induction is over sets of numbers, by their  *)
(* least element.                                                          *)
(***************************************************************************)
EXTENDS PftcFields, SequenceTheorems, FiniteSetTheorems, NaturalsInduction,
        WellFoundedInduction, TLAPS

-----------------------------------------------------------------------------
(* Lengths *)

LEMMA ConcatLength ==
  ASSUME NEW S, NEW s \in Seq(S), NEW t \in Seq(S)
  PROVE  s \o t \in Seq(S) /\ Len(s \o t) = Len(s) + Len(t)
BY ConcatProperties

LEMMA TupleLength ==
  ASSUME NEW S, NEW n \in Nat, NEW s \in [1..n -> S] PROVE s \in Seq(S) /\ Len(s) = n
BY LenProperties, SeqDef

\* %u of a byte takes three digits at most, of a prefix length two.
LEMMA DecimalLength ==
  ASSUME NEW n \in 0..255
  PROVE  /\ Decimal(n) \in Seq(Nat) /\ Len(Decimal(n)) <= 3
         /\ n <= 99 => Len(Decimal(n)) <= 2
<1> DEFINE a == IF n > 99 THEN <<n \div 100>> ELSE <<>>
           b == IF n > 9 THEN <<(n \div 10) % 10>> ELSE <<>>
           c == <<n % 10>>
<1>1. a \in Seq(Nat) /\ Len(a) <= 1 /\ Len(a) \in Nat /\ (n <= 99 => Len(a) = 0)
  <2>1. n \div 100 \in Nat
    OBVIOUS
  <2> QED
    BY <2>1
<1>2. b \in Seq(Nat) /\ Len(b) <= 1 /\ Len(b) \in Nat
  <2>1. (n \div 10) % 10 \in Nat
    OBVIOUS
  <2> QED
    BY <2>1
<1>3. c \in Seq(Nat) /\ Len(c) = 1
  <2>1. n % 10 \in Nat
    OBVIOUS
  <2> QED
    BY <2>1
<1>4. Decimal(n) = a \o b \o c
  BY DEF Decimal
<1> HIDE DEF a, b, c
<1>5. a \o b \in Seq(Nat) /\ Len(a \o b) = Len(a) + Len(b)
  BY <1>1, <1>2, ConcatLength
<1>6. Decimal(n) \in Seq(Nat) /\ Len(Decimal(n)) = Len(a \o b) + Len(c)
  BY <1>3, <1>4, <1>5, ConcatLength
<1> QED
  BY <1>1, <1>2, <1>3, <1>5, <1>6

\* Four of them with three dots fit an address editor (gui.c:354).
LEMMA DottedLength ==
  ASSUME NEW q \in [1..4 -> 0..255] PROVE Dotted(q) \in Seq(Nat) /\ Len(Dotted(q)) <= 15
<1> DEFINE D(i) == Decimal(q[i])
<1>1. \A i \in 1..4 : D(i) \in Seq(Nat) /\ Len(D(i)) <= 3 /\ Len(D(i)) \in Nat
  <2> SUFFICES ASSUME NEW i \in 1..4
               PROVE  D(i) \in Seq(Nat) /\ Len(D(i)) <= 3 /\ Len(D(i)) \in Nat
    OBVIOUS
  <2>1. q[i] \in 0..255
    OBVIOUS
  <2>2. D(i) \in Seq(Nat) /\ Len(D(i)) <= 3
    BY <2>1, DecimalLength
  <2> QED
    BY <2>2
<1> DEFINE d1 == D(1)
           d2 == D(2)
           d3 == D(3)
           d4 == D(4)
           dot == <<Dot>>
<1>2. dot \in Seq(Nat) /\ Len(dot) = 1
  BY DEF Dot
<1>3. /\ d1 \in Seq(Nat) /\ d2 \in Seq(Nat) /\ d3 \in Seq(Nat) /\ d4 \in Seq(Nat)
      /\ Len(d1) + Len(d2) + Len(d3) + Len(d4) <= 12
  BY <1>1
<1>4. Dotted(q) = d1 \o dot \o d2 \o dot \o d3 \o dot \o d4
  BY DEF Dotted
<1> HIDE DEF D, d1, d2, d3, d4, dot
<1> DEFINE e1 == d1 \o dot
           e2 == e1 \o d2
           e3 == e2 \o dot
           e4 == e3 \o d3
           e5 == e4 \o dot
<1>5. e1 \in Seq(Nat) /\ Len(e1) = Len(d1) + Len(dot)
  BY <1>2, <1>3, ConcatLength
<1> HIDE DEF e1
<1>6. e2 \in Seq(Nat) /\ Len(e2) = Len(e1) + Len(d2)
  BY <1>5, <1>3, ConcatLength
<1> HIDE DEF e2
<1>7. e3 \in Seq(Nat) /\ Len(e3) = Len(e2) + Len(dot)
  BY <1>2, <1>6, ConcatLength
<1> HIDE DEF e3
<1>8. e4 \in Seq(Nat) /\ Len(e4) = Len(e3) + Len(d3)
  BY <1>7, <1>3, ConcatLength
<1> HIDE DEF e4
<1>9. e5 \in Seq(Nat) /\ Len(e5) = Len(e4) + Len(dot)
  BY <1>2, <1>8, ConcatLength
<1>10. Dotted(q) = e5 \o d4
  BY <1>4 DEF e1, e2, e3, e4
<1> HIDE DEF e5
<1>11. Dotted(q) \in Seq(Nat) /\ Len(Dotted(q)) = Len(e5) + Len(d4)
  BY <1>9, <1>10, <1>3, ConcatLength
<1>12. Len(d1) \in Nat /\ Len(d2) \in Nat /\ Len(d3) \in Nat /\ Len(d4) \in Nat
  BY <1>3
<1> QED
  BY <1>2, <1>3, <1>5, <1>6, <1>7, <1>8, <1>9, <1>11, <1>12

\* Five bytes, the addresses in nine, a flag and two counted texts (gui.c:375).
LEMMA RequestLength ==
  ASSUME NEW s, s.ssid \in Seq(Nat), s.psk \in Seq(Nat)
  PROVE  Len(Request(s)) = 17 + Len(s.ssid) + Len(s.psk)
<1> DEFINE A == Addresses(s)
           head == <<Opcode, 0, 1, s.enabled, s.mode>>
           v6 == <<s.v6>>
           n1 == <<Len(s.ssid)>>
           n2 == <<Len(s.psk)>>
           ssid == s.ssid
           psk == s.psk
<1>1. A = [i \in 1..9 |-> A[i]]
  <2>1. CASE s.mode = 1
    <3> DEFINE p == ParseIpv4(s.ip)
               g == ParseIpv4(s.gateway)
               x == <<ParsePrefix(s.prefix)>>
    <3>1. p = [i \in 1..4 |-> p[i]] /\ g = [i \in 1..4 |-> g[i]]
      BY DEF ParseIpv4
    <3>2. A = p \o x \o g
      BY <2>1 DEF Addresses
    <3> DEFINE U == {p[i] : i \in 1..4} \cup {g[i] : i \in 1..4} \cup {x[1]}
    <3>3. p \in Seq(U) /\ Len(p) = 4
      <4>1. p \in [1..4 -> U]
        BY <3>1
      <4> HIDE DEF p, U
      <4> QED
        BY <4>1, TupleLength
    <3>4. g \in Seq(U) /\ Len(g) = 4
      <4>1. g \in [1..4 -> U]
        BY <3>1
      <4> HIDE DEF g, U
      <4> QED
        BY <4>1, TupleLength
    <3>5. x \in Seq(U) /\ Len(x) = 1
      OBVIOUS
    <3> HIDE DEF p, g, x, U, A
    <3>6. p \o x \in Seq(U) /\ Len(p \o x) = Len(p) + Len(x)
      BY <3>3, <3>5, ConcatLength
    <3>7. A \in Seq(U) /\ Len(A) = Len(p \o x) + Len(g)
      BY <3>2, <3>4, <3>6, ConcatLength
    <3>8. Len(A) = 9
      BY <3>3, <3>4, <3>5, <3>6, <3>7
    <3> QED
      BY <3>7, <3>8, LenProperties
  <2>2. CASE s.mode # 1
    BY <2>2 DEF Addresses
  <2> QED
    BY <2>1, <2>2
<1> DEFINE U == Nat \cup {A[i] : i \in 1..9} \cup {s.enabled, s.mode, s.v6}
<1>2. A \in Seq(U) /\ Len(A) = 9
  <2>1. A \in [1..9 -> U]
    BY <1>1
  <2> HIDE DEF A, U
  <2> QED
    BY <2>1, TupleLength
<1>3. head \in Seq(U) /\ Len(head) = 5
  BY DEF Opcode
<1>4. v6 \in Seq(U) /\ Len(v6) = 1
  OBVIOUS
<1>5. n1 \in Seq(U) /\ Len(n1) = 1 /\ n2 \in Seq(U) /\ Len(n2) = 1
  OBVIOUS
<1>6. ssid \in Seq(U) /\ psk \in Seq(U) /\ Len(ssid) \in Nat /\ Len(psk) \in Nat
  <2>1. Nat \subseteq U
    OBVIOUS
  <2> HIDE DEF U
  <2> QED
    BY <2>1, SeqMonotonic
<1>7. Request(s) = head \o A \o v6 \o n1 \o ssid \o n2 \o psk
  BY DEF Request
<1> HIDE DEF A, head, v6, n1, n2, U, ssid, psk
<1> DEFINE r1 == head \o A
           r2 == r1 \o v6
           r3 == r2 \o n1
           r4 == r3 \o ssid
           r5 == r4 \o n2
           r6 == r5 \o psk
<1>8. r1 \in Seq(U) /\ Len(r1) = Len(head) + Len(A)
  BY <1>2, <1>3, ConcatLength
<1> HIDE DEF r1
<1>9. r2 \in Seq(U) /\ Len(r2) = Len(r1) + Len(v6)
  BY <1>4, <1>8, ConcatLength
<1> HIDE DEF r2
<1>10. r3 \in Seq(U) /\ Len(r3) = Len(r2) + Len(n1)
  BY <1>5, <1>9, ConcatLength
<1> HIDE DEF r3
<1>11. r4 \in Seq(U) /\ Len(r4) = Len(r3) + Len(ssid)
  BY <1>6, <1>10, ConcatLength
<1> HIDE DEF r4
<1>12. r5 \in Seq(U) /\ Len(r5) = Len(r4) + Len(n2)
  BY <1>5, <1>11, ConcatLength
<1> HIDE DEF r5
<1>13. Len(r6) = Len(r5) + Len(psk)
  BY <1>6, <1>12, ConcatLength
<1>14. Request(s) = r6
  BY <1>7 DEF r1, r2, r3, r4, r5
<1> HIDE DEF r5, r6
<1>15. Len(r6) = 17 + Len(ssid) + Len(psk)
  BY <1>2, <1>3, <1>4, <1>5, <1>6, <1>8, <1>9, <1>10, <1>11, <1>12, <1>13
<1> QED
  BY <1>14, <1>15 DEF ssid, psk

-----------------------------------------------------------------------------
(* Induction, over sets of numbers instead of predicates *)

\* A set of numbers has a least one.
LEMMA Least ==
  ASSUME NEW T \in SUBSET Nat, T # {} PROVE \E m \in T : \A n \in T : m <= n
<1> DEFINE R == {ss \in Nat \X Nat : ss[1] < ss[2]}
<1>1. IsWellFoundedOn(OpToRel(<, Nat), Nat)
  BY NatLessThanWellFounded
<1>2. IsWellFoundedOn(R, Nat)
  BY <1>1 DEF OpToRel
<1> HIDE DEF R
<1>3. PICK m \in T : \A n \in T : ~(<<n, m>> \in R)
  BY <1>2, WFMin
<1>4. \A n \in T : ~(n < m)
  BY <1>3 DEF R
<1> QED
  BY <1>4

\* A set of numbers that holds 0 and, with k - 1, also k.
LEMMA UpTo ==
  ASSUME NEW n \in Nat, NEW P \in SUBSET (0..n), 0 \in P, \A k \in 1..n : k - 1 \in P => k \in P
  PROVE  \A k \in 0..n : k \in P
<1> DEFINE T == (0..n) \ P
<1> SUFFICES ASSUME T # {} PROVE FALSE
  OBVIOUS
<1>1. T \in SUBSET Nat
  OBVIOUS
<1>2. PICK m \in T : \A k \in T : m <= k
  BY <1>1, Least
<1>3. m \in 1..n /\ m - 1 \in 0..n
  BY <1>2
<1>4. m - 1 \in P
  BY <1>2, <1>3
<1> QED
  BY <1>2, <1>3, <1>4

\* The equation behind a fold of a finite set has a solution, whatever is picked next.
FoldOf(D, pick, base, step, table) ==
  \A S \in SUBSET D : table[S] = IF S = {} THEN base ELSE step[<<table[S \ {pick[S]}], pick[S]>>]

\* By the least cardinality of a set it would not have one for.
LEMMA FoldExists ==
  ASSUME NEW D, IsFiniteSet(D), NEW V, NEW base \in V, NEW step \in [V \X D -> V],
         NEW pick, \A S \in SUBSET D : S # {} => pick[S] \in S
  PROVE  \E table \in [SUBSET D -> V] : FoldOf(D, pick, base, step, table)
<1> DEFINE Small(k) == {S \in SUBSET D : Cardinality(S) <= k}
           Next1(f, S) == IF S = {} THEN base ELSE step[<<f[S \ {pick[S]}], pick[S]>>]
           Table(k, f) == f \in [Small(k) -> V] /\ \A S \in Small(k) : f[S] = Next1(f, S)
           T == {k \in Nat : ~ \E f : Table(k, f)}
<1>1. \A S \in SUBSET D : Cardinality(S) \in Nat /\ IsFiniteSet(S)
  BY FS_Subset, FS_CardinalityType
<1>2. \A S \in SUBSET D : S # {} => /\ Cardinality(S) \in Nat \ {0}
                                    /\ S \ {pick[S]} \in SUBSET D
                                    /\ Cardinality(S \ {pick[S]}) = Cardinality(S) - 1
  <2> SUFFICES ASSUME NEW S \in SUBSET D, S # {}
               PROVE  /\ Cardinality(S) \in Nat \ {0}
                      /\ Cardinality(S \ {pick[S]}) = Cardinality(S) - 1
    OBVIOUS
  <2> QED
    BY <1>1, FS_EmptySet, FS_RemoveElement
<1>3. T = {}
  <2> SUFFICES ASSUME T # {} PROVE FALSE
    OBVIOUS
  <2>1. PICK m \in T : \A k \in T : m <= k
    BY Least
  <2>2. CASE m = 0
    <3> DEFINE f == [S \in Small(0) |-> base]
    <3>1. \A S \in Small(0) : S = {}
      <4> SUFFICES ASSUME NEW S \in SUBSET D, Cardinality(S) <= 0, S # {} PROVE FALSE
        OBVIOUS
      <4>1. Cardinality(S) \in Nat \ {0}
        BY <1>2
      <4> QED
        BY <4>1
    <3>2. Table(0, f)
      BY <3>1
    <3> QED
      BY <2>1, <2>2, <3>2
  <2>3. CASE m # 0
    <3>1. m - 1 \in Nat /\ m - 1 \notin T
      <4>1. m \in Nat
        BY <2>1
      <4> HIDE DEF T
      <4> QED
        BY <2>1, <2>3, <4>1
    <3>2. PICK f : Table(m - 1, f)
      BY <3>1
    <3> DEFINE g == [S \in Small(m) |-> Next1(f, S)]
    <3>3. \A S \in Small(m) : S # {} => S \ {pick[S]} \in Small(m - 1)
      BY <1>2, <2>1
    <3>4. \A S \in Small(m) : Next1(f, S) \in V
      BY <3>2, <3>3
    <3>5. \A S \in Small(m - 1) : S \in Small(m) /\ g[S] = f[S]
      <4> SUFFICES ASSUME NEW S \in Small(m - 1) PROVE S \in Small(m) /\ g[S] = f[S]
        OBVIOUS
      <4>1. S \in Small(m)
        BY <1>1, <2>1
      <4>2. f[S] = Next1(f, S)
        BY <3>2
      <4> QED
        BY <4>1, <4>2
    <3>6. \A S \in Small(m) : g[S] = Next1(g, S)
      <4> SUFFICES ASSUME NEW S \in Small(m) PROVE g[S] = Next1(g, S)
        OBVIOUS
      <4>1. CASE S = {}
        BY <4>1
      <4>2. CASE S # {}
        <5>1. g[S \ {pick[S]}] = f[S \ {pick[S]}]
          BY <3>3, <3>5, <4>2
        <5>2. g[S] = Next1(f, S)
          OBVIOUS
        <5> HIDE DEF g
        <5> QED
          BY <4>2, <5>1, <5>2
      <4> QED
        BY <4>1, <4>2
    <3>7. Table(m, g)
      BY <3>4, <3>6
    <3> HIDE DEF Table, g
    <3> QED
      BY <2>1, <3>7
  <2> QED
    BY <2>2, <2>3
<1>4. Cardinality(D) \in Nat
  BY FS_CardinalityType
<1>5. PICK f : Table(Cardinality(D), f)
  BY <1>3, <1>4
<1>6. Small(Cardinality(D)) = SUBSET D
  BY FS_Subset
<1> QED
  BY <1>5, <1>6 DEF FoldOf

-----------------------------------------------------------------------------
(* The folds of valid.c, as tables over the characters read *)

\* A fold takes the last place first.
LEMMA MaxOfInterval == \A k \in Nat \ {0} : Max(1..k) = k /\ (1..k) \ {k} = 1..(k - 1)
<1> SUFFICES ASSUME NEW k \in Nat \ {0} PROVE Max(1..k) = k /\ (1..k) \ {k} = 1..(k - 1)
  OBVIOUS
<1>1. (1..k) \ {k} = 1..(k - 1)
  OBVIOUS
<1>2. k \in 1..k /\ \A y \in 1..k : k >= y
  OBVIOUS
<1>3. \A x \in 1..k : (\A y \in 1..k : x >= y) => x = k
  <2> SUFFICES ASSUME NEW x \in 1..k, \A y \in 1..k : x >= y PROVE x = k
    OBVIOUS
  <2>1. x >= k
    BY <1>2
  <2> QED
    BY <2>1
<1> QED
  BY <1>1, <1>2, <1>3 DEF Max

LEMMA MaxIn == \A n \in Nat : \A S \in SUBSET (1..n) : S # {} => Max(S) \in S
<1> SUFFICES ASSUME NEW n \in Nat, NEW S \in SUBSET (1..n), S # {} PROVE Max(S) \in S
  OBVIOUS
<1> DEFINE T == {n - x : x \in S}
<1>1. PICK m \in T : \A k \in T : m <= k
  <2>1. T \in SUBSET Nat
    OBVIOUS
  <2>2. T # {}
    OBVIOUS
  <2> HIDE DEF T
  <2> QED
    BY <2>1, <2>2, Least
<1>2. PICK x \in S : m = n - x
  BY <1>1
<1>3. \A y \in S : x >= y
  <2> SUFFICES ASSUME NEW y \in S PROVE x >= y
    OBVIOUS
  <2>1. m <= n - y
    BY <1>1
  <2> QED
    BY <1>2, <2>1
<1> QED
  BY <1>3 DEF Max

\* A fold that takes the last character off first, in terms of a table of steps.
FoldOfText(n, base, step, t) ==
  \A S \in SUBSET (1..n) : t[S] = IF S = {} THEN base ELSE step[<<t[S \ {Max(S)}], Max(S)>>]

LEMMA FoldFromTheEnd ==
  ASSUME NEW n \in Nat, NEW V, NEW base \in V, NEW step \in [V \X (1..n) -> V]
  PROVE  \E t \in [SUBSET (1..n) -> V] : FoldOfText(n, base, step, t)
<1> DEFINE D == 1..n
           pick == [S \in SUBSET D |-> Max(S)]
<1>1. \A S \in SUBSET D : S # {} => pick[S] \in S
  BY MaxIn
<1>2. IsFiniteSet(D)
  BY FS_Interval
<1>3. PICK t \in [SUBSET D -> V] : FoldOf(D, pick, base, step, t)
  <2>1. step \in [V \X D -> V]
    OBVIOUS
  <2> HIDE DEF D, pick
  <2> QED
    BY <1>1, <1>2, <2>1, FoldExists, Zenon
<1>4. \A S \in SUBSET D : t[S] = IF S = {} THEN base ELSE step[<<t[S \ {Max(S)}], Max(S)>>]
  <2>1. \A S \in SUBSET D : pick[S] = Max(S)
    OBVIOUS
  <2> HIDE DEF pick
  <2> QED
    BY <1>3, <2>1 DEF FoldOf
<1> QED
  BY <1>4 DEF FoldOfText

\* The equation of such a fold, at the beginnings of the text.
LEMMA Beginnings ==
  \A n \in Nat : \A k \in 1..n :
    1..k \in SUBSET (1..n) /\ 1..k # {} /\ Max(1..k) = k /\ (1..k) \ {k} = 1..(k - 1)
BY MaxOfInterval

\* What FoldLeft makes of a number, character by character.
LEMMA NumberTable ==
  ASSUME NEW text \in Seq(Nat)
  PROVE  \E f : /\ f[0] = 0
                /\ \A k \in 1..Len(text) : f[k] = Ten(f[k - 1], text[k])
                /\ FoldLeft(Ten, 0, text) = f[Len(text)]
<1> DEFINE n == Len(text)
           D == 1..n
           Sol(t) == t = [S \in SUBSET D |->
                            IF S = {} THEN 0 ELSE Ten(t[S \ {Max(S)}], text[Max(S)])]
           step == [p \in Nat \X D |-> Ten(p[1], text[p[2]])]
<1>1. n \in Nat /\ DOMAIN text = D /\ \A k \in D : text[k] \in Nat
  OBVIOUS
<1>2. FoldLeft(Ten, 0, text) = (CHOOSE t : Sol(t))[D]
  BY <1>1 DEF FoldLeft, MapThenFoldSet
<1> HIDE DEF n
<1>3. \E t : Sol(t)
  <2>1. \A v \in Nat, c \in Nat : Ten(v, c) \in Nat
    BY DEF Ten, Word
  <2>2. step \in [Nat \X D -> Nat]
    BY <1>1, <2>1
  <2>3. 0 \in Nat
    OBVIOUS
  <2>4. PICK t \in [SUBSET D -> Nat] : FoldOfText(n, 0, step, t)
    <3> HIDE DEF step
    <3> QED
      BY <1>1, <2>2, <2>3, FoldFromTheEnd
  <2>5. \A S \in SUBSET D : S # {} =>
          step[<<t[S \ {Max(S)}], Max(S)>>] = Ten(t[S \ {Max(S)}], text[Max(S)])
    <3> SUFFICES ASSUME NEW S \in SUBSET D, S # {}
                 PROVE  step[<<t[S \ {Max(S)}], Max(S)>>] = Ten(t[S \ {Max(S)}], text[Max(S)])
      OBVIOUS
    <3>1. Max(S) \in D /\ t[S \ {Max(S)}] \in Nat
      BY <1>1, MaxIn
    <3> QED
      BY <3>1
  <2> HIDE DEF step
  <2> QED
    BY <2>4, <2>5 DEF FoldOfText
<1> DEFINE c == CHOOSE t : Sol(t)
<1>4. Sol(c)
  BY <1>3
<1> HIDE DEF c
<1> DEFINE f == [k \in 0..n |-> c[1..k]]
<1>5. f[0] = 0
  BY <1>1, <1>4
<1>6. \A k \in 1..n : f[k] = Ten(f[k - 1], text[k])
  <2> SUFFICES ASSUME NEW k \in 1..n PROVE f[k] = Ten(f[k - 1], text[k])
    OBVIOUS
  <2>1. k - 1 \in 0..n /\ k \in 0..n
    BY <1>1
  <2>2. 1..k \in SUBSET D /\ 1..k # {} /\ Max(1..k) = k /\ (1..k) \ {k} = 1..(k - 1)
    BY <1>1, Beginnings
  <2>3. c[1..k] = Ten(c[1..(k - 1)], text[k])
    BY <1>4, <2>2
  <2> QED
    BY <2>1, <2>3
<1>7. FoldLeft(Ten, 0, text) = f[n]
  BY <1>1, <1>2 DEF c
<1> HIDE DEF f
<1> QED
  BY <1>5, <1>6, <1>7 DEF n

\* What is_valid_ipv4 knows between two characters.
Reading == [value : Nat, digits : Nat, octets : -1..3]
Begin == [value |-> 0, digits |-> 0, octets |-> 0]

\* A step of is_valid_ipv4's loop stays among its registers' values.
LEMMA Ipv4CharReading == \A s \in Reading, c \in Nat : Ipv4Char(s, c) \in Reading
<1> SUFFICES ASSUME NEW s \in Reading, NEW c \in Nat PROVE Ipv4Char(s, c) \in Reading
  OBVIOUS
<1>1. Ten(s.value, c) \in Nat /\ s.digits + 1 \in Nat
  BY DEF Reading, Ten, Word
<1>2. [s EXCEPT !.value = Ten(@, c), !.digits = @ + 1] \in Reading
  BY <1>1 DEF Reading
<1>3. s.octets \in 0..2 => [value |-> 0, digits |-> 0, octets |-> s.octets + 1] \in Reading
  BY DEF Reading
<1>4. Failed \in Reading
  BY DEF Reading, Failed
<1> QED
  BY <1>2, <1>3, <1>4 DEF Ipv4Char

\* What is_valid_ipv4's loop makes of a text, character by character.
LEMMA ReadingTable ==
  ASSUME NEW text \in Seq(Nat)
  PROVE  \E f : /\ f[0] = Begin
                /\ \A k \in 1..Len(text) : f[k] = Ipv4Char(f[k - 1], text[k])
                /\ FoldLeft(Ipv4Char, Begin, text) = f[Len(text)]
<1> DEFINE n == Len(text)
           D == 1..n
           Sol(t) == t = [S \in SUBSET D |->
                            IF S = {} THEN Begin ELSE Ipv4Char(t[S \ {Max(S)}], text[Max(S)])]
           step == [p \in Reading \X D |-> Ipv4Char(p[1], text[p[2]])]
<1>1. n \in Nat /\ DOMAIN text = D /\ \A k \in D : text[k] \in Nat
  OBVIOUS
<1>2. FoldLeft(Ipv4Char, Begin, text) = (CHOOSE t : Sol(t))[D]
  BY <1>1 DEF FoldLeft, MapThenFoldSet
<1> HIDE DEF n
<1>3. \E t : Sol(t)
  <2>1. \A v \in Reading, c \in Nat : Ipv4Char(v, c) \in Reading
    BY Ipv4CharReading
  <2>2. step \in [Reading \X D -> Reading]
    BY <1>1, <2>1
  <2>3. Begin \in Reading
    BY DEF Begin, Reading
  <2>4. PICK t \in [SUBSET D -> Reading] : FoldOfText(n, Begin, step, t)
    <3> HIDE DEF step
    <3> QED
      BY <1>1, <2>2, <2>3, FoldFromTheEnd
  <2>5. \A S \in SUBSET D : S # {} =>
          step[<<t[S \ {Max(S)}], Max(S)>>] = Ipv4Char(t[S \ {Max(S)}], text[Max(S)])
    <3> SUFFICES ASSUME NEW S \in SUBSET D, S # {}
                 PROVE  step[<<t[S \ {Max(S)}], Max(S)>>] = Ipv4Char(t[S \ {Max(S)}], text[Max(S)])
      OBVIOUS
    <3>1. Max(S) \in D /\ t[S \ {Max(S)}] \in Reading
      BY <1>1, MaxIn
    <3> QED
      BY <3>1
  <2> HIDE DEF step
  <2> QED
    BY <2>4, <2>5 DEF FoldOfText
<1> DEFINE c == CHOOSE t : Sol(t)
<1>4. Sol(c)
  BY <1>3
<1> HIDE DEF c
<1> DEFINE f == [k \in 0..n |-> c[1..k]]
<1>5. f[0] = Begin
  BY <1>1, <1>4
<1>6. \A k \in 1..n : f[k] = Ipv4Char(f[k - 1], text[k])
  <2> SUFFICES ASSUME NEW k \in 1..n PROVE f[k] = Ipv4Char(f[k - 1], text[k])
    OBVIOUS
  <2>1. k - 1 \in 0..n /\ k \in 0..n
    BY <1>1
  <2>2. 1..k \in SUBSET D /\ 1..k # {} /\ Max(1..k) = k /\ (1..k) \ {k} = 1..(k - 1)
    BY <1>1, Beginnings
  <2>3. c[1..k] = Ipv4Char(c[1..(k - 1)], text[k])
    BY <1>4, <2>2
  <2> QED
    BY <2>1, <2>3
<1>7. FoldLeft(Ipv4Char, Begin, text) = f[n]
  BY <1>1, <1>2 DEF c
<1> HIDE DEF f
<1> QED
  BY <1>5, <1>6, <1>7 DEF n

-----------------------------------------------------------------------------
(* Numbers of up to three digits *)

\* The text has a number of up to three digits between the places a and b, and
\* which it is.
IsDecimal(text, a, b) ==
  /\ a \in 0..Len(text) /\ b \in 1..(Len(text) + 1) /\ b - a \in 2..4
  /\ \A i \in (a + 1)..(b - 1) : text[i] \in Digit
Value(text, a, b) == (IF b - a = 4 THEN 100 * text[b - 3] ELSE 0)
                     + (IF b - a > 2 THEN 10 * text[b - 2] ELSE 0) + text[b - 1]

LEMMA Powers == 10^0 = 1 /\ 10^1 = 10 /\ 10^2 = 100
OBVIOUS

\* The places between a and b, by their number.
LEMMA Places ==
  ASSUME NEW a \in Nat, NEW b \in Nat, b - a \in 2..4
  PROVE  /\ b - a = 2 => (a + 1)..(b - 1) = {b - 1}
         /\ b - a = 3 => (a + 1)..(b - 1) = {b - 1, b - 2}
         /\ b - a = 4 => (a + 1)..(b - 1) = {b - 1, b - 2, b - 3}
OBVIOUS

\* Sets of up to three places.
LEMMA CardOne == ASSUME NEW x PROVE IsFiniteSet({x}) /\ Cardinality({x}) = 1
BY FS_Singleton

LEMMA CardTwo == ASSUME NEW x, NEW y, x # y PROVE IsFiniteSet({x, y}) /\ Cardinality({x, y}) = 2
<1>1. {x, y} = {x} \cup {y} /\ y \notin {x}
  OBVIOUS
<1>2. IsFiniteSet({x}) /\ Cardinality({x}) = 1
  BY CardOne
<1>3. IsFiniteSet({x, y}) /\ Cardinality({x, y}) = 1 + 1
  BY <1>1, <1>2, FS_AddElement
<1> QED
  BY <1>3

LEMMA CardThree ==
  ASSUME NEW x, NEW y, NEW z, x # y, y # z, x # z
  PROVE  IsFiniteSet({x, y, z}) /\ Cardinality({x, y, z}) = 3
<1>1. {x, y, z} = {x, y} \cup {z} /\ z \notin {x, y}
  OBVIOUS
<1>2. IsFiniteSet({x, y}) /\ Cardinality({x, y}) = 2
  BY CardTwo
<1>3. IsFiniteSet({x, y, z}) /\ Cardinality({x, y, z}) = 2 + 1
  BY <1>1, <1>2, FS_AddElement
<1> QED
  BY <1>3

\* What adding up in any order comes to.
SumTable(D, w, t) ==
  /\ t[{}] = 0
  /\ \A S \in SUBSET D : S # {} => \E x \in S : t[S] = w[x] + t[S \ {x}]

SumsOfOne(D, w, t) == \A x \in D : t[{x}] = w[x]
SumsOfTwo(D, w, t) == \A x, y \in D : x # y => t[{x, y}] = w[x] + w[y]
SumsOfThree(D, w, t) ==
  \A x, y, z \in D : x # y /\ y # z /\ x # z => t[{x, y, z}] = w[x] + w[y] + w[z]

LEMMA SmallSums ==
  ASSUME NEW D, NEW w \in [D -> Nat], NEW t, SumTable(D, w, t)
  PROVE  SumsOfOne(D, w, t) /\ SumsOfTwo(D, w, t) /\ SumsOfThree(D, w, t)
<1>1. ASSUME NEW x \in D PROVE t[{x}] = w[x]
  <2>1. \E u \in {x} : t[{x}] = w[u] + t[{x} \ {u}]
    BY DEF SumTable
  <2>2. {x} \ {x} = {}
    OBVIOUS
  <2>3. t[{}] = 0 /\ w[x] \in Nat
    BY DEF SumTable
  <2> QED
    BY <2>1, <2>2, <2>3
<1>2. ASSUME NEW x \in D, NEW y \in D, x # y PROVE t[{x, y}] = w[x] + w[y]
  <2>1. PICK u \in {x, y} : t[{x, y}] = w[u] + t[{x, y} \ {u}]
    BY DEF SumTable
  <2>2. {x, y} \ {x} = {y} /\ {x, y} \ {y} = {x}
    BY <1>2
  <2>3. t[{x}] = w[x] /\ t[{y}] = w[y]
    BY <1>1
  <2>4. w[x] \in Nat /\ w[y] \in Nat
    OBVIOUS
  <2>5. t[{x, y}] = w[x] + t[{y}] \/ t[{x, y}] = w[y] + t[{x}]
    BY <2>1, <2>2
  <2> QED
    BY <2>3, <2>4, <2>5
<1>3. ASSUME NEW x \in D, NEW y \in D, NEW z \in D, x # y, y # z, x # z
      PROVE  t[{x, y, z}] = w[x] + w[y] + w[z]
  <2>1. PICK u \in {x, y, z} : t[{x, y, z}] = w[u] + t[{x, y, z} \ {u}]
    BY DEF SumTable
  <2>2. {x, y, z} \ {x} = {y, z} /\ {x, y, z} \ {y} = {x, z} /\ {x, y, z} \ {z} = {x, y}
    BY <1>3
  <2>3. t[{x, y}] = w[x] + w[y] /\ t[{x, z}] = w[x] + w[z] /\ t[{y, z}] = w[y] + w[z]
    BY <1>2, <1>3
  <2>4. w[x] \in Nat /\ w[y] \in Nat /\ w[z] \in Nat
    OBVIOUS
  <2>5. \/ t[{x, y, z}] = w[x] + t[{y, z}]
        \/ t[{x, y, z}] = w[y] + t[{x, z}]
        \/ t[{x, y, z}] = w[z] + t[{x, y}]
    BY <2>1, <2>2
  <2> QED
    BY <2>3, <2>4, <2>5
<1> QED
  BY <1>1, <1>2, <1>3 DEF SumsOfOne, SumsOfTwo, SumsOfThree

\* MapThenSumSet is such a sum.
Weighed(text, D) == [i \in D |-> text[i] * 10^Cardinality({j \in D : j > i})]

\* What a text's number is the sum of.
LEMMA NumberIsSum ==
  ASSUME NEW text, NEW D, IsFiniteSet(D), Weighed(text, D) \in [D -> Nat]
  PROVE  \E t : SumTable(D, Weighed(text, D), t) /\ Number(text, D) = t[D]
<1> DEFINE W(i) == text[i] * 10^Cardinality({j \in D : j > i})
           w == Weighed(text, D)
           pick == [S \in SUBSET D |-> CHOOSE x \in S : TRUE]
           step == [p \in Nat \X D |-> w[p[2]] + p[1]]
           Sol(t) == t = [S \in SUBSET D |-> IF S = {} THEN 0
                                             ELSE W(CHOOSE x \in S : TRUE) + t[S \ {CHOOSE x \in S : TRUE}]]
<1>1. Number(text, D) = (CHOOSE t : Sol(t))[D]
  BY DEF Number, MapThenSumSet, MapThenFoldSet
<1>2. \A i \in D : w[i] = W(i) /\ w[i] \in Nat
  BY DEF Weighed
<1>3. \A S \in SUBSET D : S # {} => (CHOOSE x \in S : TRUE) \in S
  OBVIOUS
<1> HIDE DEF W, w
<1>4. \E t : Sol(t)
  <2>1. step \in [Nat \X D -> Nat]
    BY <1>2
  <2>2. \A S \in SUBSET D : S # {} => pick[S] \in S
    BY <1>3
  <2>3. PICK t \in [SUBSET D -> Nat] : FoldOf(D, pick, 0, step, t)
    <3> HIDE DEF pick, step
    <3>1. 0 \in Nat
      OBVIOUS
    <3> QED
      BY <2>1, <2>2, <3>1, FoldExists
  <2>4. \A S \in SUBSET D :
          t[S] = IF S = {} THEN 0 ELSE W(CHOOSE x \in S : TRUE) + t[S \ {CHOOSE x \in S : TRUE}]
    <3> SUFFICES ASSUME NEW S \in SUBSET D
                 PROVE  t[S] = IF S = {} THEN 0
                               ELSE W(CHOOSE x \in S : TRUE) + t[S \ {CHOOSE x \in S : TRUE}]
      OBVIOUS
    <3>1. CASE S = {}
      BY <2>3, <3>1 DEF FoldOf
    <3>2. CASE S # {}
      <4> DEFINE x == CHOOSE x \in S : TRUE
      <4>1. pick[S] = x /\ x \in D
        BY <1>3, <3>2
      <4>2. t[S] = step[<<t[S \ {pick[S]}], pick[S]>>]
        BY <2>3, <3>2 DEF FoldOf
      <4>3. t[S \ {x}] \in Nat
        OBVIOUS
      <4> HIDE DEF x, pick
      <4>4. t[S] = w[x] + t[S \ {x}]
        BY <4>1, <4>2, <4>3
      <4> QED
        BY <1>2, <3>2, <4>1, <4>4 DEF x
    <3> QED
      BY <3>1, <3>2
  <2> QED
    BY <2>4
<1> DEFINE c == CHOOSE t : Sol(t)
<1>5. Sol(c)
  BY <1>4
<1>6. Number(text, D) = c[D]
  BY <1>1
<1> HIDE DEF c
<1>7. SumTable(D, w, c)
  <2>1. c[{}] = 0
    BY <1>5
  <2>2. ASSUME NEW S \in SUBSET D, S # {} PROVE \E x \in S : c[S] = w[x] + c[S \ {x}]
    <3> DEFINE x == CHOOSE x \in S : TRUE
    <3>1. c[S] = W(x) + c[S \ {x}]
      BY <1>5, <2>2
    <3>2. x \in S
      BY <2>2
    <3> HIDE DEF x
    <3> QED
      BY <1>2, <3>1, <3>2
  <2> QED
    BY <2>1, <2>2 DEF SumTable
<1> QED
  BY <1>6, <1>7 DEF w

\* The number between two places is its digits with their weights.
LEMMA NumberIs ==
  ASSUME NEW text \in Seq(Nat), NEW a \in Nat, NEW b \in Nat, IsDecimal(text, a, b)
  PROVE  Number(text, (a + 1)..(b - 1)) = Value(text, a, b) /\ Value(text, a, b) \in Nat
<1> DEFINE D == (a + 1)..(b - 1)
           w == Weighed(text, D)
<1>1. /\ \A i \in D : i \in 1..Len(text) /\ text[i] \in 0..9
      /\ b - a \in 2..4 /\ b - 1 \in D /\ b - 2 \in Nat
      /\ (b - a > 2 => b - 2 \in D) /\ (b - a = 4 => b - 3 \in D)
  BY DEF IsDecimal, Digit
<1>2. w[b - 1] = text[b - 1] /\ w[b - 1] \in Nat
  <2>1. {j \in D : j > b - 1} = {}
    OBVIOUS
  <2>2. Cardinality({j \in D : j > b - 1}) = 0
    BY <2>1, FS_EmptySet
  <2>3. w[b - 1] = text[b - 1] * 1
    BY <1>1, <2>2, Powers DEF Weighed
  <2> QED
    BY <1>1, <2>3
<1>3. ASSUME b - a > 2 PROVE w[b - 2] = 10 * text[b - 2] /\ w[b - 2] \in Nat
  <2>1. {j \in D : j > b - 2} = {b - 1}
    BY <1>1, <1>3
  <2>2. Cardinality({j \in D : j > b - 2}) = 1
    BY <2>1, FS_Singleton
  <2>3. w[b - 2] = text[b - 2] * 10
    BY <1>1, <1>3, <2>2, Powers DEF Weighed
  <2> QED
    BY <1>1, <1>3, <2>3
<1>4. ASSUME b - a = 4 PROVE w[b - 3] = 100 * text[b - 3] /\ w[b - 3] \in Nat
  <2>1. {j \in D : j > b - 3} = {b - 1, b - 2}
    BY <1>1, <1>4
  <2>2. Cardinality({j \in D : j > b - 3}) = 2
    <3> DEFINE p == b - 1
               q == b - 2
    <3>1. p # q
      OBVIOUS
    <3>2. {j \in D : j > b - 3} = {p, q}
      BY <2>1
    <3> HIDE DEF p, q, D
    <3>3. Cardinality({p, q}) = 2
      BY <3>1, CardTwo
    <3> QED
      BY <3>2, <3>3
  <2>3. w[b - 3] = text[b - 3] * 100
    BY <1>1, <1>4, <2>2, Powers DEF Weighed
  <2> QED
    BY <1>1, <1>4, <2>3
<1>5. w \in [D -> Nat] /\ IsFiniteSet(D)
  <2>1. \A i \in D : i = b - 1 \/ (b - a > 2 /\ i = b - 2) \/ (b - a = 4 /\ i = b - 3)
    BY <1>1
  <2>2. \A i \in D : w[i] \in Nat
    BY <1>2, <1>3, <1>4, <2>1
  <2>3. w = [i \in D |-> w[i]]
    BY DEF Weighed
  <2>4. IsFiniteSet(D)
    BY FS_Interval
  <2> HIDE DEF w, D
  <2> QED
    BY <2>2, <2>3, <2>4
<1>6. PICK t : SumTable(D, w, t) /\ Number(text, D) = t[D]
  BY <1>5, NumberIsSum
<1> DEFINE x == b - 1
           y == b - 2
           z == b - 3
<1>7. /\ b - a = 2 => D = {x}
      /\ b - a = 3 => D = {x, y}
      /\ b - a = 4 => D = {x, y, z}
  BY <1>1, Places
<1>8. x # y /\ y # z /\ x # z
  OBVIOUS
<1> HIDE DEF D, w, x, y, z
<1>14. SumsOfOne(D, w, t) /\ SumsOfTwo(D, w, t) /\ SumsOfThree(D, w, t)
  BY <1>5, <1>6, SmallSums, Zenon
<1>15. x \in D /\ (b - a > 2 => y \in D) /\ (b - a = 4 => z \in D)
  BY <1>1 DEF x, y, z
<1>9. CASE b - a = 2
  <2>1. t[{x}] = w[x]
    BY <1>14, <1>15 DEF SumsOfOne
  <2>2. Number(text, D) = w[b - 1]
    BY <1>6, <1>7, <1>9, <2>1 DEF x
  <2>3. Value(text, a, b) = text[b - 1]
    BY <1>1, <1>9 DEF Value
  <2> QED
    BY <1>1, <1>2, <2>2, <2>3 DEF D
<1>10. CASE b - a = 3
  <2>1. t[{x, y}] = w[x] + w[y]
    <3>1. x \in D /\ y \in D /\ x # y
      BY <1>1, <1>8, <1>10, <1>15
    <3> QED
      BY <1>14, <3>1 DEF SumsOfTwo
  <2>2. Number(text, D) = w[b - 1] + w[b - 2]
    BY <1>6, <1>7, <1>10, <2>1 DEF x, y
  <2>3. Value(text, a, b) = 10 * text[b - 2] + text[b - 1]
    BY <1>1, <1>10 DEF Value
  <2>4. w[b - 2] = 10 * text[b - 2] /\ text[b - 1] \in 0..9 /\ text[b - 2] \in 0..9
    BY <1>1, <1>3, <1>10
  <2> DEFINE p == text[b - 1]
             q == text[b - 2]
  <2>6. Number(text, D) = text[b - 1] + 10 * text[b - 2]
    BY <1>2, <2>2, <2>4
  <2>7. p \in 0..9 /\ q \in 0..9
    BY <2>4
  <2>8. Number(text, D) = p + 10 * q /\ Value(text, a, b) = 10 * q + p
    BY <2>3, <2>6
  <2> HIDE DEF p, q
  <2>9. Number(text, D) = Value(text, a, b) /\ Value(text, a, b) \in Nat
    BY <2>7, <2>8
  <2> QED
    BY <2>9 DEF D
<1>11. CASE b - a = 4
  <2>1. t[{x, y, z}] = w[x] + w[y] + w[z]
    BY <1>8, <1>11, <1>14, <1>15 DEF SumsOfThree
  <2>2. Number(text, D) = w[b - 1] + w[b - 2] + w[b - 3]
    BY <1>6, <1>7, <1>11, <2>1 DEF x, y, z
  <2>3. Value(text, a, b) = 100 * text[b - 3] + 10 * text[b - 2] + text[b - 1]
    BY <1>1, <1>11 DEF Value
  <2>4. /\ w[b - 2] = 10 * text[b - 2] /\ w[b - 3] = 100 * text[b - 3]
        /\ text[b - 1] \in 0..9 /\ text[b - 2] \in 0..9 /\ text[b - 3] \in 0..9
    BY <1>1, <1>3, <1>4, <1>11
  <2> DEFINE p == text[b - 1]
             q == text[b - 2]
             r == text[b - 3]
  <2>6. Number(text, D) = text[b - 1] + 10 * text[b - 2] + 100 * text[b - 3]
    BY <1>2, <2>2, <2>4
  <2>7. p \in 0..9 /\ q \in 0..9 /\ r \in 0..9
    BY <2>4
  <2>8. Number(text, D) = p + 10 * q + 100 * r /\ Value(text, a, b) = 100 * r + 10 * q + p
    BY <2>3, <2>6
  <2> HIDE DEF p, q, r
  <2>9. Number(text, D) = Value(text, a, b) /\ Value(text, a, b) \in Nat
    BY <2>7, <2>8
  <2> QED
    BY <2>9 DEF D
<1> QED
  BY <1>1, <1>9, <1>10, <1>11

-----------------------------------------------------------------------------
(* Reading such a number: DigitsOf, NumberOf and what comes after *)

\* The digits a text begins with end where something else stands, or the text.
LEMMA DigitsFirst ==
  ASSUME NEW text \in Seq(Nat), NEW n \in 0..Len(text), \A i \in 1..n : text[i] \in Digit,
         n = Len(text) \/ text[n + 1] \notin Digit
  PROVE  DigitsOf(text) = SubSeq(text, 1, n)
<1> DEFINE I == {i \in 1..Len(text) : text[i] \notin Digit}
<1>1. Len(text) \in Nat
  OBVIOUS
<1>2. Leading(text) = IF I # {} THEN Min(I) ELSE 0
  BY DEF Leading, SelectInSeq
<1>3. CASE n = Len(text)
  <2>1. I = {}
    BY <1>3
  <2>2. SubSeq(text, 1, n) = text
    BY <1>3, SubSeqFull
  <2> QED
    BY <1>2, <2>1, <2>2 DEF DigitsOf
<1>4. CASE n # Len(text)
  <2>1. n + 1 \in I /\ n \in Nat
    BY <1>1, <1>4
  <2>2. \A y \in I : n + 1 <= y
    BY <1>1
  <2>3. \A x \in I : (\A y \in I : x <= y) => x = n + 1
    <3> SUFFICES ASSUME NEW x \in I, \A y \in I : x <= y PROVE x = n + 1
      OBVIOUS
    <3>1. x <= n + 1 /\ n + 1 <= x /\ x \in Nat
      BY <1>1, <2>1, <2>2
    <3> QED
      BY <2>1, <3>1
  <2> HIDE DEF I
  <2>4. Min(I) = n + 1
    BY <2>1, <2>2, <2>3 DEF Min
  <2>5. Leading(text) = n + 1
    BY <1>2, <2>1, <2>4
  <2>6. n + 1 # 0 /\ n + 1 - 1 = n
    BY <2>1
  <2> QED
    BY <2>5, <2>6 DEF DigitsOf
<1> QED
  BY <1>3, <1>4

\* The characters behind the place a.
Rest(text, a) == SubSeq(text, a + 1, Len(text))

LEMMA RestIs ==
  ASSUME NEW text \in Seq(Nat), NEW a \in 0..Len(text)
  PROVE  /\ Rest(text, a) \in Seq(Nat) /\ Len(Rest(text, a)) = Len(text) - a
         /\ \A i \in 1..(Len(text) - a) : Rest(text, a)[i] = text[a + i]
<1>1. Len(text) \in Nat /\ a + 1 \in 1..(Len(text) + 1) /\ \A i \in 1..Len(text) : text[i] \in Nat
  OBVIOUS
<1> QED
  BY <1>1, SubSeqProperties DEF Rest

\* Up to three digits do not overflow.
LEMMA TenOfDigits ==
  /\ \A d \in 0..9 : Ten(0, d) = d
  /\ \A d, e \in 0..9 : Ten(d, e) = 10 * d + e
  /\ \A d, e, f \in 0..9 : Ten(10 * d + e, f) = 100 * d + 10 * e + f
BY DEF Ten, Word

LEMMA NumberOfDigits ==
  ASSUME NEW text \in Seq(Nat), Len(text) \in 1..3, \A i \in 1..Len(text) : text[i] \in Digit
  PROVE  FoldLeft(Ten, 0, text) = Value(text, 0, Len(text) + 1)
<1> DEFINE n == Len(text)
<1>1. PICK f : /\ f[0] = 0
               /\ \A k \in 1..n : f[k] = Ten(f[k - 1], text[k])
               /\ FoldLeft(Ten, 0, text) = f[n]
  BY NumberTable
<1>2. n \in 1..3 /\ \A i \in 1..n : text[i] \in 0..9
  BY DEF Digit
<1> HIDE DEF n
<1>3. f[1] = text[1]
  <2>1. 1 \in 1..n /\ 1 - 1 = 0
    BY <1>2
  <2>2. f[1] = Ten(0, text[1])
    BY <1>1, <2>1
  <2> QED
    BY <1>2, <2>1, <2>2, TenOfDigits
<1>4. n > 1 => f[2] = 10 * text[1] + text[2]
  <2> SUFFICES ASSUME n > 1 PROVE f[2] = 10 * text[1] + text[2]
    OBVIOUS
  <2>1. 1 \in 1..n /\ 2 \in 1..n /\ 2 - 1 = 1
    BY <1>2
  <2>2. f[2] = Ten(text[1], text[2])
    BY <1>1, <1>3, <2>1
  <2> QED
    <3>1. text[1] \in 0..9 /\ text[2] \in 0..9
      BY <1>2, <2>1
    <3> QED
      BY <2>2, <3>1, TenOfDigits
<1>5. n = 3 => f[3] = 100 * text[1] + 10 * text[2] + text[3]
  <2> SUFFICES ASSUME n = 3 PROVE f[3] = 100 * text[1] + 10 * text[2] + text[3]
    OBVIOUS
  <2>1. 1 \in 1..n /\ 2 \in 1..n /\ 3 \in 1..n /\ 3 - 1 = 2 /\ n > 1
    BY <1>2
  <2>2. f[3] = Ten(10 * text[1] + text[2], text[3])
    BY <1>1, <1>4, <2>1
  <2> QED
    <3>1. text[1] \in 0..9 /\ text[2] \in 0..9 /\ text[3] \in 0..9
      BY <1>2, <2>1
    <3>2. Ten(10 * text[1] + text[2], text[3]) = 100 * text[1] + 10 * text[2] + text[3]
      BY <3>1, TenOfDigits, Zenon
    <3> QED
      BY <2>2, <3>2
<1>6. CASE n = 1
  <2>1. Value(text, 0, n + 1) = 0 + 0 + text[1]
    BY <1>6 DEF Value
  <2> QED
    BY <1>1, <1>2, <1>3, <1>6, <2>1 DEF n
<1>7. CASE n = 2
  <2>1. Value(text, 0, n + 1) = 0 + 10 * text[1] + text[2]
    BY <1>7 DEF Value
  <2>2. f[n] = 10 * text[1] + text[2] /\ text[1] \in 0..9
    BY <1>2, <1>4, <1>7
  <2> QED
    BY <1>1, <2>1, <2>2 DEF n
<1>8. CASE n = 3
  <2>1. Value(text, 0, n + 1) = 100 * text[1] + 10 * text[2] + text[3]
    BY <1>8 DEF Value
  <2>2. f[n] = 100 * text[1] + 10 * text[2] + text[3]
    BY <1>5, <1>8
  <2> QED
    BY <1>1, <2>1, <2>2 DEF n
<1> QED
  BY <1>2, <1>6, <1>7, <1>8

\* A number is read where it stands, and the character behind it skipped.
LEMMA NumberRead ==
  ASSUME NEW text \in Seq(Nat), NEW a \in Nat, NEW b \in Nat, IsDecimal(text, a, b),
         b = Len(text) + 1 \/ text[b] \notin Digit
  PROVE  /\ NumberOf(Rest(text, a)) = Value(text, a, b)
         /\ Len(DigitsOf(Rest(text, a))) = b - a - 1
         /\ b <= Len(text) => After(Rest(text, a)) = Rest(text, b)
<1> DEFINE r == Rest(text, a)
           n == b - a - 1
           d == SubSeq(r, 1, n)
<1>1. a \in 0..Len(text) /\ b \in 1..(Len(text) + 1) /\ b - a \in 2..4 /\ Len(text) \in Nat
  BY DEF IsDecimal
<1>11. r \in Seq(Nat) /\ Len(r) = Len(text) - a
  BY <1>1, RestIs
<1>2. \A i \in 1..(Len(text) - a) : r[i] = text[a + i]
  BY <1>1, RestIs
<1>12. \A i \in 1..Len(r) : r[i] \in Nat
  <2> HIDE DEF r
  <2> QED
    BY <1>11, ElementOfSeq
<1> HIDE DEF r
<1>3. n \in 1..3 /\ n \in 0..Len(r) /\ a + n + 1 = b /\ n \in 1..(Len(text) - a)
  BY <1>1, <1>11
<1>4. \A i \in 1..n : r[i] \in Digit /\ r[i] = text[a + i]
  <2> SUFFICES ASSUME NEW i \in 1..n PROVE r[i] \in Digit /\ r[i] = text[a + i]
    OBVIOUS
  <2>1. i \in 1..(Len(text) - a) /\ a + i \in (a + 1)..(b - 1)
    BY <1>1
  <2>2. text[a + i] \in Digit
    BY <2>1 DEF IsDecimal
  <2> QED
    BY <1>2, <2>1, <2>2
<1>5. n = Len(r) \/ r[n + 1] \notin Digit
  <2>1. CASE b = Len(text) + 1
    BY <1>1, <1>11, <2>1
  <2>2. CASE b <= Len(text)
    <3>1. n + 1 \in 1..(Len(text) - a) /\ a + (n + 1) = b /\ text[b] \notin Digit
      BY <1>1, <2>2
    <3>2. r[n + 1] = text[b]
      BY <1>2, <3>1
    <3> QED
      BY <3>1, <3>2
  <2> QED
    BY <1>1, <2>1, <2>2
<1>6. DigitsOf(r) = d
  <2> HIDE DEF n
  <2> QED
    BY <1>11, <1>3, <1>4, <1>5, DigitsFirst
<1>7. d \in Seq(Nat) /\ Len(d) = n /\ \A i \in 1..n : d[i] = r[i]
  <2> HIDE DEF n
  <2> QED
    <3>1. n \in Int /\ 1 \in Int /\ 1 <= n /\ n - 1 + 1 = n /\ \A i \in 1..n : 1 + i - 1 = i
      BY <1>3
    <3>2. \A i \in 1..n : r[i] \in Nat
      <4>1. 1..n \subseteq 1..Len(r)
        BY <1>3
      <4> QED
        BY <1>12, <4>1
    <3> QED
      BY <3>1, <3>2, SubSeqProperties
<1>8. NumberOf(r) = Value(d, 0, n + 1)
  <2>1. \A i \in 1..Len(d) : d[i] \in Digit
    BY <1>4, <1>7
  <2>2. FoldLeft(Ten, 0, d) = Value(d, 0, Len(d) + 1)
    <3> HIDE DEF d, n
    <3> QED
      BY <1>3, <1>7, <2>1, NumberOfDigits
  <2> QED
    BY <1>6, <1>7, <2>2 DEF NumberOf
<1> HIDE DEF d, n
<1>9. Value(d, 0, n + 1) = Value(text, a, b)
  <2>1. \A i \in 1..n : d[i] = text[a + i]
    BY <1>4, <1>7
  <2>2. CASE n = 1
    <3>1. b - a = 2 /\ n + 1 - 0 = 2 /\ a + 1 = b - 1
      BY <1>3, <2>2
    <3>2. d[1] = text[b - 1]
      <4>1. 1 \in 1..n
        BY <2>2
      <4>2. d[1] = text[a + 1]
        BY <2>1, <4>1
      <4> QED
        BY <3>1, <4>2
    <3>3. Value(d, 0, n + 1) = 0 + 0 + d[1]
      BY <2>2 DEF Value
    <3>4. Value(text, a, b) = 0 + 0 + text[b - 1]
      BY <3>1 DEF Value
    <3> QED
      BY <3>2, <3>3, <3>4
  <2>3. CASE n = 2
    <3>1. b - a = 3 /\ n + 1 - 0 = 3 /\ a + 1 = b - 2 /\ a + 2 = b - 1
      BY <1>3, <2>3
    <3>2. d[1] = text[b - 2] /\ d[2] = text[b - 1]
      <4>1. 1 \in 1..n /\ 2 \in 1..n
        BY <2>3
      <4>2. d[1] = text[a + 1] /\ d[2] = text[a + 2]
        BY <2>1, <4>1
      <4> QED
        BY <3>1, <4>2
    <3>3. Value(d, 0, n + 1) = 0 + 10 * d[1] + d[2]
      BY <2>3 DEF Value
    <3>4. Value(text, a, b) = 0 + 10 * text[b - 2] + text[b - 1]
      BY <3>1 DEF Value
    <3> QED
      BY <3>2, <3>3, <3>4
  <2>4. CASE n = 3
    <3>1. b - a = 4 /\ n + 1 - 0 = 4 /\ a + 1 = b - 3 /\ a + 2 = b - 2 /\ a + 3 = b - 1
      BY <1>3, <2>4
    <3>2. d[1] = text[b - 3] /\ d[2] = text[b - 2] /\ d[3] = text[b - 1]
      <4>1. 1 \in 1..n /\ 2 \in 1..n /\ 3 \in 1..n
        BY <2>4
      <4>2. d[1] = text[a + 1] /\ d[2] = text[a + 2] /\ d[3] = text[a + 3]
        BY <2>1, <4>1
      <4> QED
        BY <3>1, <4>2
    <3>3. Value(d, 0, n + 1) = 100 * d[1] + 10 * d[2] + d[3]
      BY <2>4 DEF Value
    <3>4. Value(text, a, b) = 100 * text[b - 3] + 10 * text[b - 2] + text[b - 1]
      BY <3>1 DEF Value
    <3> QED
      BY <3>2, <3>3, <3>4
  <2> QED
    BY <1>3, <2>2, <2>3, <2>4
<1>10. ASSUME b <= Len(text) PROVE After(r) = Rest(text, b)
  <2>1. After(r) = SubSeq(r, n + 2, Len(r))
    BY <1>6, <1>7 DEF After
  <2>2. /\ SubSeq(r, n + 2, Len(r)) \in Seq(Nat)
        /\ Len(SubSeq(r, n + 2, Len(r))) = Len(text) - b
        /\ \A i \in 1..(Len(text) - b) : SubSeq(r, n + 2, Len(r))[i] = text[b + i]
    <3>1. n + 2 \in 1..(Len(r) + 1) /\ Len(r) \in Nat /\ n + 2 \in Int
      BY <1>1, <1>11, <1>3, <1>10
    <3>5. \A i \in (n + 2)..Len(r) : r[i] \in Nat
      <4>1. (n + 2)..Len(r) \subseteq 1..Len(r)
        BY <3>1
      <4> QED
        BY <1>12, <4>1
    <3>2. /\ SubSeq(r, n + 2, Len(r)) \in Seq(Nat)
          /\ Len(SubSeq(r, n + 2, Len(r))) = Len(r) - (n + 2) + 1
          /\ \A i \in 1..(Len(r) - (n + 2) + 1) : SubSeq(r, n + 2, Len(r))[i] = r[n + 2 + i - 1]
      BY <3>1, <3>5, SubSeqProperties
    <3>3. Len(r) - (n + 2) + 1 = Len(text) - b
      <4>1. Len(r) = Len(text) - a /\ a \in Int /\ n \in Int /\ Len(text) \in Int /\ b = a + n + 1
        BY <1>1, <1>11, <1>3
      <4> QED
        BY <4>1
    <3>4. \A i \in 1..(Len(text) - b) : n + 2 + i - 1 \in 1..(Len(text) - a) /\ a + (n + 2 + i - 1) = b + i
      BY <1>1, <1>3
    <3> QED
      BY <1>2, <3>2, <3>3, <3>4
  <2>3. /\ Rest(text, b) \in Seq(Nat) /\ Len(Rest(text, b)) = Len(text) - b
        /\ \A i \in 1..(Len(text) - b) : Rest(text, b)[i] = text[b + i]
    <3>1. b \in 0..Len(text)
      BY <1>1, <1>10
    <3> QED
      BY <3>1, RestIs
  <2> QED
    BY <2>1, <2>2, <2>3, SeqEqual
<1> QED
  BY <1>6, <1>7, <1>8, <1>9, <1>10 DEF r, n

\* Nothing but digits is read to the end.
LEMMA AllDigits ==
  ASSUME NEW text \in Seq(Nat)
  PROVE  DigitsOf(text) = text <=> \A i \in 1..Len(text) : text[i] \in Digit
<1>1. ASSUME \A i \in 1..Len(text) : text[i] \in Digit PROVE DigitsOf(text) = text
  <2>1. Len(text) \in 0..Len(text)
    OBVIOUS
  <2> DEFINE n == Len(text)
  <2>2. n \in 0..Len(text) /\ n = Len(text)
    BY <2>1
  <2> HIDE DEF n
  <2>3. DigitsOf(text) = SubSeq(text, 1, n)
    BY <1>1, <2>2, DigitsFirst
  <2> QED
    BY <2>2, <2>3, SubSeqFull
<1>2. ASSUME DigitsOf(text) = text, NEW k \in 1..Len(text), text[k] \notin Digit PROVE FALSE
  <2> DEFINE I == {i \in 1..Len(text) : text[i] \notin Digit}
  <2>1. Leading(text) = IF I # {} THEN Min(I) ELSE 0
    BY DEF Leading, SelectInSeq
  <2>2. k \in I /\ I \in SUBSET Nat
    BY <1>2
  <2>3. PICK m \in I : \A y \in I : m <= y
    BY <2>2, Least
  <2>4. Min(I) \in I
    <3> HIDE DEF I
    <3> QED
      BY <2>3 DEF Min
  <2> DEFINE n == Leading(text) - 1
  <2>5. Leading(text) \in I
    BY <2>1, <2>2, <2>4
  <2>6. Leading(text) \in 1..Len(text) /\ Leading(text) # 0 /\ Len(text) \in Nat /\ Leading(text) \in Nat
    BY <2>5
  <2>7. DigitsOf(text) = SubSeq(text, 1, n)
    BY <2>6 DEF DigitsOf
  <2>8. n \in 0..(Len(text) - 1) /\ n \in Int /\ \A i \in 1..n : text[i] \in Nat
    BY <2>6
  <2> HIDE DEF n
  <2>9. Len(SubSeq(text, 1, n)) = IF 1 <= n THEN n - 1 + 1 ELSE 0
    BY <2>8, SubSeqProperties
  <2> QED
    BY <1>2, <2>6, <2>7, <2>8, <2>9
<1> QED
  BY <1>1, <1>2

\* is_valid_prefix_len says of the texts that fit its editor what it should, and
\* parse_prefix_len reads the number.
LEMMA PrefixIsProper ==
  ASSUME NEW text \in Seq(Nat), Len(text) <= 2
  PROVE  /\ IsValidPrefix(text) <=> Proper("prefix", text)
         /\ Proper("prefix", text) => ParsePrefix(text) = Number(text, 1..Len(text))
<1> DEFINE n == Len(text)
           D == 1..n
<1>1. n \in 0..2
  <2>1. n \in Nat /\ n <= 2
    OBVIOUS
  <2> HIDE DEF n
  <2> QED
    BY <2>1
<1>2. Proper("prefix", text) <=> IsNumber(text, D, 2, 32)
  BY DEF Proper
<1>3. Cardinality(D) = n
  <2> HIDE DEF n
  <2>1. Cardinality(1..n) = IF 1 > n THEN 0 ELSE n - 1 + 1
    BY <1>1, FS_Interval
  <2> QED
    BY <1>1, <2>1
<1>4. IsNumber(text, D, 2, 32) <=>
        n \in 1..2 /\ (\A i \in D : text[i] \in Digit) /\ Number(text, D) <= 32
  BY <1>3 DEF IsNumber
<1>5. ASSUME \A i \in D : text[i] \in Digit, n # 0
      PROVE  DigitsOf(text) = text /\ NumberOf(text) = Number(text, D) /\ Number(text, D) \in Nat
  <2>1. DigitsOf(text) = text
    BY <1>5, AllDigits
  <2>2. NumberOf(text) = Value(text, 0, n + 1)
    <3>1. n \in 1..3
      BY <1>1, <1>5
    <3> QED
      BY <1>5, <2>1, <3>1, NumberOfDigits DEF NumberOf
  <2>3. IsDecimal(text, 0, n + 1)
    BY <1>1, <1>5 DEF IsDecimal
  <2>4. 0 \in Nat /\ n + 1 \in Nat /\ (0 + 1)..(n + 1 - 1) = D
    BY <1>1
  <2>5. Number(text, (0 + 1)..(n + 1 - 1)) = Value(text, 0, n + 1) /\ Value(text, 0, n + 1) \in Nat
    BY <2>3, <2>4, NumberIs
  <2>6. Number(text, D) = Value(text, 0, n + 1) /\ Value(text, 0, n + 1) \in Nat
    <3> DEFINE v == Value(text, 0, n + 1)
    <3>1. Number(text, D) = v
      BY <2>4, <2>5, Zenon
    <3>2. v \in Nat
      BY <2>5
    <3> HIDE DEF v
    <3>3. v \in Nat
      BY <3>2
    <3> QED
      BY <3>1, <3>3 DEF v
  <2> QED
    BY <2>1, <2>2, <2>6
<1>6. IsValidPrefix(text) <=> Len(DigitsOf(text)) > 0 /\ DigitsOf(text) = text /\ NumberOf(text) <= 32
  BY DEF IsValidPrefix
<1>7. DigitsOf(text) = text <=> \A i \in D : text[i] \in Digit
  BY AllDigits
<1>8. IsValidPrefix(text) <=> Proper("prefix", text)
  <2>1. CASE n = 0
    BY <1>2, <1>4, <1>6, <2>1
  <2>2. CASE n # 0 /\ \A i \in D : text[i] \in Digit
    <3>1. n > 0 /\ n \in 1..2
      BY <1>1, <2>2
    <3> QED
      BY <1>2, <1>4, <1>5, <1>6, <2>2, <3>1
  <2>3. CASE ~ \A i \in D : text[i] \in Digit
    BY <1>2, <1>4, <1>6, <1>7, <2>3
  <2> QED
    BY <2>1, <2>2, <2>3
<1>9. ASSUME Proper("prefix", text) PROVE ParsePrefix(text) = Number(text, D)
  <2>3. n # 0 /\ (\A i \in D : text[i] \in Digit) /\ Number(text, D) <= 32
    <3> HIDE DEF n, D
    <3>1. n \in 1..2 => n # 0
      OBVIOUS
    <3> QED
      BY <1>2, <1>4, <1>9, <3>1
  <2>1. NumberOf(text) = Number(text, D) /\ Number(text, D) \in 0..32
    <3> DEFINE v == Number(text, D)
    <3>1. NumberOf(text) = v /\ v \in Nat
      BY <1>5, <2>3
    <3>2. v <= 32
      BY <2>3
    <3> HIDE DEF v
    <3>3. v \in 0..32
      BY <3>1, <3>2
    <3> QED
      BY <3>1, <3>3 DEF v
  <2>2. \A k \in 0..32 : k % 256 = k
    OBVIOUS
  <2> QED
    BY <2>1, <2>2 DEF ParsePrefix
<1> QED
  BY <1>8, <1>9

-----------------------------------------------------------------------------
(* Addresses: where the dots are *)

\* p[1], p[2] and p[3] are the places of the only dots; p[0] and p[4] are the
\* places before and behind the text.
Split(text, p) ==
  /\ p \in [0..4 -> Nat] /\ p[0] = 0 /\ p[4] = Len(text) + 1
  /\ p[0] < p[1] /\ p[1] < p[2] /\ p[2] < p[3] /\ p[3] < p[4]
  /\ \A i \in 1..Len(text) : text[i] = Dot <=> i \in {p[1], p[2], p[3]}
Octets(text, p) == \A n \in 1..4 : IsDecimal(text, p[n - 1], p[n]) /\ Value(text, p[n - 1], p[n]) <= 255
IsAddress(text) == \E p : Split(text, p) /\ Octets(text, p)

\* Three dots, in their order.
LEMMA ThreeInOrder ==
  ASSUME NEW S \in SUBSET Nat, IsFiniteSet(S), Cardinality(S) = 3
  PROVE  \E x, y, z \in S : S = {x, y, z} /\ x < y /\ y < z
<1>1. S # {}
  BY FS_EmptySet
<1>2. PICK x \in S : \A u \in S : x <= u
  BY <1>1, Least
<1> DEFINE S2 == S \ {x}
<1>3. IsFiniteSet(S2) /\ Cardinality(S2) = 2
  <2>1. IsFiniteSet(S2) /\ Cardinality(S2) = 3 - 1
    BY FS_RemoveElement
  <2> QED
    BY <2>1
<1>4. S2 # {} /\ S2 \in SUBSET Nat
  BY <1>3, FS_EmptySet
<1>5. PICK y \in S2 : \A u \in S2 : y <= u
  <2> HIDE DEF S2
  <2> QED
    BY <1>4, Least
<1> DEFINE S3 == S2 \ {y}
<1>6. IsFiniteSet(S3) /\ Cardinality(S3) = 1
  <2> HIDE DEF S2
  <2>1. IsFiniteSet(S3) /\ Cardinality(S3) = 2 - 1
    BY <1>3, <1>5, FS_RemoveElement
  <2> QED
    BY <2>1
<1>7. PICK z : S3 = {z}
  <2> HIDE DEF S3
  <2> QED
    BY <1>6, FS_Singleton
<1>8. z \in S2 /\ z # y /\ y \in S /\ z \in S /\ x # y /\ x # z
  BY <1>5, <1>7
<1>9. S = {x, y, z}
  BY <1>7, <1>8
<1>10. x < y /\ y < z
  <2>1. x <= y /\ y <= z /\ x \in Nat /\ y \in Nat /\ z \in Nat
    BY <1>2, <1>5, <1>8
  <2> QED
    BY <1>8, <2>1
<1> QED
  BY <1>8, <1>9, <1>10

LEMMA SplitExists ==
  ASSUME NEW text \in Seq(Nat), Cardinality(Dots(text)) = 3 PROVE \E p : Split(text, p)
<1>1. Dots(text) \in SUBSET Nat /\ IsFiniteSet(Dots(text))
  <2>1. IsFiniteSet(1..Len(text))
    BY FS_Interval
  <2> QED
    BY <2>1, FS_Subset DEF Dots
<1>2. PICK x, y, z \in Dots(text) : Dots(text) = {x, y, z} /\ x < y /\ y < z
  <2> DEFINE S == Dots(text)
  <2> HIDE DEF S
  <2>1. S \in SUBSET Nat /\ IsFiniteSet(S) /\ Cardinality(S) = 3
    BY <1>1 DEF S
  <2>2. \E x, y, z \in S : S = {x, y, z} /\ x < y /\ y < z
    BY <2>1, ThreeInOrder
  <2> QED
    BY <2>2 DEF S
<1>3. x \in 1..Len(text) /\ y \in 1..Len(text) /\ z \in 1..Len(text) /\ Len(text) \in Nat
  BY <1>2 DEF Dots
<1> DEFINE p == [i \in 0..4 |-> CASE i = 0 -> 0 [] i = 1 -> x [] i = 2 -> y [] i = 3 -> z
                                  [] i = 4 -> Len(text) + 1]
<1>4. p[0] = 0 /\ p[1] = x /\ p[2] = y /\ p[3] = z /\ p[4] = Len(text) + 1
  OBVIOUS
<1>5. p \in [0..4 -> Nat]
  BY <1>3
<1> HIDE DEF p
<1>6. \A i \in 1..Len(text) : text[i] = Dot <=> i \in {x, y, z}
  BY <1>2 DEF Dots
<1>7. p[0] < p[1] /\ p[1] < p[2] /\ p[2] < p[3] /\ p[3] < p[4]
  BY <1>2, <1>3, <1>4
<1>8. \A i \in 1..Len(text) : text[i] = Dot <=> i \in {p[1], p[2], p[3]}
  BY <1>4, <1>6
<1> QED
  BY <1>4, <1>5, <1>7, <1>8 DEF Split

LEMMA SplitDots ==
  ASSUME NEW text \in Seq(Nat), NEW p, Split(text, p)
  PROVE  /\ Cardinality(Dots(text)) = 3
         /\ \A n \in 1..4 : Octet(text, n) = (p[n - 1] + 1)..(p[n] - 1)
<1> DEFINE x == p[1]
           y == p[2]
           z == p[3]
           m == Len(text)
<1>1. /\ x \in 1..m /\ y \in 1..m /\ z \in 1..m /\ x < y /\ y < z /\ m \in Nat
      /\ p[0] = 0 /\ p[4] = m + 1
  <2>1. p[0] \in Nat /\ p[1] \in Nat /\ p[2] \in Nat /\ p[3] \in Nat /\ p[4] \in Nat /\ m \in Nat
    BY DEF Split
  <2> QED
    BY <2>1 DEF Split
<1>2. Dots(text) = {x, y, z}
  BY <1>1 DEF Dots, Split
<1> DEFINE q1 == p[1]
<1> HIDE DEF x, y, z, m
<1>3. Cardinality(Dots(text)) = 3
  <2>1. x # y /\ y # z /\ x # z
    BY <1>1
  <2>2. Cardinality({x, y, z}) = 3
    BY <2>1, CardThree
  <2> QED
    BY <1>2, <2>2
<1> DEFINE C(i) == Cardinality(Dots(text) \cap 1..i)
<1>4. ASSUME NEW i \in 1..m, i < x PROVE C(i) = 0
  <2>1. Dots(text) \cap 1..i = {}
    BY <1>1, <1>2, <1>4
  <2> QED
    BY <2>1, FS_EmptySet
<1>5. ASSUME NEW i \in 1..m, x < i, i < y PROVE C(i) = 1
  <2>1. Dots(text) \cap 1..i = {x}
    BY <1>1, <1>2, <1>5
  <2> QED
    BY <2>1, CardOne
<1>6. ASSUME NEW i \in 1..m, y < i, i < z PROVE C(i) = 2
  <2>1. Dots(text) \cap 1..i = {x, y} /\ x # y
    BY <1>1, <1>2, <1>6
  <2>2. Cardinality({x, y}) = 2
    BY <2>1, CardTwo
  <2> QED
    BY <2>1, <2>2
<1>7. ASSUME NEW i \in 1..m, z < i PROVE C(i) = 3
  <2>1. Dots(text) \cap 1..i = {x, y, z} /\ x # y /\ y # z /\ x # z
    BY <1>1, <1>2, <1>7
  <2>2. Cardinality({x, y, z}) = 3
    BY <2>1, CardThree
  <2> QED
    BY <2>1, <2>2
<1> HIDE DEF C
<1>8. \A n : Octet(text, n) = {i \in (1..m) \ {x, y, z} : C(i) = n - 1}
  BY <1>2 DEF Octet, C, m
<1>9. \A i \in 1..m : i \notin {x, y, z} => \/ i < x /\ C(i) = 0
                                            \/ x < i /\ i < y /\ C(i) = 1
                                            \/ y < i /\ i < z /\ C(i) = 2
                                            \/ z < i /\ C(i) = 3
  BY <1>1, <1>4, <1>5, <1>6, <1>7
<1>10. Octet(text, 1) = 1..(x - 1)
  <2>1. \A i \in (1..m) \ {x, y, z} : C(i) = 1 - 1 <=> i < x
    <3> SUFFICES ASSUME NEW i \in 1..m, i \notin {x, y, z} PROVE C(i) = 1 - 1 <=> i < x
      OBVIOUS
    <3> QED
      BY <1>1, <1>9
  <2>2. 1..(x - 1) = {i \in (1..m) \ {x, y, z} : i < x}
    BY <1>1
  <2>3. Octet(text, 1) = {i \in (1..m) \ {x, y, z} : C(i) = 1 - 1}
    BY <1>8
  <2> QED
    BY <2>1, <2>2, <2>3
<1>11. Octet(text, 2) = (x + 1)..(y - 1)
  <2>1. \A i \in (1..m) \ {x, y, z} : C(i) = 2 - 1 <=> x < i /\ i < y
    <3> SUFFICES ASSUME NEW i \in 1..m, i \notin {x, y, z} PROVE C(i) = 2 - 1 <=> x < i /\ i < y
      OBVIOUS
    <3> QED
      BY <1>1, <1>9
  <2>2. (x + 1)..(y - 1) = {i \in (1..m) \ {x, y, z} : x < i /\ i < y}
    BY <1>1
  <2>3. Octet(text, 2) = {i \in (1..m) \ {x, y, z} : C(i) = 2 - 1}
    BY <1>8
  <2> QED
    BY <2>1, <2>2, <2>3
<1>12. Octet(text, 3) = (y + 1)..(z - 1)
  <2>1. \A i \in (1..m) \ {x, y, z} : C(i) = 3 - 1 <=> y < i /\ i < z
    <3> SUFFICES ASSUME NEW i \in 1..m, i \notin {x, y, z} PROVE C(i) = 3 - 1 <=> y < i /\ i < z
      OBVIOUS
    <3> QED
      BY <1>1, <1>9
  <2>2. (y + 1)..(z - 1) = {i \in (1..m) \ {x, y, z} : y < i /\ i < z}
    BY <1>1
  <2>3. Octet(text, 3) = {i \in (1..m) \ {x, y, z} : C(i) = 3 - 1}
    BY <1>8
  <2> QED
    BY <2>1, <2>2, <2>3
<1>13. Octet(text, 4) = (z + 1)..m
  <2>1. \A i \in (1..m) \ {x, y, z} : C(i) = 4 - 1 <=> z < i
    <3> SUFFICES ASSUME NEW i \in 1..m, i \notin {x, y, z} PROVE C(i) = 4 - 1 <=> z < i
      OBVIOUS
    <3> QED
      BY <1>1, <1>9
  <2>2. (z + 1)..m = {i \in (1..m) \ {x, y, z} : z < i}
    BY <1>1
  <2>3. Octet(text, 4) = {i \in (1..m) \ {x, y, z} : C(i) = 4 - 1}
    BY <1>8
  <2> QED
    BY <2>1, <2>2, <2>3
<1>14. \A n \in 1..4 : n = 1 \/ n = 2 \/ n = 3 \/ n = 4
  OBVIOUS
<1>15. p[0] + 1 = 1 /\ p[4] - 1 = m /\ 1 - 1 = 0 /\ 2 - 1 = 1 /\ 3 - 1 = 2 /\ 4 - 1 = 3
  BY <1>1
<1> QED
  BY <1>3, <1>10, <1>11, <1>12, <1>13, <1>14, <1>15 DEF x, y, z

\* Where the octets begin and end.
LEMMA SplitPlaces ==
  ASSUME NEW text \in Seq(Nat), NEW p, Split(text, p), NEW n \in 1..4
  PROVE  /\ p[n - 1] \in Nat /\ p[n] \in Nat /\ p[n - 1] < p[n]
         /\ p[n - 1] \in 0..Len(text) /\ p[n] \in 1..(Len(text) + 1)
<1>1. /\ p[0] \in Nat /\ p[1] \in Nat /\ p[2] \in Nat /\ p[3] \in Nat /\ p[4] \in Nat
      /\ p[0] < p[1] /\ p[1] < p[2] /\ p[2] < p[3] /\ p[3] < p[4] /\ p[4] = Len(text) + 1
  BY DEF Split
<1>2. n = 1 \/ n = 2 \/ n = 3 \/ n = 4
  OBVIOUS
<1>3. Len(text) \in Nat
  OBVIOUS
<1>4. CASE n = 1
  <2>1. p[n - 1] = p[0] /\ p[n] = p[1]
    BY <1>4
  <2>2. p[0] \in 0..Len(text) /\ p[1] \in 1..(Len(text) + 1)
    BY <1>1, <1>3
  <2> QED
    BY <1>1, <2>1, <2>2
<1>5. CASE n = 2
  BY <1>1, <1>3, <1>5
<1>6. CASE n = 3
  BY <1>1, <1>3, <1>6
<1>7. CASE n = 4
  BY <1>1, <1>3, <1>7
<1> QED
  BY <1>2, <1>4, <1>5, <1>6, <1>7

\* What an octet of a split text says is the number between its dots.
LEMMA OctetIs ==
  ASSUME NEW text \in Seq(Nat), NEW p, Split(text, p), NEW n \in 1..4
  PROVE  /\ IsNumber(text, Octet(text, n), 3, 255) <=>
              IsDecimal(text, p[n - 1], p[n]) /\ Value(text, p[n - 1], p[n]) <= 255
         /\ IsDecimal(text, p[n - 1], p[n]) =>
              Number(text, Octet(text, n)) = Value(text, p[n - 1], p[n])
<1> DEFINE a == p[n - 1]
           b == p[n]
           D == (a + 1)..(b - 1)
<1>1. a \in Nat /\ b \in Nat /\ a < b /\ a \in 0..Len(text) /\ b \in 1..(Len(text) + 1)
  BY SplitPlaces
<1>2. Octet(text, n) = D
  BY SplitDots
<1> HIDE DEF a, b
<1>3. Cardinality(D) \in 1..3 <=> b - a \in 2..4
  <2>1. Cardinality(D) = IF a + 1 > b - 1 THEN 0 ELSE b - 1 - (a + 1) + 1
    BY <1>1, FS_Interval
  <2> QED
    BY <1>1, <2>1
<1>4. IsDecimal(text, a, b) => Number(text, D) = Value(text, a, b)
  BY <1>1, NumberIs
<1>5. IsDecimal(text, a, b) <=> b - a \in 2..4 /\ \A i \in D : text[i] \in Digit
  BY <1>1 DEF IsDecimal
<1>6. IsNumber(text, D, 3, 255) <=>
        Cardinality(D) \in 1..3 /\ (\A i \in D : text[i] \in Digit) /\ Number(text, D) <= 255
  BY DEF IsNumber
<1> HIDE DEF D
<1>7. IsNumber(text, D, 3, 255) <=> IsDecimal(text, a, b) /\ Value(text, a, b) <= 255
  BY <1>3, <1>4, <1>5, <1>6
<1> QED
  BY <1>2, <1>4, <1>7, Zenon DEF a, b

\* An address is what the properties mean by one.
LEMMA ProperAddress ==
  ASSUME NEW text \in Seq(Nat), NEW f \in {"ip", "gateway"}
  PROVE  Proper(f, text) <=> IsAddress(text)
<1>1. Proper(f, text) <=>
        Cardinality(Dots(text)) = 3 /\ \A n \in 1..4 : IsNumber(text, Octet(text, n), 3, 255)
  BY DEF Proper
<1>2. ASSUME Proper(f, text) PROVE IsAddress(text)
  <2>1. PICK p : Split(text, p)
    BY <1>1, <1>2, SplitExists
  <2>2. Octets(text, p)
    BY <1>1, <1>2, <2>1, OctetIs DEF Octets
  <2> QED
    BY <2>1, <2>2 DEF IsAddress
<1>3. ASSUME IsAddress(text) PROVE Proper(f, text)
  <2>1. PICK p : Split(text, p) /\ Octets(text, p)
    BY <1>3 DEF IsAddress
  <2>2. Cardinality(Dots(text)) = 3
    BY <2>1, SplitDots
  <2>3. \A n \in 1..4 : IsNumber(text, Octet(text, n), 3, 255)
    BY <2>1, OctetIs DEF Octets
  <2> QED
    BY <1>1, <2>2, <2>3
<1> QED
  BY <1>2, <1>3

-----------------------------------------------------------------------------
(* Addresses: what is_valid_ipv4 makes of a text *)

\* The registers of the loop.
At(value, digits, octets) == [value |-> value, digits |-> digits, octets |-> octets]

\* The three branches of the loop: a digit, a dot, and .ipv4_fail.
LEMMA CharDigit ==
  ASSUME NEW v \in Nat, NEW d \in 0..2, NEW o \in 0..3, NEW c \in Digit
  PROVE  Ipv4Char(At(v, d, o), c) = At(Ten(v, c), d + 1, o)
<1>1. /\ At(v, d, o).octets >= 0 /\ At(v, d, o).digits < 3 /\ At(v, d, o).value = v
      /\ At(v, d, o).digits = d /\ At(v, d, o).octets = o
  BY DEF At
<1>3. Ipv4Char(At(v, d, o), c) =
        [At(v, d, o) EXCEPT !.value = Ten(At(v, d, o).value, c), !.digits = At(v, d, o).digits + 1]
  <2> DEFINE s == At(v, d, o)
  <2>1. s.octets >= 0 /\ c \in Digit /\ s.digits < 3 /\ c # Dot
    BY <1>1 DEF Dot, Digit
  <2> HIDE DEF s
  <2>2. Ipv4Char(s, c) = [s EXCEPT !.value = Ten(@, c), !.digits = @ + 1]
    BY <2>1 DEF Ipv4Char
  <2> QED
    BY <2>2 DEF s
<1>2. Ipv4Char(At(v, d, o), c) = [At(v, d, o) EXCEPT !.value = Ten(v, c), !.digits = d + 1]
  BY <1>1, <1>3
<1> QED
  BY <1>2 DEF At

LEMMA CharDot ==
  ASSUME NEW v \in 0..255, NEW d \in 1..3, NEW o \in 0..2
  PROVE  Ipv4Char(At(v, d, o), Dot) = At(0, 0, o + 1)
<1>1. Dot \notin Digit
  BY DEF Dot, Digit
<1>2. OctetOk(At(v, d, o))
  BY DEF OctetOk, At
<1> QED
  BY <1>1, <1>2 DEF Ipv4Char, At

LEMMA CharFails ==
  ASSUME NEW s \in Reading, NEW c \in Nat,
         ~ (s.octets >= 0 /\ c \in Digit /\ s.digits < 3),
         ~ (s.octets \in 0..2 /\ c = Dot /\ OctetOk(s))
  PROVE  Ipv4Char(s, c).octets = -1
BY DEF Ipv4Char, Failed

LEMMA ReadingIs == \A s \in Reading : s = At(s.value, s.digits, s.octets)
BY DEF Reading, At

\* It is a number.
LEMMA ValueIs ==
  ASSUME NEW text \in Seq(Nat), NEW a, NEW b, IsDecimal(text, a, b)
  PROVE  Value(text, a, b) \in Nat
<1>2. a \in Nat /\ b \in Nat
  BY DEF IsDecimal
<1>1. Number(text, (a + 1)..(b - 1)) = Value(text, a, b) /\ Value(text, a, b) \in Nat
  BY <1>2, NumberIs
<1> QED
  BY <1>1, Zenon

\* One more digit of a number.
LEMMA ValueTen ==
  ASSUME NEW text \in Seq(Nat), NEW a \in Nat, NEW k \in Nat, k <= Len(text), k - a \in 1..3,
         \A i \in (a + 1)..k : text[i] \in Digit
  PROVE  /\ k - a = 1 => Value(text, a, k + 1) = Ten(0, text[k])
         /\ k - a > 1 => Value(text, a, k + 1) = Ten(Value(text, a, k), text[k])
<1>1. k - a = 1 \/ k - a = 2 \/ k - a = 3
  OBVIOUS
<1>2. CASE k - a = 1
  <2>1. k \in (a + 1)..k /\ k + 1 - a = 2 /\ k + 1 - 1 = k
    BY <1>2
  <2>2. text[k] \in 0..9
    BY <2>1 DEF Digit
  <2>3. Value(text, a, k + 1) = 0 + 0 + text[k]
    BY <2>1 DEF Value
  <2>4. Ten(0, text[k]) = text[k]
    BY <2>2, TenOfDigits, Zenon
  <2> QED
    BY <1>2, <2>2, <2>3, <2>4
<1>3. CASE k - a = 2
  <2>1. /\ k \in (a + 1)..k /\ k - 1 \in (a + 1)..k /\ k + 1 - a = 3 /\ k + 1 - 1 = k
        /\ k + 1 - 2 = k - 1
    BY <1>3
  <2>2. text[k] \in 0..9 /\ text[k - 1] \in 0..9
    BY <2>1 DEF Digit
  <2>3. Value(text, a, k + 1) = 0 + 10 * text[k - 1] + text[k]
    BY <2>1 DEF Value
  <2>4. Value(text, a, k) = 0 + 0 + text[k - 1]
    BY <1>3 DEF Value
  <2>5. Ten(text[k - 1], text[k]) = 10 * text[k - 1] + text[k]
    BY <2>2, TenOfDigits, Zenon
  <2> QED
    BY <1>3, <2>2, <2>3, <2>4, <2>5
<1>4. CASE k - a = 3
  <2>1. /\ k \in (a + 1)..k /\ k - 1 \in (a + 1)..k /\ k - 2 \in (a + 1)..k
        /\ k + 1 - a = 4 /\ k + 1 - 1 = k /\ k + 1 - 2 = k - 1 /\ k + 1 - 3 = k - 2
    BY <1>4
  <2>2. text[k] \in 0..9 /\ text[k - 1] \in 0..9 /\ text[k - 2] \in 0..9
    BY <2>1 DEF Digit
  <2>3. Value(text, a, k + 1) = 100 * text[k - 2] + 10 * text[k - 1] + text[k]
    BY <2>1 DEF Value
  <2>4. Value(text, a, k) = 0 + 10 * text[k - 2] + text[k - 1]
    BY <1>4 DEF Value
  <2> DEFINE x == text[k - 2]
             y == text[k - 1]
             z == text[k]
  <2>5. /\ x \in 0..9 /\ y \in 0..9 /\ z \in 0..9 /\ Value(text, a, k) = 0 + 10 * x + y
        /\ Value(text, a, k + 1) = 100 * x + 10 * y + z
    BY <2>2, <2>3, <2>4
  <2> HIDE DEF x, y, z
  <2>6. Ten(10 * x + y, z) = 100 * x + 10 * y + z
    <3>1. \A d, e, g \in 0..9 : Ten(10 * d + e, g) = 100 * d + 10 * e + g
      BY TenOfDigits
    <3>2. x \in 0..9 /\ y \in 0..9 /\ z \in 0..9
      BY <2>5
    <3> QED
      BY <3>1, <3>2, Zenon
  <2>7. Value(text, a, k) = 10 * x + y
    BY <2>5
  <2> QED
    BY <1>4, <2>5, <2>6, <2>7 DEF z
<1> QED
  BY <1>1, <1>2, <1>3, <1>4

\* The machine runs over a text.
Runs(f, text) == f[0] = Begin /\ \A k \in 1..Len(text) : f[k] = Ipv4Char(f[k - 1], text[k])

\* What was read of the number before the place k.
Before(text, a, k) == IF k - a = 1 THEN 0 ELSE Value(text, a, k)

\* The machine has read the number that begins behind the place a as far as k.
HasRead(f, text, a, k, o) ==
  f[k] = At(Value(text, a, k + 1), k - a, o) /\ Value(text, a, k + 1) \in Nat
MayRead(f, text, a, k, o) ==
  /\ Runs(f, text) /\ a \in Nat /\ k \in Nat /\ k <= Len(text) /\ k - a \in 1..3 /\ o \in 0..3
  /\ \A i \in (a + 1)..k : text[i] \in Digit
  /\ f[k - 1] = At(Before(text, a, k), k - 1 - a, o)

\* One more digit of a number is read.
LEMMA ReadsDigit ==
  ASSUME NEW text \in Seq(Nat), NEW f, NEW a, NEW k, NEW o, MayRead(f, text, a, k, o)
  PROVE  HasRead(f, text, a, k, o)
<1>0. /\ Runs(f, text) /\ a \in Nat /\ k \in Nat /\ k <= Len(text) /\ k - a \in 1..3 /\ o \in 0..3
      /\ f[k - 1] = At(Before(text, a, k), k - 1 - a, o)
  BY DEF MayRead
<1>9. \A i \in (a + 1)..k : text[i] \in Digit
  BY DEF MayRead
<1> DEFINE v == Before(text, a, k)
<1>1. k \in 1..Len(text) /\ k \in (a + 1)..k /\ Len(text) \in Nat
  BY <1>0
<1>2. v \in Nat
  <2>1. CASE k - a = 1
    BY <2>1 DEF Before
  <2>2. CASE k - a > 1
    <3>1. IsDecimal(text, a, k)
      BY <1>0, <1>1, <1>9, <2>2 DEF IsDecimal
    <3>2. Value(text, a, k) \in Nat
      BY <1>0, <3>1, ValueIs
    <3>3. v = Value(text, a, k)
      BY <2>2 DEF Before
    <3> QED
      BY <3>2, <3>3
  <2> QED
    BY <1>0, <2>1, <2>2
<1>3. Value(text, a, k + 1) = Ten(v, text[k])
  <2>1. /\ k - a = 1 => Value(text, a, k + 1) = Ten(0, text[k])
        /\ k - a > 1 => Value(text, a, k + 1) = Ten(Value(text, a, k), text[k])
    BY <1>0, <1>9, ValueTen
  <2> QED
    BY <1>0, <2>1 DEF Before
<1>4. IsDecimal(text, a, k + 1) /\ k + 1 \in Nat
  BY <1>0, <1>1, <1>9 DEF IsDecimal
<1>5. Value(text, a, k + 1) \in Nat
  BY <1>4, ValueIs
<1> HIDE DEF v
<1>6. f[k] = Ipv4Char(At(v, k - 1 - a, o), text[k])
  BY <1>0, <1>1 DEF Runs, v
<1>7. k - 1 - a \in 0..2 /\ k - 1 - a + 1 = k - a /\ text[k] \in Digit
  BY <1>0, <1>1, <1>9
<1>8. Ipv4Char(At(v, k - 1 - a, o), text[k]) = At(Ten(v, text[k]), k - 1 - a + 1, o)
  BY <1>0, <1>2, <1>7, CharDigit
<1> QED
  BY <1>3, <1>5, <1>6, <1>7, <1>8 DEF HasRead

\* The machine reads a number and stands behind it.
LEMMA ReadsDecimal ==
  ASSUME NEW text \in Seq(Nat), NEW f, Runs(f, text), NEW a \in Nat, NEW b \in Nat,
         IsDecimal(text, a, b), NEW o \in 0..3, f[a] = At(0, 0, o)
  PROVE  f[b - 1] = At(Value(text, a, b), b - a - 1, o) /\ Value(text, a, b) \in Nat
<1>1. b - a \in 2..4 /\ b <= Len(text) + 1 /\ Len(text) \in Nat
  BY DEF IsDecimal
<1>2. \A i \in (a + 1)..(b - 1) : text[i] \in Digit
  BY DEF IsDecimal
<1> DEFINE Read(k) == HasRead(f, text, a, k, o)
<1>3. Read(a + 1)
  <2> DEFINE k == a + 1
  <2>1. /\ k \in Nat /\ k <= Len(text) /\ k - a = 1 /\ k - a \in 1..3 /\ k - 1 = a /\ k - 1 - a = 0
        /\ \A i \in (a + 1)..k : i \in (a + 1)..(b - 1)
    BY <1>1
  <2> HIDE DEF k
  <2>2. \A i \in (a + 1)..k : text[i] \in Digit
    BY <1>2, <2>1
  <2>3. f[k - 1] = At(Before(text, a, k), k - 1 - a, o)
    BY <2>1 DEF Before
  <2>4. MayRead(f, text, a, k, o)
    BY <2>1, <2>2, <2>3 DEF MayRead
  <2>5. Read(k)
    BY <2>4, ReadsDigit
  <2> QED
    BY <2>5 DEF k
<1>4. ASSUME NEW k \in Nat, k - a \in 2..3, k < b, Read(k - 1) PROVE Read(k)
  <2>1. /\ k <= Len(text) /\ k - a # 1 /\ k - a \in 1..3 /\ k - 1 + 1 = k
        /\ \A i \in (a + 1)..k : i \in (a + 1)..(b - 1)
    BY <1>1, <1>4
  <2>2. \A i \in (a + 1)..k : text[i] \in Digit
    BY <1>2, <2>1
  <2>3. f[k - 1] = At(Before(text, a, k), k - 1 - a, o)
    BY <1>4, <2>1 DEF Before, HasRead
  <2>4. MayRead(f, text, a, k, o)
    BY <1>4, <2>1, <2>2, <2>3 DEF MayRead
  <2> QED
    BY <2>4, ReadsDigit
<1> HIDE DEF Read
<1>5. b - a > 2 => Read(a + 2)
  <2>1. b - a > 2 => a + 2 \in Nat /\ a + 2 - a \in 2..3 /\ a + 2 < b /\ a + 2 - 1 = a + 1
    BY <1>1
  <2> QED
    BY <1>3, <1>4, <2>1
<1>6. b - a = 4 => Read(a + 3)
  <2>1. b - a = 4 => /\ a + 3 \in Nat /\ a + 3 - a \in 2..3 /\ a + 3 < b /\ a + 3 - 1 = a + 2
                     /\ b - a > 2
    BY <1>1
  <2> QED
    BY <1>4, <1>5, <2>1
<1>7. Read(b - 1)
  <2>1. b - a = 2 \/ b - a = 3 \/ b - a = 4
    BY <1>1
  <2>2. /\ b - a = 2 => b - 1 = a + 1
        /\ b - a = 3 => b - 1 = a + 2 /\ b - a > 2
        /\ b - a = 4 => b - 1 = a + 3
    OBVIOUS
  <2> QED
    BY <1>3, <1>5, <1>6, <2>1, <2>2
<1>8. b - 1 + 1 = b /\ b - 1 - a = b - a - 1
  OBVIOUS
<1> QED
  BY <1>7, <1>8 DEF Read, HasRead

\* The machine stands before the dot of every octet of an address and takes it.
LEMMA AddressIsValid ==
  ASSUME NEW text \in Seq(Nat), NEW f, Runs(f, text), IsAddress(text)
  PROVE  \E v \in 0..255, d \in 1..3 : f[Len(text)] = At(v, d, 3)
<1>1. PICK p : Split(text, p) /\ Octets(text, p)
  BY DEF IsAddress
<1> DEFINE V(n) == Value(text, p[n - 1], p[n])
           d(n) == p[n] - p[n - 1] - 1
<1>2. \A n \in 1..4 : /\ p[n - 1] \in Nat /\ p[n] \in Nat /\ IsDecimal(text, p[n - 1], p[n])
                      /\ V(n) \in 0..255 /\ d(n) \in 1..3
  <2> SUFFICES ASSUME NEW n \in 1..4
               PROVE  /\ p[n - 1] \in Nat /\ p[n] \in Nat /\ IsDecimal(text, p[n - 1], p[n])
                      /\ V(n) \in 0..255 /\ d(n) \in 1..3
    OBVIOUS
  <2>1. p[n - 1] \in Nat /\ p[n] \in Nat
    BY <1>1, SplitPlaces
  <2>2. IsDecimal(text, p[n - 1], p[n]) /\ Value(text, p[n - 1], p[n]) <= 255
    BY <1>1 DEF Octets
  <2>3. V(n) \in Nat
    BY <2>2, ValueIs
  <2>4. p[n] - p[n - 1] \in 2..4
    BY <2>2 DEF IsDecimal
  <2>5. d(n) \in 1..3
    BY <2>1, <2>4
  <2> HIDE DEF d
  <2>6. V(n) \in 0..255
    <3> DEFINE w == V(n)
    <3>1. w <= 255
      BY <2>2
    <3>2. w \in Nat
      BY <2>3
    <3> HIDE DEF w
    <3>3. w \in 0..255
      BY <3>1, <3>2
    <3> QED
      BY <3>3 DEF w
  <2> QED
    BY <2>1, <2>2, <2>5, <2>6
<1>3. ASSUME NEW n \in 1..4, f[p[n - 1]] = At(0, 0, n - 1)
      PROVE  f[p[n] - 1] = At(V(n), d(n), n - 1)
  <2>1. n - 1 \in 0..3
    OBVIOUS
  <2>2. p[n - 1] \in Nat /\ p[n] \in Nat /\ IsDecimal(text, p[n - 1], p[n])
    BY <1>2
  <2> QED
    BY <1>3, <2>1, <2>2, ReadsDecimal
<1>4. ASSUME NEW n \in 1..3, f[p[n - 1]] = At(0, 0, n - 1) PROVE f[p[n]] = At(0, 0, n)
  <2>1. n \in 1..4 /\ n - 1 \in 0..2 /\ n - 1 + 1 = n
    OBVIOUS
  <2>2. f[p[n] - 1] = At(V(n), d(n), n - 1)
    BY <1>3, <1>4, <2>1
  <2>3. p[n] \in 1..Len(text) /\ text[p[n]] = Dot
    <3>1. n = 1 \/ n = 2 \/ n = 3
      OBVIOUS
    <3>2. p[n] \in 1..Len(text)
      <4>1. /\ p[1] \in Nat /\ p[2] \in Nat /\ p[3] \in Nat /\ p[0] = 0 /\ p[4] = Len(text) + 1
            /\ p[0] < p[1] /\ p[1] < p[2] /\ p[2] < p[3] /\ p[3] < p[4] /\ Len(text) \in Nat
        BY <1>1 DEF Split
      <4> DEFINE x == p[1]
                 y == p[2]
                 z == p[3]
                 m == Len(text)
      <4>3. x \in Nat /\ y \in Nat /\ z \in Nat /\ 0 < x /\ x < y /\ y < z /\ z < m + 1 /\ m \in Nat
        BY <4>1
      <4> HIDE DEF x, y, z, m
      <4>4. x \in 1..m /\ y \in 1..m /\ z \in 1..m
        BY <4>3
      <4>2. p[1] \in 1..Len(text) /\ p[2] \in 1..Len(text) /\ p[3] \in 1..Len(text)
        BY <4>4 DEF x, y, z, m
      <4> QED
        BY <3>1, <4>2
    <3>3. p[n] \in {p[1], p[2], p[3]}
      BY <3>1
    <3> QED
      BY <1>1, <3>2, <3>3 DEF Split
  <2>4. f[p[n]] = Ipv4Char(f[p[n] - 1], text[p[n]])
    BY <2>3 DEF Runs
  <2>5. V(n) \in 0..255 /\ d(n) \in 1..3
    BY <1>2, <2>1
  <2> HIDE DEF V, d
  <2>6. Ipv4Char(At(V(n), d(n), n - 1), Dot) = At(0, 0, n)
    BY <2>1, <2>5, CharDot
  <2> QED
    BY <2>2, <2>3, <2>4, <2>6
<1>5. f[p[0]] = At(0, 0, 0)
  BY <1>1 DEF Split, Runs, Begin, At
<1> HIDE DEF V, d
<1>6. f[p[1]] = At(0, 0, 1)
  <2>1. 1 - 1 = 0 /\ 1 \in 1..3
    OBVIOUS
  <2> QED
    BY <1>4, <1>5, <2>1
<1>7. f[p[2]] = At(0, 0, 2)
  <2>1. 2 - 1 = 1 /\ 2 \in 1..3
    OBVIOUS
  <2> QED
    BY <1>4, <1>6, <2>1
<1>8. f[p[3]] = At(0, 0, 3)
  <2>1. 3 - 1 = 2 /\ 3 \in 1..3
    OBVIOUS
  <2> QED
    BY <1>4, <1>7, <2>1
<1>9. f[p[4] - 1] = At(V(4), d(4), 3)
  <2>1. 4 - 1 = 3 /\ 4 \in 1..4
    OBVIOUS
  <2> QED
    BY <1>3, <1>8, <2>1
<1>10. p[4] - 1 = Len(text)
  BY <1>1 DEF Split
<1>11. V(4) \in 0..255 /\ d(4) \in 1..3
  <2>1. 4 \in 1..4
    OBVIOUS
  <2> QED
    BY <1>2, <2>1
<1> QED
  BY <1>9, <1>10, <1>11

\* What the text before the place k looks like when the machine has not failed.
Partial(text, p, k, v, d, o) ==
  /\ p \in [0..3 -> Nat] /\ p[0] = 0 /\ o \in 0..3 /\ p[o] <= k
  /\ \A i \in 1..o : /\ p[i] \in 1..Len(text) /\ text[p[i]] = Dot
                     /\ IsDecimal(text, p[i - 1], p[i]) /\ Value(text, p[i - 1], p[i]) <= 255
  /\ \A j \in (p[o] + 1)..k : text[j] \in Digit
  /\ d = k - p[o] /\ d <= 3 /\ v = Before(text, p[o], k + 1)
PartialAt(text, k, s) == \E p : Partial(text, p, k, s.value, s.digits, s.octets)

LEMMA PartialStep ==
  ASSUME NEW text \in Seq(Nat), NEW f, Runs(f, text), NEW k \in 1..Len(text),
         f[k - 1] \in Reading, PartialAt(text, k - 1, f[k - 1])
  PROVE  f[k].octets = -1 \/ PartialAt(text, k, f[k])
<1> DEFINE s == f[k - 1]
           o == s.octets
           d == s.digits
           v == s.value
<1>1. PICK p : Partial(text, p, k - 1, v, d, o)
  BY DEF PartialAt
<1> DEFINE a == p[o]
<1>2. /\ v \in Nat /\ d \in Nat /\ o \in 0..3 /\ s = At(v, d, o)
  BY <1>1, ReadingIs DEF Reading, Partial
<1>3. /\ p \in [0..3 -> Nat] /\ p[0] = 0 /\ a <= k - 1 /\ a \in Nat
      /\ d = k - 1 - a /\ d <= 3 /\ v = Before(text, a, k - 1 + 1)
  BY <1>1, <1>2 DEF Partial
<1>4. /\ \A i \in 1..o : /\ p[i] \in 1..Len(text) /\ text[p[i]] = Dot
                         /\ IsDecimal(text, p[i - 1], p[i]) /\ Value(text, p[i - 1], p[i]) <= 255
      /\ \A j \in (a + 1)..(k - 1) : text[j] \in Digit
  BY <1>1 DEF Partial
<1>5. f[k] = Ipv4Char(s, text[k]) /\ text[k] \in Nat /\ k \in Nat /\ k <= Len(text) /\ Len(text) \in Nat
  BY DEF Runs
<1> HIDE DEF s, o, d, v, a
<1>6. CASE text[k] \in Digit /\ d < 3
  <2>1. \A j \in (a + 1)..k : text[j] \in Digit
    <3>1. \A j \in (a + 1)..k : j = k \/ j \in (a + 1)..(k - 1)
      BY <1>3, <1>5
    <3> QED
      BY <1>4, <1>6, <3>1
  <2>2. k - a \in 1..3 /\ k - 1 + 1 = k
    BY <1>3, <1>5, <1>6
  <2>3. f[k - 1] = At(Before(text, a, k), k - 1 - a, o)
    BY <1>2, <1>3, <2>2 DEF s
  <2>4. HasRead(f, text, a, k, o)
    <3>1. MayRead(f, text, a, k, o)
      BY <1>2, <1>3, <1>5, <2>1, <2>2, <2>3 DEF MayRead
    <3> QED
      BY <3>1, ReadsDigit
  <2>5. f[k].value = Value(text, a, k + 1) /\ f[k].digits = k - a /\ f[k].octets = o
    BY <2>4 DEF HasRead, At
  <2>6. Before(text, a, k + 1) = Value(text, a, k + 1)
    <3>1. k + 1 - a # 1
      BY <1>3, <1>5
    <3> QED
      BY <1>3, <1>5, <3>1 DEF Before
  <2>7. a <= k /\ k - a <= 3
    BY <1>3, <1>5, <2>2
  <2>8. Partial(text, p, k, Value(text, a, k + 1), k - a, o)
    BY <1>2, <1>3, <1>4, <2>1, <2>6, <2>7 DEF Partial, a
  <2> QED
    BY <2>5, <2>8 DEF PartialAt
<1>7. CASE o \in 0..2 /\ text[k] = Dot /\ OctetOk(s)
  <2> DEFINE q == [p EXCEPT ![o + 1] = k]
  <2>1. d > 0 /\ v <= 255
    BY <1>2, <1>7 DEF OctetOk, At
  <2>2. d \in 1..3 /\ v \in 0..255 /\ k - 1 + 1 = k /\ k - a \in 2..4
    <3>1. /\ d \in Nat /\ d > 0 /\ d <= 3 /\ d = k - 1 - a /\ k \in Nat /\ a \in Nat
          /\ v \in Nat /\ v <= 255
      BY <1>2, <1>3, <1>5, <2>1
    <3>2. d \in 1..3 /\ v \in 0..255
      BY <3>1
    <3>3. k - a = d + 1 /\ k - 1 + 1 = k
      BY <3>1
    <3> QED
      BY <3>1, <3>2, <3>3
  <2>3. f[k] = At(0, 0, o + 1)
    BY <1>2, <1>5, <1>7, <2>2, CharDot
  <2>4. IsDecimal(text, a, k)
    <3>1. a \in 0..Len(text) /\ k \in 1..(Len(text) + 1)
      BY <1>3, <1>5
    <3> QED
      BY <1>4, <2>2, <3>1 DEF IsDecimal
  <2>5. Value(text, a, k) <= 255
    <3>1. k - a # 1
      BY <1>3, <1>5, <2>2
    <3> QED
      BY <1>3, <2>1, <2>2, <3>1 DEF Before
  <2>6. q \in [0..3 -> Nat] /\ q[0] = 0 /\ o + 1 \in 0..3 /\ q[o + 1] = k /\ q[o] = a
        /\ \A i \in 0..o : q[i] = p[i]
    <3>1. o + 1 \in 0..3 /\ o + 1 # 0 /\ o + 1 # o /\ \A i \in 0..o : i \in 0..3 /\ i # o + 1
      BY <1>7
    <3>2. p \in [0..3 -> Nat] /\ p[0] = 0 /\ k \in Nat /\ o \in 0..o
      BY <1>3, <1>5, <1>7
    <3>3. q = [i \in 0..3 |-> IF i = o + 1 THEN k ELSE p[i]]
      BY <3>2
    <3> HIDE DEF q
    <3> QED
      BY <3>1, <3>2, <3>3 DEF a
  <2> HIDE DEF q
  <2>7. \A i \in 1..(o + 1) : /\ q[i] \in 1..Len(text) /\ text[q[i]] = Dot
                              /\ IsDecimal(text, q[i - 1], q[i]) /\ Value(text, q[i - 1], q[i]) <= 255
    <3> SUFFICES ASSUME NEW i \in 1..(o + 1)
                 PROVE  /\ q[i] \in 1..Len(text) /\ text[q[i]] = Dot
                        /\ IsDecimal(text, q[i - 1], q[i]) /\ Value(text, q[i - 1], q[i]) <= 255
      OBVIOUS
    <3>1. CASE i = o + 1
      <4>1. q[i] = k /\ i - 1 = o /\ q[i - 1] = a
        BY <1>2, <2>6, <3>1
      <4> QED
        BY <1>7, <2>4, <2>5, <4>1
    <3>2. CASE i \in 1..o
      <4>1. i - 1 \in 0..o /\ i \in 0..o
        BY <1>2, <3>2
      <4>2. q[i] = p[i] /\ q[i - 1] = p[i - 1]
        BY <2>6, <4>1
      <4> QED
        BY <1>4, <3>2, <4>2
    <3> QED
      BY <1>2, <3>1, <3>2
  <2>8. /\ (q[o + 1] + 1)..k = {} /\ k - q[o + 1] = 0 /\ q[o + 1] <= k
        /\ Before(text, q[o + 1], k + 1) = 0
    <3>1. k + 1 - k = 1 /\ (k + 1)..k = {} /\ k - k = 0 /\ k <= k
      BY <1>5
    <3> QED
      BY <2>6, <3>1 DEF Before
  <2>9. \A j \in (q[o + 1] + 1)..k : text[j] \in Digit
    BY <2>8
  <2>10. Partial(text, q, k, 0, 0, o + 1)
    BY <2>6, <2>7, <2>8, <2>9 DEF Partial
  <2>11. f[k].value = 0 /\ f[k].digits = 0 /\ f[k].octets = o + 1
    BY <2>3 DEF At
  <2> QED
    BY <2>10, <2>11 DEF PartialAt
<1>8. CASE ~ (text[k] \in Digit /\ d < 3) /\ ~ (o \in 0..2 /\ text[k] = Dot /\ OctetOk(s))
  <2>1. s \in Reading
    BY DEF s
  <2> QED
    BY <1>5, <1>8, <2>1, CharFails DEF d, o
<1> QED
  BY <1>6, <1>7, <1>8

LEMMA NotFailed ==
  ASSUME NEW text \in Seq(Nat), NEW f, Runs(f, text)
  PROVE  f[Len(text)].octets = -1 \/ PartialAt(text, Len(text), f[Len(text)])
<1> DEFINE n == Len(text)
           P == {k \in 0..n : f[k] \in Reading /\ (f[k].octets = -1 \/ PartialAt(text, k, f[k]))}
<1>1. n \in Nat
  OBVIOUS
<1>2. 0 \in P
  <2>1. f[0] = Begin /\ Begin \in Reading /\ 0 \in 0..n
    BY <1>1 DEF Runs, Begin, Reading
  <2> DEFINE p == [i \in 0..3 |-> 0]
  <2>2. p \in [0..3 -> Nat] /\ p[0] = 0
    OBVIOUS
  <2> HIDE DEF p
  <2>3. (0 + 1)..0 = {} /\ 1..0 = {} /\ 0 - 0 = 0 /\ 0 + 1 - 0 = 1
    OBVIOUS
  <2>4. Partial(text, p, 0, 0, 0, 0)
    BY <2>2, <2>3 DEF Partial, Before
  <2>5. Begin.value = 0 /\ Begin.digits = 0 /\ Begin.octets = 0
    BY DEF Begin
  <2>6. PartialAt(text, 0, Begin)
    BY <2>4, <2>5 DEF PartialAt
  <2> QED
    BY <2>1, <2>6
<1>3. ASSUME NEW k \in 1..n, k - 1 \in P PROVE k \in P
  <2>1. f[k - 1] \in Reading /\ (f[k - 1].octets = -1 \/ PartialAt(text, k - 1, f[k - 1]))
    BY <1>3
  <2>2. f[k] = Ipv4Char(f[k - 1], text[k]) /\ text[k] \in Nat /\ k \in 0..n
    BY DEF Runs
  <2>3. f[k] \in Reading
    BY <2>1, <2>2, Ipv4CharReading
  <2>4. CASE f[k - 1].octets = -1
    <3>1. Ipv4Char(f[k - 1], text[k]).octets = -1
      <4> DEFINE s == f[k - 1]
      <4>1. s \in Reading /\ ~ (s.octets >= 0) /\ ~ (s.octets \in 0..2)
        BY <2>1, <2>4
      <4> HIDE DEF s
      <4> QED
        BY <2>2, <4>1, CharFails DEF s
    <3> QED
      BY <2>2, <2>3, <3>1
  <2>5. CASE PartialAt(text, k - 1, f[k - 1])
    BY <2>1, <2>2, <2>3, <2>5, PartialStep
  <2> QED
    BY <2>1, <2>4, <2>5
<1>4. P \in SUBSET (0..n)
  OBVIOUS
<1> HIDE DEF P
<1>5. n \in P
  <2>1. \A k \in 1..n : k - 1 \in P => k \in P
    BY <1>3
  <2> HIDE DEF n
  <2>2. \A k \in 0..n : k \in P
    BY <1>1, <1>2, <1>4, <2>1, UpTo
  <2>3. n \in 0..n
    BY <1>1
  <2> QED
    BY <2>2, <2>3
<1> QED
  BY <1>5 DEF P

\* The dots of an address are at the places x, y and z.
AddressWith(text, x, y, z) ==
  \E p : Split(text, p) /\ Octets(text, p) /\ p[1] = x /\ p[2] = y /\ p[3] = z

\* Four numbers with dots between them.
LEMMA AddressFrom ==
  ASSUME NEW text \in Seq(Nat), NEW x \in 1..Len(text), NEW y \in 1..Len(text), NEW z \in 1..Len(text),
         IsDecimal(text, 0, x), IsDecimal(text, x, y), IsDecimal(text, y, z),
         IsDecimal(text, z, Len(text) + 1), text[x] = Dot, text[y] = Dot, text[z] = Dot,
         Value(text, 0, x) <= 255, Value(text, x, y) <= 255, Value(text, y, z) <= 255,
         Value(text, z, Len(text) + 1) <= 255
  PROVE  AddressWith(text, x, y, z)
<1> DEFINE m == Len(text)
           p == [i \in 0..4 |-> CASE i = 0 -> 0 [] i = 1 -> x [] i = 2 -> y [] i = 3 -> z
                                  [] i = 4 -> m + 1]
<1>1. p[0] = 0 /\ p[1] = x /\ p[2] = y /\ p[3] = z /\ p[4] = m + 1
  OBVIOUS
<1>2. m \in Nat /\ x \in Nat /\ y \in Nat /\ z \in Nat
  OBVIOUS
<1>3. p \in [0..4 -> Nat]
  BY <1>2
<1> HIDE DEF p
<1>4. 0 < x /\ x < y /\ y < z /\ z < m + 1
  <2>1. y - x \in 2..4 /\ z - y \in 2..4 /\ m + 1 - z \in 2..4
    BY DEF IsDecimal
  <2> QED
    BY <1>2, <2>1
<1>5. ASSUME NEW i \in 1..m, i \notin {x, y, z} PROVE text[i] # Dot
  <2>1. text[i] \in Digit
    <3>1. CASE i < x
      <4>1. i \in (0 + 1)..(x - 1)
        BY <1>2, <3>1
      <4> QED
        BY <4>1 DEF IsDecimal
    <3>2. CASE x < i /\ i < y
      <4>1. i \in (x + 1)..(y - 1)
        BY <1>2, <3>2
      <4> QED
        BY <4>1 DEF IsDecimal
    <3>3. CASE y < i /\ i < z
      <4>1. i \in (y + 1)..(z - 1)
        BY <1>2, <3>3
      <4> QED
        BY <4>1 DEF IsDecimal
    <3>4. CASE z < i
      <4>1. i \in (z + 1)..(m + 1 - 1)
        BY <1>2, <3>4
      <4> QED
        BY <4>1 DEF IsDecimal
    <3> QED
      BY <1>2, <1>5, <3>1, <3>2, <3>3, <3>4
  <2>2. Dot \notin Digit
    BY DEF Digit, Dot
  <2> QED
    BY <2>1, <2>2
<1>6. \A i \in 1..m : text[i] = Dot <=> i \in {x, y, z}
  BY <1>5
<1>7. Split(text, p)
  BY <1>1, <1>3, <1>4, <1>6 DEF Split
<1>8. Octets(text, p)
  <2> SUFFICES ASSUME NEW n \in 1..4
               PROVE  IsDecimal(text, p[n - 1], p[n]) /\ Value(text, p[n - 1], p[n]) <= 255
    BY DEF Octets
  <2>1. CASE n = 1
    <3>1. p[n - 1] = 0 /\ p[n] = x
      BY <1>1, <2>1
    <3> QED
      BY <3>1
  <2>2. CASE n = 2
    <3>1. p[n - 1] = x /\ p[n] = y
      BY <1>1, <2>2
    <3> QED
      BY <3>1
  <2>3. CASE n = 3
    <3>1. p[n - 1] = y /\ p[n] = z
      BY <1>1, <2>3
    <3> QED
      BY <3>1
  <2>4. CASE n = 4
    <3>1. p[n - 1] = z /\ p[n] = m + 1
      BY <1>1, <2>4
    <3> QED
      BY <3>1
  <2> QED
    BY <2>1, <2>2, <2>3, <2>4
<1> QED
  BY <1>1, <1>7, <1>8 DEF AddressWith

\* is_valid_ipv4 accepts exactly the addresses.
LEMMA ValidAddress == ASSUME NEW text \in Seq(Nat) PROVE IsValidIpv4(text) <=> IsAddress(text)
<1> DEFINE n == Len(text)
<1>1. PICK f : Runs(f, text) /\ FoldLeft(Ipv4Char, Begin, text) = f[n]
  BY ReadingTable DEF Runs
<1>2. IsValidIpv4(text) <=> f[n].octets = 3 /\ OctetOk(f[n])
  BY <1>1 DEF IsValidIpv4, Begin
<1>3. ASSUME IsAddress(text) PROVE IsValidIpv4(text)
  <2>1. PICK v \in 0..255, d \in 1..3 : f[n] = At(v, d, 3)
    BY <1>1, <1>3, AddressIsValid
  <2>2. f[n].octets = 3 /\ f[n].digits > 0 /\ f[n].value <= 255
    BY <2>1 DEF At
  <2> QED
    BY <1>2, <2>2 DEF OctetOk
<1>4. ASSUME IsValidIpv4(text) PROVE IsAddress(text)
  <2>1. f[n].octets = 3 /\ f[n].digits > 0 /\ f[n].value <= 255
    BY <1>2, <1>4 DEF OctetOk
  <2>2. PICK p : Partial(text, p, n, f[n].value, f[n].digits, 3)
    BY <1>1, <2>1, NotFailed DEF PartialAt
  <2> DEFINE x == p[1]
             y == p[2]
             z == p[3]
  <2>3. /\ p[0] = 0 /\ z \in Nat /\ z <= n /\ f[n].digits = n - z /\ f[n].digits <= 3
        /\ f[n].value = Before(text, z, n + 1) /\ \A j \in (z + 1)..n : text[j] \in Digit
    BY <2>2 DEF Partial
  <2>4. ASSUME NEW i \in 1..3
        PROVE  /\ p[i] \in 1..n /\ text[p[i]] = Dot
               /\ IsDecimal(text, p[i - 1], p[i]) /\ Value(text, p[i - 1], p[i]) <= 255
    BY <2>2 DEF Partial
  <2>5. /\ x \in 1..n /\ text[x] = Dot /\ IsDecimal(text, 0, x) /\ Value(text, 0, x) <= 255
    <3>1. 1 \in 1..3 /\ 1 - 1 = 0
      OBVIOUS
    <3> QED
      BY <2>3, <2>4, <3>1
  <2>6. /\ y \in 1..n /\ text[y] = Dot /\ IsDecimal(text, x, y) /\ Value(text, x, y) <= 255
    <3>1. 2 \in 1..3 /\ 2 - 1 = 1
      OBVIOUS
    <3> QED
      BY <2>4, <3>1
  <2>7. /\ z \in 1..n /\ text[z] = Dot /\ IsDecimal(text, y, z) /\ Value(text, y, z) <= 255
    <3>1. 3 \in 1..3 /\ 3 - 1 = 2
      OBVIOUS
    <3> QED
      BY <2>4, <3>1
  <2> HIDE DEF x, y, z
  <2>8. n \in Nat /\ n - z \in 1..3
    <3>1. n \in Nat
      OBVIOUS
    <3>2. n - z > 0 /\ n - z <= 3
      BY <2>1, <2>3
    <3> QED
      BY <2>3, <3>1, <3>2
  <2>9. IsDecimal(text, z, n + 1)
    <3>1. z \in 0..n /\ n + 1 \in 1..(n + 1) /\ n + 1 - z \in 2..4 /\ n + 1 - 1 = n
      BY <2>3, <2>8
    <3> QED
      BY <2>3, <3>1 DEF IsDecimal
  <2>10. Value(text, z, n + 1) <= 255
    <3>1. (n + 1) - z # 1
      BY <2>3, <2>8
    <3> HIDE DEF n
    <3>2. \A a, k : k - a # 1 => Before(text, a, k) = Value(text, a, k)
      BY DEF Before
    <3>3. Before(text, z, n + 1) = Value(text, z, n + 1)
      BY <3>1, <3>2
    <3> QED
      BY <2>1, <2>3, <3>3
  <2>11. AddressWith(text, x, y, z)
    BY <2>5, <2>6, <2>7, <2>9, <2>10, AddressFrom
  <2> QED
    BY <2>11 DEF AddressWith, IsAddress
<1> QED
  BY <1>3, <1>4

-----------------------------------------------------------------------------
(* Addresses: what parse_ipv4 reads *)

\* parse_ipv4, which looks at nothing, reads the four numbers of an address.
LEMMA ParseIsQuad ==
  ASSUME NEW text \in Seq(Nat), IsAddress(text) PROVE ParseIpv4(text) = Quad(text)
<1>1. PICK p : Split(text, p) /\ Octets(text, p)
  BY DEF IsAddress
<1> DEFINE Sol(r) == r = [i \in 0..3 |-> IF i = 0 THEN text ELSE After(r[i - 1])]
           c == CHOOSE r : Sol(r)
<1>2. ParseIpv4(text) = [i \in 1..4 |-> NumberOf(c[i - 1]) % 256]
  BY DEF ParseIpv4
<1>3. ASSUME NEW n \in 1..4
      PROVE  /\ NumberOf(Rest(text, p[n - 1])) = Value(text, p[n - 1], p[n])
             /\ n < 4 => After(Rest(text, p[n - 1])) = Rest(text, p[n])
             /\ Value(text, p[n - 1], p[n]) \in 0..255
             /\ Number(text, Octet(text, n)) = Value(text, p[n - 1], p[n])
  <2> DEFINE a == p[n - 1]
             b == p[n]
  <2>1. a \in Nat /\ b \in Nat
    BY <1>1, SplitPlaces
  <2>2. IsDecimal(text, a, b) /\ Value(text, a, b) <= 255
    BY <1>1 DEF Octets
  <2>3. Number(text, Octet(text, n)) = Value(text, a, b)
    BY <1>1, <2>2, OctetIs
  <2>4. n < 4 => b <= Len(text) /\ text[b] = Dot
    <3> SUFFICES ASSUME n < 4 PROVE b <= Len(text) /\ text[b] = Dot
      OBVIOUS
    <3>1. n + 1 \in 1..4 /\ n + 1 - 1 = n /\ (n = 1 \/ n = 2 \/ n = 3)
      OBVIOUS
    <3>2. p[n] \in 0..Len(text)
      BY <1>1, <3>1, SplitPlaces
    <3>3. 0 < p[n]
      <4>1. p[n - 1] < p[n] /\ p[n - 1] \in Nat /\ p[n] \in Nat
        BY <1>1, SplitPlaces
      <4> QED
        BY <4>1
    <3>4. p[n] \in 1..Len(text) /\ p[n] \in {p[1], p[2], p[3]}
      BY <3>1, <3>2, <3>3
    <3>5. text[p[n]] = Dot
      BY <1>1, <3>4 DEF Split
    <3>6. p[n] <= Len(text)
      BY <3>2
    <3> QED
      BY <3>5, <3>6
  <2>5. n = 4 => b = Len(text) + 1
    BY <1>1 DEF Split
  <2>6. Dot \notin Digit
    BY DEF Dot, Digit
  <2>7. b = Len(text) + 1 \/ text[b] \notin Digit
    <3>1. n < 4 \/ n = 4
      OBVIOUS
    <3> QED
      BY <2>4, <2>5, <2>6, <3>1
  <2> HIDE DEF a, b
  <2>8. /\ NumberOf(Rest(text, a)) = Value(text, a, b)
        /\ b <= Len(text) => After(Rest(text, a)) = Rest(text, b)
    BY <2>1, <2>2, <2>7, NumberRead
  <2>9. Value(text, a, b) \in 0..255
    <3> DEFINE v == Value(text, a, b)
    <3>1. v \in Nat /\ v <= 255
      BY <2>2, ValueIs
    <3> HIDE DEF v
    <3>2. v \in 0..255
      BY <3>1
    <3> QED
      BY <3>2 DEF v
  <2> QED
    BY <2>3, <2>4, <2>8, <2>9 DEF a, b
<1>4. Rest(text, p[0]) = text
  <2>1. p[0] + 1 = 1
    BY <1>1 DEF Split
  <2>2. SubSeq(text, 1, Len(text)) = text
    BY SubSeqFull
  <2> QED
    BY <2>1, <2>2 DEF Rest
<1>5. \A i \in 1..3 : Rest(text, p[i]) = After(Rest(text, p[i - 1]))
  <2>1. \A i \in 1..3 : i \in 1..4 /\ i < 4
    OBVIOUS
  <2> QED
    BY <1>3, <2>1
<1>6. \E r : Sol(r)
  <2> DEFINE r == [i \in 0..3 |-> Rest(text, p[i])]
  <2>1. \A i \in 0..3 : r[i] = IF i = 0 THEN text ELSE After(r[i - 1])
    <3> SUFFICES ASSUME NEW i \in 0..3 PROVE r[i] = IF i = 0 THEN text ELSE After(r[i - 1])
      OBVIOUS
    <3>1. CASE i = 0
      BY <1>4, <3>1
    <3>2. CASE i # 0
      <4>1. i \in 1..3 /\ i - 1 \in 0..3
        BY <3>2
      <4> QED
        BY <1>5, <3>2, <4>1
    <3> QED
      BY <3>1, <3>2
  <2>2. Sol(r)
    BY <2>1
  <2> QED
    BY <2>2
<1>7. Sol(c)
  BY <1>6
<1> HIDE DEF c
<1>8. c[0] = Rest(text, p[0])
  BY <1>4, <1>7
<1>9. \A i \in 1..3 : c[i] = After(c[i - 1])
  BY <1>7
<1>10. c[1] = Rest(text, p[1])
  <2>1. 1 \in 1..3 /\ 1 - 1 = 0
    OBVIOUS
  <2> QED
    BY <1>5, <1>8, <1>9, <2>1
<1>11. c[2] = Rest(text, p[2])
  <2>1. 2 \in 1..3 /\ 2 - 1 = 1
    OBVIOUS
  <2> QED
    BY <1>5, <1>9, <1>10, <2>1
<1>12. c[3] = Rest(text, p[3])
  <2>1. 3 \in 1..3 /\ 3 - 1 = 2
    OBVIOUS
  <2> QED
    BY <1>5, <1>9, <1>11, <2>1
<1>13. \A n \in 1..4 : c[n - 1] = Rest(text, p[n - 1])
  <2>1. \A n \in 1..4 : n - 1 = 0 \/ n - 1 = 1 \/ n - 1 = 2 \/ n - 1 = 3
    OBVIOUS
  <2> QED
    BY <1>8, <1>10, <1>11, <1>12, <2>1
<1>14. \A n \in 1..4 : NumberOf(c[n - 1]) % 256 = Number(text, Octet(text, n))
  <2> SUFFICES ASSUME NEW n \in 1..4 PROVE NumberOf(c[n - 1]) % 256 = Number(text, Octet(text, n))
    OBVIOUS
  <2> DEFINE v == Value(text, p[n - 1], p[n])
  <2>1. v \in 0..255 /\ NumberOf(c[n - 1]) = v /\ Number(text, Octet(text, n)) = v
    BY <1>3, <1>13
  <2> HIDE DEF v
  <2>2. v % 256 = v
    BY <2>1
  <2> QED
    BY <2>1, <2>2
<1> QED
  BY <1>2, <1>14 DEF Quad

-----------------------------------------------------------------------------
(* Addresses: what sprintf writes *)

\* The number n is written between the places a and b.
Cut(text, a, b, n) == IsDecimal(text, a, b) /\ Value(text, a, b) = n

\* One sequence behind another, place by place.
LEMMA ConcatPlaces ==
  ASSUME NEW s \in Seq(Nat), NEW t \in Seq(Nat)
  PROVE  /\ s \o t \in Seq(Nat) /\ Len(s \o t) = Len(s) + Len(t)
         /\ \A i \in 1..Len(s) : (s \o t)[i] = s[i]
         /\ \A i \in 1..Len(t) : (s \o t)[Len(s) + i] = t[i]
<1> DEFINE r == s \o t
           m == Len(s)
           n == Len(t)
<1>1. r \in Seq(Nat) /\ Len(r) = m + n
      /\ \A i \in 1..(m + n) : r[i] = IF i <= m THEN s[i] ELSE t[i - m]
  BY ConcatProperties
<1>2. m \in Nat /\ n \in Nat
  OBVIOUS
<1> HIDE DEF r, m, n
<1>3. \A i \in 1..m : r[i] = s[i]
  BY <1>1, <1>2
<1>4. \A i \in 1..n : r[m + i] = t[i]
  <2> SUFFICES ASSUME NEW i \in 1..n PROVE r[m + i] = t[i]
    OBVIOUS
  <2>1. m + i \in 1..(m + n) /\ ~ (m + i <= m) /\ (m + i) - m = i
    BY <1>2
  <2> QED
    BY <1>1, <2>1
<1> QED
  BY <1>1, <1>3, <1>4 DEF r, m, n

\* One character more.
LEMMA OneMore ==
  ASSUME NEW s \in Seq(Nat), NEW z \in Nat
  PROVE  /\ s \o <<z>> \in Seq(Nat) /\ Len(s \o <<z>>) = Len(s) + 1
         /\ \A i \in 1..Len(s) : (s \o <<z>>)[i] = s[i]
         /\ (s \o <<z>>)[Len(s) + 1] = z
<1> DEFINE t == <<z>>
<1>1. t \in Seq(Nat) /\ Len(t) = 1 /\ t[1] = z /\ 1 \in 1..1
  OBVIOUS
<1> HIDE DEF t
<1>2. /\ s \o t \in Seq(Nat) /\ Len(s \o t) = Len(s) + Len(t)
      /\ \A i \in 1..Len(s) : (s \o t)[i] = s[i]
      /\ \A i \in 1..Len(t) : (s \o t)[Len(s) + i] = t[i]
  BY <1>1, ConcatPlaces
<1> QED
  BY <1>1, <1>2 DEF t

\* A byte and its digits.
LEMMA DigitsMakeNumber ==
  /\ \A n \in 0..255 : /\ n \div 100 \in 0..9 /\ (n \div 10) % 10 \in 0..9 /\ n % 10 \in 0..9
                       /\ n = 100 * (n \div 100) + 10 * ((n \div 10) % 10) + (n % 10)
  /\ \A n \in 0..99 : (n \div 10) % 10 = n \div 10 /\ n = 10 * (n \div 10) + (n % 10)
  /\ \A n \in 0..9 : n % 10 = n
OBVIOUS

\* The digits of a number of one, two and three.
Written(n, d) ==
  /\ n <= 9 => Len(d) = 1 /\ d[1] = n
  /\ n > 9 /\ n <= 99 => Len(d) = 2 /\ d[1] = n \div 10 /\ d[2] = n % 10
  /\ n > 99 => Len(d) = 3 /\ d[1] = n \div 100 /\ d[2] = (n \div 10) % 10 /\ d[3] = n % 10

\* %u of a byte.
LEMMA DecimalDigits == ASSUME NEW n \in 0..255 PROVE Written(n, Decimal(n))
<1> DEFINE u == n \div 100
           v == (n \div 10) % 10
           w == n % 10
<1>1. u \in Nat /\ v \in Nat /\ w \in Nat
  BY DigitsMakeNumber
<1>2. Decimal(n) = (IF n > 99 THEN <<u>> ELSE <<>>) \o (IF n > 9 THEN <<v>> ELSE <<>>) \o <<w>>
  BY DEF Decimal
<1> HIDE DEF u, v, w
<1>3. CASE n <= 9
  <2>1. ~ (n > 99) /\ ~ (n > 9)
    BY <1>3
  <2>2. <<>> \o <<>> \o <<w>> = <<w>>
    BY <1>1
  <2>3. Decimal(n) = <<w>>
    BY <1>2, <2>1, <2>2
  <2>4. n % 10 = n
    BY <1>3, DigitsMakeNumber
  <2> QED
    BY <2>1, <2>3, <2>4 DEF Written, w
<1>4. CASE n > 9 /\ n <= 99
  <2>1. ~ (n > 99) /\ ~ (n <= 9)
    BY <1>4
  <2>2. <<>> \o <<v>> = <<v>> /\ <<v>> \in Seq(Nat) /\ Len(<<v>>) = 1 /\ <<v>>[1] = v
    BY <1>1
  <2>3. Decimal(n) = <<v>> \o <<w>>
    BY <1>2, <1>4, <2>1, <2>2
  <2>4. /\ Len(<<v>> \o <<w>>) = Len(<<v>>) + 1
        /\ \A i \in 1..Len(<<v>>) : (<<v>> \o <<w>>)[i] = <<v>>[i]
        /\ (<<v>> \o <<w>>)[Len(<<v>>) + 1] = w
    BY <1>1, <2>2, OneMore
  <2>5. Len(Decimal(n)) = 2 /\ Decimal(n)[1] = v /\ Decimal(n)[2] = w
    BY <2>2, <2>3, <2>4
  <2>6. v = n \div 10
    BY <1>4, DigitsMakeNumber DEF v
  <2> QED
    BY <2>1, <2>5, <2>6 DEF Written, w
<1>5. CASE n > 99
  <2>1. ~ (n <= 99) /\ ~ (n <= 9) /\ n > 9
    BY <1>5
  <2>2. <<u>> \in Seq(Nat) /\ Len(<<u>>) = 1 /\ <<u>>[1] = u
    BY <1>1
  <2> DEFINE s == <<u>> \o <<v>>
  <2>3. Decimal(n) = s \o <<w>>
    BY <1>2, <1>5, <2>1
  <2>4. /\ s \in Seq(Nat) /\ Len(s) = Len(<<u>>) + 1
        /\ \A i \in 1..Len(<<u>>) : s[i] = <<u>>[i]
        /\ s[Len(<<u>>) + 1] = v
    BY <1>1, <2>2, OneMore
  <2>5. s \in Seq(Nat) /\ Len(s) = 2 /\ s[1] = u /\ s[2] = v
    BY <2>2, <2>4
  <2> HIDE DEF s
  <2>6. /\ Len(s \o <<w>>) = Len(s) + 1
        /\ \A i \in 1..Len(s) : (s \o <<w>>)[i] = s[i]
        /\ (s \o <<w>>)[Len(s) + 1] = w
    BY <1>1, <2>5, OneMore
  <2>7. /\ Len(Decimal(n)) = 3 /\ Decimal(n)[1] = u /\ Decimal(n)[2] = v /\ Decimal(n)[3] = w
    BY <2>3, <2>5, <2>6
  <2> QED
    BY <2>1, <2>7 DEF Written, u, v, w
<1> QED
  BY <1>3, <1>4, <1>5

\* Wherever it is written, it is that number.
LEMMA DecimalIsCut ==
  ASSUME NEW n \in 0..255, NEW text \in Seq(Nat), NEW a \in Nat,
         a + Len(Decimal(n)) <= Len(text),
         \A i \in 1..Len(Decimal(n)) : text[a + i] = Decimal(n)[i]
  PROVE  Cut(text, a, a + Len(Decimal(n)) + 1, n)
<1> DEFINE d == Decimal(n)
           b == a + Len(d) + 1
           m == Len(text)
<1>0. m \in Nat
  OBVIOUS
<1>1. CASE n <= 9
  <2>1. Len(d) = 1 /\ d[1] = n
    BY <1>1, DecimalDigits DEF Written
  <2>2. b = a + 2 /\ 1 \in 1..Len(d)
    BY <2>1
  <2>3. text[a + 1] = n
    BY <2>1, <2>2
  <2> HIDE DEF b, d, m
  <2>4. IsDecimal(text, a, b)
    <3>1. b - a = 2 /\ (a + 1)..(b - 1) = {a + 1}
      BY <2>2
    <3>2. a \in 0..m /\ b \in 1..(m + 1)
      BY <1>0, <2>1, <2>2 DEF d, m
    <3>3. text[a + 1] \in Digit
      BY <1>1, <2>3 DEF Digit
    <3>4. \A i \in (a + 1)..(b - 1) : text[i] \in Digit
      BY <3>1, <3>3, Zenon
    <3> QED
      BY <3>1, <3>2, <3>4 DEF IsDecimal, m
  <2>5. Value(text, a, b) = n
    <3>1. b - a = 2 /\ b - 1 = a + 1
      BY <2>2
    <3> QED
      BY <2>3, <3>1 DEF Value
  <2> QED
    BY <2>4, <2>5 DEF Cut, b, d
<1>2. CASE n > 9 /\ n <= 99
  <2> DEFINE u == n \div 10
             v == n % 10
  <2>0. u \in 0..9 /\ v \in 0..9 /\ n = 10 * u + v
    BY <1>2, DigitsMakeNumber
  <2>1. Len(d) = 2 /\ d[1] = u /\ d[2] = v
    BY <1>2, DecimalDigits DEF Written
  <2>2. b = a + 3 /\ 1 \in 1..Len(d) /\ 2 \in 1..Len(d)
    BY <2>1
  <2>3. text[a + 1] = u /\ text[a + 2] = v
    BY <2>1, <2>2
  <2> HIDE DEF b, d, m, u, v
  <2>4. IsDecimal(text, a, b)
    <3>1. b - a = 3 /\ (a + 1)..(b - 1) = {a + 1, a + 2}
      BY <2>2
    <3>2. a \in 0..m /\ b \in 1..(m + 1)
      BY <1>0, <2>1, <2>2 DEF d, m
    <3>3. text[a + 1] \in Digit /\ text[a + 2] \in Digit
      BY <2>0, <2>3 DEF Digit
    <3>4. \A i \in (a + 1)..(b - 1) : text[i] \in Digit
      BY <3>1, <3>3, Zenon
    <3> QED
      BY <3>1, <3>2, <3>4 DEF IsDecimal, m
  <2>5. Value(text, a, b) = n
    <3>1. b - a = 3 /\ b - 1 = a + 2 /\ b - 2 = a + 1
      BY <2>2
    <3>2. Value(text, a, b) = 0 + 10 * text[a + 1] + text[a + 2]
      BY <3>1 DEF Value
    <3> QED
      BY <2>0, <2>3, <3>2
  <2> QED
    BY <2>4, <2>5 DEF Cut, b, d
<1>3. CASE n > 99
  <2> DEFINE u == n \div 100
             v == (n \div 10) % 10
             w == n % 10
  <2>0. u \in 0..9 /\ v \in 0..9 /\ w \in 0..9 /\ n = 100 * u + 10 * v + w
    BY DigitsMakeNumber
  <2>1. Len(d) = 3 /\ d[1] = u /\ d[2] = v /\ d[3] = w
    BY <1>3, DecimalDigits DEF Written
  <2>2. b = a + 4 /\ 1 \in 1..Len(d) /\ 2 \in 1..Len(d) /\ 3 \in 1..Len(d)
    BY <2>1
  <2>3. text[a + 1] = u /\ text[a + 2] = v /\ text[a + 3] = w
    BY <2>1, <2>2
  <2> HIDE DEF b, d, m, u, v, w
  <2>4. IsDecimal(text, a, b)
    <3>1. b - a = 4 /\ (a + 1)..(b - 1) = {a + 1, a + 2, a + 3}
      BY <2>2
    <3>2. a \in 0..m /\ b \in 1..(m + 1)
      BY <1>0, <2>1, <2>2 DEF d, m
    <3>3. text[a + 1] \in Digit /\ text[a + 2] \in Digit /\ text[a + 3] \in Digit
      BY <2>0, <2>3 DEF Digit
    <3>4. \A i \in (a + 1)..(b - 1) : text[i] \in Digit
      BY <3>1, <3>3, Zenon
    <3> QED
      BY <3>1, <3>2, <3>4 DEF IsDecimal, m
  <2>5. Value(text, a, b) = n
    <3>1. b - a = 4 /\ b - 1 = a + 3 /\ b - 2 = a + 2 /\ b - 3 = a + 1
      BY <2>2
    <3>2. Value(text, a, b) = 100 * text[a + 1] + 10 * text[a + 2] + text[a + 3]
      BY <3>1 DEF Value
    <3> QED
      BY <2>0, <2>3, <3>2
  <2> QED
    BY <2>4, <2>5 DEF Cut, b, d
<1> QED
  BY <1>1, <1>2, <1>3

\* The prefix length of a report is a text the validator takes.
LEMMA DecimalIsProper == ASSUME NEW n \in 0..32 PROVE Proper("prefix", Decimal(n))
<1> DEFINE d == Decimal(n)
           m == Len(d)
<1>1. n \in 0..255 /\ n <= 99 /\ n <= 32
  OBVIOUS
<1>2. d \in Seq(Nat) /\ m \in Nat /\ m <= 2
  <2>1. d \in Seq(Nat) /\ Len(d) <= 2
    BY <1>1, DecimalLength
  <2> HIDE DEF d
  <2> QED
    BY <2>1
<1>3. Cut(d, 0, 0 + m + 1, n)
  <2>1. \A i \in 1..m : d[0 + i] = d[i]
    BY <1>2
  <2>2. 0 + m <= m /\ 0 \in Nat
    BY <1>2
  <2> QED
    BY <1>1, <1>2, <2>1, <2>2, DecimalIsCut
<1> HIDE DEF m, d
<1>4. 0 + m + 1 = m + 1 /\ (m + 1) - 1 = m /\ 0 + 1 = 1 /\ m + 1 \in Nat /\ 0 \in Nat
  BY <1>2
<1>5. IsDecimal(d, 0, m + 1) /\ Value(d, 0, m + 1) = n
  BY <1>3, <1>4 DEF Cut
<1>6. Number(d, 1..m) = n
  <2>1. Number(d, (0 + 1)..((m + 1) - 1)) = Value(d, 0, m + 1)
    BY <1>2, <1>4, <1>5, NumberIs
  <2> QED
    BY <1>4, <1>5, <2>1
<1>7. Cardinality(1..m) = m /\ m \in 1..2
  <2>1. Cardinality(1..m) = m
    BY <1>2, <1>4, FS_Interval
  <2>2. (m + 1) - 0 \in 2..4
    BY <1>5 DEF IsDecimal
  <2> QED
    BY <1>2, <2>1, <2>2
<1>8. \A i \in 1..m : d[i] \in Digit
  BY <1>4, <1>5 DEF IsDecimal
<1> QED
  BY <1>1, <1>6, <1>7, <1>8 DEF Proper, IsNumber, d, m

\* One text begins with another.
Begins(e, s) == Len(e) <= Len(s) /\ \A i \in 1..Len(e) : s[i] = e[i]

LEMMA BeginsConcat ==
  ASSUME NEW e \in Seq(Nat), NEW t \in Seq(Nat) PROVE e \o t \in Seq(Nat) /\ Begins(e, e \o t)
<1>1. /\ e \o t \in Seq(Nat) /\ Len(e \o t) = Len(e) + Len(t)
      /\ \A i \in 1..Len(e) : (e \o t)[i] = e[i]
  BY ConcatPlaces
<1> QED
  BY <1>1 DEF Begins

LEMMA BeginsTransitive ==
  ASSUME NEW d \in Seq(Nat), NEW e \in Seq(Nat), NEW s \in Seq(Nat), Begins(d, e), Begins(e, s)
  PROVE  Begins(d, s)
BY DEF Begins

\* What is read between two places does not depend on what follows.
LEMMA CutBegins ==
  ASSUME NEW e \in Seq(Nat), NEW s \in Seq(Nat), Begins(e, s), NEW a, NEW b, NEW n, Cut(e, a, b, n)
  PROVE  Cut(s, a, b, n)
<1> DEFINE k == Len(e)
           m == Len(s)
<1>1. k \in Nat /\ m \in Nat /\ k <= m /\ \A i \in 1..k : s[i] = e[i]
  BY DEF Begins
<1>2. /\ a \in 0..k /\ b \in 1..(k + 1) /\ b - a \in 2..4
      /\ \A i \in (a + 1)..(b - 1) : e[i] \in Digit
  BY DEF Cut, IsDecimal
<1> HIDE DEF k, m
<1>3. \A i \in (a + 1)..(b - 1) : i \in 1..k
  BY <1>1, <1>2
<1>4. a \in 0..m /\ b \in 1..(m + 1) /\ \A i \in (a + 1)..(b - 1) : s[i] \in Digit
  BY <1>1, <1>2, <1>3
<1>5. Value(s, a, b) = Value(e, a, b)
  <2>1. s[b - 1] = e[b - 1]
    BY <1>1, <1>2
  <2>2. b - a > 2 => s[b - 2] = e[b - 2]
    BY <1>1, <1>2
  <2>3. b - a = 4 => s[b - 3] = e[b - 3]
    BY <1>1, <1>2
  <2> QED
    BY <2>1, <2>2, <2>3, Zenon DEF Value
<1> QED
  BY <1>2, <1>4, <1>5 DEF Cut, IsDecimal, m

\* A number and a dot behind a text.
LEMMA DecimalBehind ==
  ASSUME NEW e \in Seq(Nat), NEW n \in 0..255
  PROVE  /\ e \o Decimal(n) \in Seq(Nat) /\ Begins(e, e \o Decimal(n))
         /\ Cut(e \o Decimal(n), Len(e), Len(e \o Decimal(n)) + 1, n)
<1> DEFINE d == Decimal(n)
           s == e \o d
           a == Len(e)
<1>1. d \in Seq(Nat)
  BY DecimalLength
<1>2. /\ s \in Seq(Nat) /\ Len(s) = a + Len(d) /\ Begins(e, s)
      /\ \A i \in 1..Len(d) : s[a + i] = d[i]
  BY <1>1, ConcatPlaces, BeginsConcat
<1>3. a \in Nat /\ a + Len(d) <= Len(s)
  <2>1. Len(d) \in Nat /\ a \in Nat
    BY <1>1
  <2> QED
    BY <1>2, <2>1
<1> HIDE DEF s, a
<1>4. Cut(s, a, a + Len(Decimal(n)) + 1, n)
  BY <1>2, <1>3, DecimalIsCut
<1> QED
  BY <1>2, <1>4 DEF s, a

LEMMA DotBehind ==
  ASSUME NEW e \in Seq(Nat)
  PROVE  /\ e \o <<Dot>> \in Seq(Nat) /\ Begins(e, e \o <<Dot>>)
         /\ Len(e \o <<Dot>>) = Len(e) + 1 /\ (e \o <<Dot>>)[Len(e) + 1] = Dot
<1>1. Dot \in Nat
  BY DEF Dot
<1> HIDE DEF Dot
<1>2. /\ e \o <<Dot>> \in Seq(Nat) /\ Len(e \o <<Dot>>) = Len(e) + 1
      /\ \A i \in 1..Len(e) : (e \o <<Dot>>)[i] = e[i]
      /\ (e \o <<Dot>>)[Len(e) + 1] = Dot
  BY <1>1, OneMore
<1> QED
  BY <1>2 DEF Begins

\* A number with the dot behind it, all of it kept by what follows.
Octeted(s, a, x, n) == x \in 1..Len(s) /\ s[x] = Dot /\ Cut(s, a, x, n)

LEMMA OctetBehind ==
  ASSUME NEW e \in Seq(Nat), NEW n \in 0..255, NEW s, s = (e \o Decimal(n)) \o <<Dot>>
  PROVE  s \in Seq(Nat) /\ Begins(e, s) /\ Octeted(s, Len(e), Len(s), n)
<1> DEFINE t == e \o Decimal(n)
<1>1. t \in Seq(Nat) /\ Begins(e, t) /\ Cut(t, Len(e), Len(t) + 1, n)
  BY DecimalBehind
<1> HIDE DEF t
<1>2. /\ t \o <<Dot>> \in Seq(Nat) /\ Begins(t, t \o <<Dot>>)
      /\ Len(t \o <<Dot>>) = Len(t) + 1 /\ (t \o <<Dot>>)[Len(t) + 1] = Dot
  BY <1>1, DotBehind
<1>3. s = t \o <<Dot>>
  BY DEF t
<1>4. s \in Seq(Nat) /\ Begins(t, s) /\ Len(s) = Len(t) + 1 /\ s[Len(s)] = Dot
  BY <1>2, <1>3
<1>5. Begins(e, s)
  BY <1>1, <1>4, BeginsTransitive
<1>6. Cut(s, Len(e), Len(s), n)
  <2>1. Cut(s, Len(e), Len(t) + 1, n)
    BY <1>1, <1>4, CutBegins
  <2> QED
    BY <1>4, <2>1
<1>7. Len(s) \in 1..Len(s)
  BY <1>1, <1>4
<1> QED
  BY <1>4, <1>5, <1>6, <1>7 DEF Octeted

LEMMA OctetKept ==
  ASSUME NEW e \in Seq(Nat), NEW s \in Seq(Nat), Begins(e, s), NEW a, NEW x, NEW n, Octeted(e, a, x, n)
  PROVE  Octeted(s, a, x, n)
<1>1. Cut(s, a, x, n)
  BY CutBegins DEF Octeted
<1>2. x \in 1..Len(s) /\ s[x] = Dot
  BY DEF Octeted, Begins
<1> QED
  BY <1>1, <1>2 DEF Octeted

\* The text of a report's address is its four octets (gui.c:354).
LEMMA DottedIsAddress ==
  ASSUME NEW q \in [1..4 -> 0..255]
  PROVE  /\ Dotted(q) \in Seq(Nat)
         /\ \E x, y, z : /\ Octeted(Dotted(q), 0, x, q[1]) /\ Octeted(Dotted(q), x, y, q[2])
                         /\ Octeted(Dotted(q), y, z, q[3]) 
                         /\ Cut(Dotted(q), z, Len(Dotted(q)) + 1, q[4])
<1> DEFINE dot == <<Dot>>
           e1 == (<<>> \o Decimal(q[1])) \o dot
           e2 == (e1 \o Decimal(q[2])) \o dot
           e3 == (e2 \o Decimal(q[3])) \o dot
           e == e3 \o Decimal(q[4])
<1>1. q[1] \in 0..255 /\ q[2] \in 0..255 /\ q[3] \in 0..255 /\ q[4] \in 0..255
  OBVIOUS
<1>2. <<>> \o Decimal(q[1]) = Decimal(q[1])
  <2> DEFINE d == Decimal(q[1])
  <2>1. d \in Seq(Nat)
    BY <1>1, DecimalLength
  <2> HIDE DEF d
  <2>2. <<>> \o d = d
    BY <2>1
  <2> QED
    BY <2>2 DEF d
<1>3. Dotted(q) = e
  <2> DEFINE d1 == Decimal(q[1])
             d2 == Decimal(q[2])
             d3 == Decimal(q[3])
             d4 == Decimal(q[4])
  <2>1. Dotted(q) = d1 \o dot \o d2 \o dot \o d3 \o dot \o d4
    BY DEF Dotted
  <2>2. e = (((((<<>> \o d1) \o dot) \o d2) \o dot) \o d3) \o dot \o d4
    OBVIOUS
  <2>3. <<>> \o d1 = d1
    BY <1>2
  <2> HIDE DEF d1, d2, d3, d4, dot, e
  <2> QED
    BY <2>1, <2>2, <2>3
<1>4. <<>> \in Seq(Nat) /\ Len(<<>>) = 0
  OBVIOUS
<1>5. e1 \in Seq(Nat) /\ Octeted(e1, 0, Len(e1), q[1])
  BY <1>1, <1>4, OctetBehind
<1> HIDE DEF e1
<1>6. e2 \in Seq(Nat) /\ Begins(e1, e2) /\ Octeted(e2, Len(e1), Len(e2), q[2])
  BY <1>1, <1>5, OctetBehind
<1> HIDE DEF e2
<1>7. e3 \in Seq(Nat) /\ Begins(e2, e3) /\ Octeted(e3, Len(e2), Len(e3), q[3])
  BY <1>1, <1>6, OctetBehind
<1> HIDE DEF e3
<1>8. e \in Seq(Nat) /\ Begins(e3, e) /\ Cut(e, Len(e3), Len(e) + 1, q[4])
  BY <1>1, <1>7, DecimalBehind
<1> HIDE DEF e
<1>9. Octeted(e, Len(e2), Len(e3), q[3])
  BY <1>7, <1>8, OctetKept
<1>10. Begins(e2, e)
  BY <1>6, <1>7, <1>8, BeginsTransitive
<1>11. Octeted(e, Len(e1), Len(e2), q[2])
  BY <1>6, <1>8, <1>10, OctetKept
<1>12. Begins(e1, e)
  BY <1>5, <1>6, <1>8, <1>10, BeginsTransitive
<1>13. Octeted(e, 0, Len(e1), q[1])
  BY <1>5, <1>8, <1>12, OctetKept
<1> QED
  BY <1>3, <1>8, <1>9, <1>11, <1>13

\* It is an address, and parse_ipv4 reads those octets in it.
LEMMA DottedProper ==
  ASSUME NEW q \in [1..4 -> 0..255]
  PROVE  IsAddress(Dotted(q)) /\ Quad(Dotted(q)) = q
<1> DEFINE s == Dotted(q)
<1>1. PICK x, y, z : /\ Octeted(s, 0, x, q[1]) /\ Octeted(s, x, y, q[2]) /\ Octeted(s, y, z, q[3])
                     /\ Cut(s, z, Len(s) + 1, q[4])
  BY DottedIsAddress
<1>2. s \in Seq(Nat)
  BY DottedIsAddress
<1>3. q[1] <= 255 /\ q[2] <= 255 /\ q[3] <= 255 /\ q[4] <= 255
  OBVIOUS
<1> HIDE DEF s
<1>4. x \in 1..Len(s) /\ s[x] = Dot /\ IsDecimal(s, 0, x) /\ Value(s, 0, x) = q[1]
  BY <1>1 DEF Octeted, Cut
<1>5. y \in 1..Len(s) /\ s[y] = Dot /\ IsDecimal(s, x, y) /\ Value(s, x, y) = q[2]
  BY <1>1 DEF Octeted, Cut
<1>6. z \in 1..Len(s) /\ s[z] = Dot /\ IsDecimal(s, y, z) /\ Value(s, y, z) = q[3]
  BY <1>1 DEF Octeted, Cut
<1>7. IsDecimal(s, z, Len(s) + 1) /\ Value(s, z, Len(s) + 1) = q[4]
  BY <1>1 DEF Cut
<1>8. PICK p : Split(s, p) /\ Octets(s, p) /\ p[1] = x /\ p[2] = y /\ p[3] = z
  <2>1. /\ Value(s, 0, x) <= 255 /\ Value(s, x, y) <= 255 /\ Value(s, y, z) <= 255
        /\ Value(s, z, Len(s) + 1) <= 255
    BY <1>3, <1>4, <1>5, <1>6, <1>7
  <2>2. AddressWith(s, x, y, z)
    BY <1>2, <1>4, <1>5, <1>6, <1>7, <2>1, AddressFrom
  <2> QED
    BY <2>2 DEF AddressWith
<1>9. IsAddress(s)
  BY <1>8 DEF IsAddress
<1>10. p[0] = 0 /\ p[4] = Len(s) + 1
  BY <1>8 DEF Split
<1>11. \A n \in 1..4 : Number(s, Octet(s, n)) = q[n]
  <2> SUFFICES ASSUME NEW n \in 1..4 PROVE Number(s, Octet(s, n)) = q[n]
    OBVIOUS
  <2>1. IsDecimal(s, p[n - 1], p[n])
    BY <1>8 DEF Octets
  <2>2. Number(s, Octet(s, n)) = Value(s, p[n - 1], p[n])
    BY <1>2, <1>8, <2>1, OctetIs
  <2>3. (n = 1 /\ n - 1 = 0) \/ (n = 2 /\ n - 1 = 1) \/ (n = 3 /\ n - 1 = 2) \/ (n = 4 /\ n - 1 = 3)
    OBVIOUS
  <2>4. Value(s, p[n - 1], p[n]) = q[n]
    BY <1>4, <1>5, <1>6, <1>7, <1>8, <1>10, <2>3, Zenon
  <2> QED
    BY <2>2, <2>4
<1>12. Quad(s) = q
  BY <1>11 DEF Quad
<1> QED
  BY <1>9, <1>12 DEF s

\* Whatever address the device reports, parse_ipv4 makes of its text the four
\* bytes that sprintf had made it of (gui.c:354, valid.c:119).
THEOREM ReportedAddressComesBack ==
  ASSUME NEW q \in [1..4 -> 0..255] PROVE ParseIpv4(Dotted(q)) = q
<1>1. Dotted(q) \in Seq(Nat)
  BY DottedIsAddress
<1> QED
  BY <1>1, DottedProper, ParseIsQuad

-----------------------------------------------------------------------------
(* The request: what is where in it, and what parse_set_netif takes out *)

\* The text t is in s behind the place a.
Holds(s, a, t) == a + Len(t) <= Len(s) /\ \A i \in 1..Len(t) : s[a + i] = t[i]

\* r is e with t behind it.
Adds(e, t, r) == /\ r \in Seq(Nat) /\ Len(r) = Len(e) + Len(t)
                 /\ Begins(e, r) /\ Holds(r, Len(e), t)

LEMMA HoldsBehind ==
  ASSUME NEW e \in Seq(Nat), NEW t \in Seq(Nat) PROVE Adds(e, t, e \o t)
<1>1. /\ e \o t \in Seq(Nat) /\ Len(e \o t) = Len(e) + Len(t)
      /\ \A i \in 1..Len(t) : (e \o t)[Len(e) + i] = t[i]
  BY ConcatPlaces
<1>2. Len(e) + Len(t) <= Len(e \o t)
  BY <1>1
<1> QED
  BY <1>1, <1>2, BeginsConcat DEF Holds, Adds

LEMMA HoldsBegins ==
  ASSUME NEW e \in Seq(Nat), NEW s \in Seq(Nat), Begins(e, s), NEW t \in Seq(Nat), NEW a \in Nat,
         Holds(e, a, t)
  PROVE  Holds(s, a, t)
<1>1. Len(e) \in Nat /\ Len(s) \in Nat /\ Len(t) \in Nat /\ Len(e) <= Len(s) /\ a + Len(t) <= Len(e)
  BY DEF Begins, Holds
<1>2. a + Len(t) <= Len(s)
  BY <1>1
<1>3. \A i \in 1..Len(t) : s[a + i] = t[i]
  <2> SUFFICES ASSUME NEW i \in 1..Len(t) PROVE s[a + i] = t[i]
    OBVIOUS
  <2>1. a + i \in 1..Len(e)
    BY <1>1
  <2> QED
    BY <2>1 DEF Begins, Holds
<1> QED
  BY <1>2, <1>3 DEF Holds

LEMMA HoldsWithin ==
  ASSUME NEW s \in Seq(Nat), NEW e \in Seq(Nat), NEW t \in Seq(Nat), NEW a \in Nat, NEW b \in Nat,
         Holds(s, a, e), Holds(e, b, t)
  PROVE  Holds(s, a + b, t)
<1>1. /\ Len(e) \in Nat /\ Len(s) \in Nat /\ Len(t) \in Nat
      /\ a + Len(e) <= Len(s) /\ b + Len(t) <= Len(e)
  BY DEF Holds
<1>2. (a + b) + Len(t) <= Len(s)
  BY <1>1
<1>3. \A i \in 1..Len(t) : s[(a + b) + i] = t[i]
  <2> SUFFICES ASSUME NEW i \in 1..Len(t) PROVE s[(a + b) + i] = t[i]
    OBVIOUS
  <2>1. b + i \in 1..Len(e) /\ a + (b + i) = (a + b) + i
    BY <1>1
  <2>2. s[a + (b + i)] = e[b + i] /\ e[b + i] = t[i]
    BY <2>1 DEF Holds
  <2> QED
    BY <2>1, <2>2
<1> QED
  BY <1>2, <1>3 DEF Holds

\* What parse_set_netif takes from the body of a request that holds t.
LEMMA FromBody ==
  ASSUME NEW r \in Seq(Nat), NEW t \in Seq(Nat), NEW a \in Nat \ {0}, Holds(r, a, t)
  PROVE  From(Tail(r), a, Len(t)) = t
<1> DEFINE n == Len(r)
           k == Len(t)
           body == Tail(r)
           b == a + k - 1
<1>1. n \in Nat /\ k \in Nat /\ a + k <= n /\ n > 0
  <2>1. n \in Nat /\ k \in Nat /\ a + k <= n
    BY DEF Holds
  <2> QED
    BY <2>1
<1>2. body \in Seq(Nat) /\ Len(body) = n - 1 /\ \A i \in 1..(n - 1) : body[i] = r[i + 1]
  <2>1. r # <<>>
    BY <1>1
  <2> QED
    BY <2>1, HeadTailProperties
<1> HIDE DEF n, body
<1>3. \A i \in 1..k : body[a + i - 1] = t[i]
  <2> SUFFICES ASSUME NEW i \in 1..k PROVE body[a + i - 1] = t[i]
    OBVIOUS
  <2>1. a + i - 1 \in 1..(n - 1) /\ (a + i - 1) + 1 = a + i
    BY <1>1
  <2>2. r[a + i] = t[i]
    BY DEF Holds
  <2> QED
    BY <1>2, <2>1, <2>2
<1>4. a - 1 <= b /\ b <= Len(body) /\ a \in 1..(Len(body) + 1) /\ b \in Int /\ b - a + 1 = k
  BY <1>1, <1>2
<1>5. SubSeq(body, a, b) = [i \in 1..k |-> body[a + i - 1]]
  <2>1. SubSeq(body, a, b) = [i \in 1..(b - a + 1) |-> body[a + i - 1]]
    OBVIOUS
  <2> QED
    BY <1>4, <2>1
<1>6. t = [i \in 1..k |-> t[i]]
  BY LenProperties
<1>7. SubSeq(body, a, b) = t
  BY <1>3, <1>5, <1>6
<1> QED
  BY <1>7 DEF From, body

\* The same for one byte.
LEMMA ByteOfBody ==
  ASSUME NEW r \in Seq(Nat), NEW x \in Nat, NEW a \in Nat \ {0}, Holds(r, a, <<x>>)
  PROVE  Tail(r)[a] = x
<1> DEFINE t == <<x>>
           n == Len(r)
<1>1. Len(t) = 1 /\ t[1] = x /\ 1 \in 1..1
  OBVIOUS
<1> HIDE DEF t
<1>2. n \in Nat /\ a + 1 <= n /\ r[a + 1] = x
  BY <1>1 DEF Holds, t
<1>3. \A i \in 1..(n - 1) : Tail(r)[i] = r[i + 1]
  <2>1. r # <<>>
    BY <1>2
  <2> QED
    BY <2>1, HeadTailProperties
<1> HIDE DEF n
<1>4. a \in 1..(n - 1)
  BY <1>2
<1> QED
  BY <1>2, <1>3, <1>4

\* Where the request has what (gui.c:375).
LaidOut(r, s, a) ==
  /\ r \in Seq(Nat) /\ Len(r) = 17 + Len(s.ssid) + Len(s.psk)
  /\ Holds(r, 3, <<s.enabled>>) /\ Holds(r, 4, <<s.mode>>) /\ Holds(r, 5, a) /\ Holds(r, 14, <<s.v6>>)
  /\ Holds(r, 15, <<Len(s.ssid)>>) /\ Holds(r, 16, s.ssid)
  /\ Holds(r, 16 + Len(s.ssid), <<Len(s.psk)>>) /\ Holds(r, 17 + Len(s.ssid), s.psk)

\* Each part is added behind the others, and stays.
LEMMA RequestLaidOut ==
  ASSUME NEW s, s.enabled \in Nat, s.mode \in Nat, s.v6 \in Nat, s.ssid \in Seq(Nat), s.psk \in Seq(Nat),
         NEW a \in Seq(Nat), Len(a) = 9, a = Addresses(s)
  PROVE  LaidOut(Request(s), s, a)
<1> DEFINE head == <<Opcode, 0, 1, s.enabled, s.mode>>
           enabled == <<s.enabled>>
           mode == <<s.mode>>
           v6 == <<s.v6>>
           ssid == s.ssid
           psk == s.psk
           n1 == <<Len(ssid)>>
           n2 == <<Len(psk)>>
           n == Len(ssid)
           r1 == head \o a
           r2 == r1 \o v6
           r3 == r2 \o n1
           r4 == r3 \o ssid
           r5 == r4 \o n2
           r6 == r5 \o psk
<1>1. Request(s) = r6
  BY DEF Request
<1>2. head \in Seq(Nat) /\ Len(head) = 5 /\ Holds(head, 3, enabled) /\ Holds(head, 4, mode)
  BY DEF Opcode, Holds
<1>3. ssid \in Seq(Nat) /\ psk \in Seq(Nat) /\ n \in Nat /\ Len(psk) \in Nat
  OBVIOUS
<1>4. /\ enabled \in Seq(Nat) /\ mode \in Seq(Nat) /\ v6 \in Seq(Nat) /\ n1 \in Seq(Nat) /\ n2 \in Seq(Nat)
      /\ Len(v6) = 1 /\ Len(n1) = 1 /\ Len(n2) = 1
  BY <1>3
<1> HIDE DEF r6
<1>5. r6 \in Seq(Nat) /\ Len(r6) = Len(r5) + Len(psk) /\ Begins(r5, r6) /\ Holds(r6, Len(r5), psk)
      /\ r5 \in Seq(Nat) /\ Len(r5) = Len(r4) + 1 /\ Begins(r4, r5) /\ Holds(r5, Len(r4), n2)
      /\ r4 \in Seq(Nat) /\ Len(r4) = Len(r3) + n /\ Begins(r3, r4) /\ Holds(r4, Len(r3), ssid)
      /\ r3 \in Seq(Nat) /\ Len(r3) = 15 + 1 /\ Begins(r2, r3) /\ Holds(r3, 15, n1)
      /\ r2 \in Seq(Nat) /\ Len(r2) = 14 + 1 /\ Begins(r1, r2) /\ Holds(r2, 14, v6)
      /\ r1 \in Seq(Nat) /\ Len(r1) = 14 /\ Begins(head, r1) /\ Holds(r1, 5, a)
  <2> HIDE DEF head, enabled, mode, v6, ssid, psk, n1, n2, n
  <2>1. r1 \in Seq(Nat) /\ Len(r1) = 14 /\ Begins(head, r1) /\ Holds(r1, 5, a)
    <3>1. Adds(head, a, r1)
      BY <1>2, HoldsBehind
    <3>2. r1 \in Seq(Nat) /\ Len(r1) = Len(head) + Len(a) /\ Begins(head, r1) /\ Holds(r1, Len(head), a)
      BY <3>1 DEF Adds
    <3> HIDE DEF r1
    <3>3. Len(head) = 5 /\ Len(a) = 9
      BY <1>2
    <3>4. Len(r1) = 14
      BY <3>2, <3>3
    <3>5. Holds(r1, 5, a)
      BY <3>2, <3>3, Zenon
    <3> QED
      BY <3>2, <3>4, <3>5
  <2> HIDE DEF r1
  <2>2. r2 \in Seq(Nat) /\ Len(r2) = 14 + 1 /\ Begins(r1, r2) /\ Holds(r2, 14, v6)
    <3>1. Adds(r1, v6, r2)
      BY <1>4, <2>1, HoldsBehind
    <3> QED
      BY <1>4, <2>1, <3>1 DEF Adds
  <2> HIDE DEF r2
  <2>3. r3 \in Seq(Nat) /\ Len(r3) = 15 + 1 /\ Begins(r2, r3) /\ Holds(r3, 15, n1)
    <3>1. Adds(r2, n1, r3)
      BY <1>4, <2>2, HoldsBehind
    <3> QED
      BY <1>4, <2>2, <3>1 DEF Adds
  <2> HIDE DEF r3
  <2>4. r4 \in Seq(Nat) /\ Len(r4) = Len(r3) + n /\ Begins(r3, r4) /\ Holds(r4, Len(r3), ssid)
    <3>1. Adds(r3, ssid, r4)
      BY <1>3, <2>3, HoldsBehind DEF n
    <3> QED
      BY <1>3, <2>3, <3>1 DEF Adds, n
  <2> HIDE DEF r4
  <2>5. r5 \in Seq(Nat) /\ Len(r5) = Len(r4) + 1 /\ Begins(r4, r5) /\ Holds(r5, Len(r4), n2)
    <3>1. Adds(r4, n2, r5)
      BY <1>4, <2>4, HoldsBehind
    <3> QED
      BY <1>4, <2>4, <3>1 DEF Adds
  <2> HIDE DEF r5
  <2>6. r6 \in Seq(Nat) /\ Len(r6) = Len(r5) + Len(psk) /\ Begins(r5, r6) /\ Holds(r6, Len(r5), psk)
    <3>1. Adds(r5, psk, r6)
      BY <1>3, <2>5, HoldsBehind DEF r6
    <3> QED
      BY <1>3, <2>5, <3>1 DEF Adds
  <2> QED
    BY <2>1, <2>2, <2>3, <2>4, <2>5, <2>6
<1> HIDE DEF head, enabled, mode, v6, ssid, psk, n1, n2, n, r1, r2, r3, r4, r5
<1>6. Begins(r4, r6)
  BY <1>5, BeginsTransitive
<1>7. Begins(r3, r6)
  BY <1>5, <1>6, BeginsTransitive
<1>8. Begins(r2, r6)
  BY <1>5, <1>7, BeginsTransitive
<1>9. Begins(r1, r6)
  BY <1>5, <1>8, BeginsTransitive
<1>10. Begins(head, r6)
  BY <1>2, <1>5, <1>9, BeginsTransitive
<1>11. Holds(r6, 3, enabled) /\ Holds(r6, 4, mode)
  BY <1>2, <1>4, <1>5, <1>10, HoldsBegins
<1>12. Holds(r6, 5, a)
  BY <1>5, <1>9, HoldsBegins
<1>13. Holds(r6, 14, v6)
  <2>1. 14 \in Nat
    OBVIOUS
  <2>2. r2 \in Seq(Nat) /\ r6 \in Seq(Nat) /\ v6 \in Seq(Nat) /\ Holds(r2, 14, v6)
    BY <1>4, <1>5
  <2> QED
    BY <1>8, <2>1, <2>2, HoldsBegins
<1>14. Holds(r6, 15, n1)
  BY <1>4, <1>5, <1>7, HoldsBegins
<1>15. Len(r3) = 16 /\ Len(r4) = 16 + n /\ Len(r5) = 17 + n /\ Len(r6) = 17 + n + Len(psk)
       /\ Len(r3) \in Nat /\ Len(r4) \in Nat
  BY <1>3, <1>5
<1>16. Holds(r6, 16, ssid)
  <2>1. Holds(r6, Len(r3), ssid)
    BY <1>3, <1>5, <1>6, <1>15, HoldsBegins
  <2> QED
    BY <1>15, <2>1
<1>17. Holds(r6, 16 + n, n2)
  <2>1. Holds(r6, Len(r4), n2)
    BY <1>4, <1>5, <1>15, HoldsBegins
  <2> QED
    BY <1>15, <2>1
<1>18. Holds(r6, 17 + n, psk)
  BY <1>5, <1>15
<1> QED
  BY <1>1, <1>5, <1>11, <1>12, <1>13, <1>14, <1>15, <1>16, <1>17, <1>18
     DEF LaidOut, enabled, mode, v6, ssid, psk, n1, n2, n

\* An address is four bytes, a proper prefix length one.
LEMMA QuadIsFour ==
  ASSUME NEW text \in Seq(Nat), IsAddress(text)
  PROVE  Quad(text) \in [1..4 -> Nat] /\ Quad(text) \in Seq(Nat) /\ Len(Quad(text)) = 4
<1>1. PICK p : Split(text, p) /\ Octets(text, p)
  BY DEF IsAddress
<1>2. ASSUME NEW n \in 1..4 PROVE Number(text, Octet(text, n)) \in Nat
  <2>1. IsDecimal(text, p[n - 1], p[n])
    BY <1>1 DEF Octets
  <2>2. Number(text, Octet(text, n)) = Value(text, p[n - 1], p[n])
    BY <1>1, <2>1, OctetIs
  <2> QED
    BY <2>1, <2>2, ValueIs
<1>3. Quad(text) \in [1..4 -> Nat]
  BY <1>2 DEF Quad
<1> DEFINE q == Quad(text)
<1> HIDE DEF q
<1>4. q \in [1..4 -> Nat] => q \in Seq(Nat) /\ Len(q) = 4
  BY TupleLength
<1> QED
  BY <1>3, <1>4 DEF q

LEMMA PrefixIsByte ==
  ASSUME NEW text \in Seq(Nat), Len(text) <= 2, Proper("prefix", text)
  PROVE  ParsePrefix(text) = Number(text, 1..Len(text)) /\ Number(text, 1..Len(text)) \in Nat
<1> DEFINE v == NumberOf(text)
<1>1. ParsePrefix(text) = Number(text, 1..Len(text)) /\ IsValidPrefix(text)
  BY PrefixIsProper
<1>2. ParsePrefix(text) = v % 256
  BY DEF ParsePrefix
<1>3. Len(text) \in Nat /\ Len(text) # 0 /\ \A i \in 1..Len(text) : text[i] \in Digit
  <2>1. Len(DigitsOf(text)) > 0 /\ DigitsOf(text) = text
    BY <1>1 DEF IsValidPrefix
  <2> QED
    BY <2>1, AllDigits
<1> DEFINE n == Len(text)
<1>4. n \in 1..2
  <2>1. n \in Nat /\ n # 0 /\ n <= 2
    BY <1>3
  <2> HIDE DEF n
  <2> QED
    BY <2>1
<1>5. (n + 1) - 1 = n /\ 0 + 1 = 1 /\ n + 1 \in Nat /\ IsDecimal(text, 0, n + 1)
  <2>1. \A i \in 1..n : text[i] \in Digit
    BY <1>3
  <2>2. 0 \in 0..n /\ n + 1 \in 1..(n + 1) /\ (n + 1) - 0 \in 2..4 /\ (n + 1) - 1 = n /\ 0 + 1 = 1
    <3> HIDE DEF n
    <3> QED
      BY <1>4
  <2> QED
    BY <1>4, <2>1, <2>2 DEF IsDecimal
<1>6. Number(text, (0 + 1)..((n + 1) - 1)) \in Nat
  BY <1>5, NumberIs
<1>7. Number(text, 1..n) \in Nat
  BY <1>5, <1>6
<1> QED
  BY <1>1, <1>7

\* The nine bytes of the addresses.
LEMMA AddressesHold ==
  ASSUME NEW s, NEW p \in Seq(Nat), NEW x \in Nat, NEW g \in Seq(Nat), Len(p) = 4, Len(g) = 4,
         Addresses(s) = p \o <<x>> \o g
  PROVE  /\ Addresses(s) \in Seq(Nat) /\ Len(Addresses(s)) = 9
         /\ Holds(Addresses(s), 0, p) /\ Holds(Addresses(s), 4, <<x>>) /\ Holds(Addresses(s), 5, g)
<1> DEFINE t == <<x>>
           e == p \o t
           a == e \o g
<1>1. t \in Seq(Nat) /\ Len(t) = 1 /\ 4 \in Nat /\ 0 \in Nat
  OBVIOUS
<1> HIDE DEF t
<1>2. e \in Seq(Nat) /\ Len(e) = 5 /\ Begins(p, e) /\ Holds(e, 4, t)
  <2>1. Adds(p, t, e)
    BY <1>1, HoldsBehind
  <2> QED
    BY <1>1, <2>1 DEF Adds
<1> HIDE DEF e
<1>3. a \in Seq(Nat) /\ Len(a) = 9 /\ Begins(e, a) /\ Holds(a, 5, g)
  <2>1. Adds(e, g, a)
    BY <1>2, HoldsBehind
  <2> QED
    BY <1>2, <2>1 DEF Adds
<1>4. Addresses(s) = a
  BY DEF a, e, t
<1> HIDE DEF a
<1>5. Holds(a, 4, t)
  BY <1>1, <1>2, <1>3, HoldsBegins
<1>6. Holds(e, 0, p)
  BY <1>2 DEF Begins, Holds
<1>7. Holds(a, 0, p)
  BY <1>1, <1>2, <1>3, <1>6, HoldsBegins
<1> QED
  BY <1>3, <1>4, <1>5, <1>7 DEF t

\* What the device makes of a request.
LEMMA RequestParsed ==
  ASSUME NEW s, s.enabled \in Nat, s.mode \in Nat, s.v6 \in Nat, s.ssid \in Seq(Nat), s.psk \in Seq(Nat),
         NEW p \in Seq(Nat), NEW x \in Nat, NEW g \in Seq(Nat), Len(p) = 4, Len(g) = 4,
         Addresses(s) = p \o <<x>> \o g
  PROVE  ParseSetNetif(Tail(Request(s))) =
           <<[enabled |-> s.enabled, mode |-> s.mode, ip |-> p, prefix |-> x, gateway |-> g,
              v6 |-> s.v6, ssid |-> s.ssid, psk |-> s.psk]>>
<1> DEFINE a == Addresses(s)
           r == Request(s)
           body == Tail(r)
           n == Len(s.ssid)
           m == Len(s.psk)
<1>1. a \in Seq(Nat) /\ Len(a) = 9 /\ Holds(a, 0, p) /\ Holds(a, 4, <<x>>) /\ Holds(a, 5, g)
  BY AddressesHold
<1>2. n \in Nat /\ m \in Nat
  OBVIOUS
<1>3. LaidOut(r, s, a)
  BY <1>1, RequestLaidOut
<1> HIDE DEF a, r
<1>4. /\ r \in Seq(Nat) /\ Len(r) = 17 + n + m
      /\ Holds(r, 3, <<s.enabled>>) /\ Holds(r, 4, <<s.mode>>) /\ Holds(r, 5, a) /\ Holds(r, 14, <<s.v6>>)
      /\ Holds(r, 15, <<n>>) /\ Holds(r, 16, s.ssid)
      /\ Holds(r, 16 + n, <<m>>) /\ Holds(r, 17 + n, s.psk)
  BY <1>3 DEF LaidOut
<1> HIDE DEF n, m
<1>5. 3 \in Nat \ {0} /\ 4 \in Nat \ {0} /\ 5 \in Nat \ {0} /\ 9 \in Nat \ {0} /\ 10 \in Nat \ {0}
      /\ 14 \in Nat \ {0} /\ 15 \in Nat \ {0} /\ 16 \in Nat \ {0} /\ 0 \in Nat
      /\ 16 + n \in Nat \ {0} /\ 17 + n \in Nat \ {0}
      /\ 5 + 0 = 5 /\ 5 + 4 = 9 /\ 5 + 5 = 10 /\ (16 + n) + 1 = 17 + n
  BY <1>2
<1>6. body[3] = s.enabled /\ body[4] = s.mode /\ body[14] = s.v6
  BY <1>4, <1>5, ByteOfBody
<1>7. body[15] = n /\ body[16 + n] = m
  BY <1>2, <1>4, <1>5, ByteOfBody
<1>8. From(body, 5, 4) = p
  <2>1. Holds(r, 5 + 0, p)
    BY <1>1, <1>4, <1>5, HoldsWithin
  <2>2. Holds(r, 5, p)
    BY <1>5, <2>1
  <2>3. From(body, 5, Len(p)) = p
    BY <1>4, <1>5, <2>2, FromBody
  <2> QED
    BY <2>3
<1>9. body[9] = x
  <2>1. <<x>> \in Seq(Nat)
    OBVIOUS
  <2>2. Holds(r, 5 + 4, <<x>>)
    BY <1>1, <1>4, <1>5, <2>1, HoldsWithin
  <2>3. Holds(r, 9, <<x>>)
    BY <1>5, <2>2
  <2> QED
    BY <1>4, <1>5, <2>3, ByteOfBody
<1>10. From(body, 10, 4) = g
  <2>1. Holds(r, 5 + 5, g)
    BY <1>1, <1>4, <1>5, HoldsWithin
  <2>2. Holds(r, 10, g)
    BY <1>5, <2>1
  <2>3. From(body, 10, Len(g)) = g
    BY <1>4, <1>5, <2>2, FromBody
  <2> QED
    BY <2>3
<1>11. From(body, 16, n) = s.ssid
  BY <1>4, <1>5, FromBody DEF n
<1>12. From(body, (16 + n) + 1, m) = s.psk
  <2>1. From(body, 17 + n, m) = s.psk
    BY <1>4, <1>5, FromBody DEF m
  <2> QED
    BY <1>5, <2>1
<1>13. Len(body) = 16 + n + m
  <2>1. r # <<>>
    BY <1>2, <1>4
  <2>2. Len(body) = Len(r) - 1
    BY <1>4, <2>1, HeadTailProperties
  <2>3. Len(r) = 17 + n + m
    BY <1>4
  <2> HIDE DEF body
  <2> QED
    BY <1>2, <2>2, <2>3
<1>14. ~ (Len(body) < 15 \/ Len(body) < 16 + n \/ Len(body) # (16 + n) + m)
  BY <1>2, <1>13
<1> HIDE DEF body
<1>15. ParseSetNetif(body) =
         <<[enabled |-> body[3], mode |-> body[4], ip |-> From(body, 5, 4), prefix |-> body[9],
            gateway |-> From(body, 10, 4), v6 |-> body[14],
            ssid |-> From(body, 16, n), psk |-> From(body, (16 + n) + 1, m)]>>
  BY <1>7, <1>14, Zenon DEF ParseSetNetif
<1> QED
  BY <1>6, <1>8, <1>9, <1>10, <1>11, <1>12, <1>15, Zenon DEF body, r

\* Without static addresses they are zeros.
LEMMA ZeroAddresses == Zero \in Seq(Nat) /\ Len(Zero) = 4 /\ [i \in 1..9 |-> 0] = Zero \o <<0>> \o Zero
<1> DEFINE t == <<0>>
           e == Zero \o t
           a == e \o Zero
           b == [i \in 1..9 |-> 0]
<1>1. Zero \in Seq(Nat) /\ Len(Zero) = 4 /\ \A i \in 1..4 : Zero[i] = 0
  <2>1. Zero \in [1..4 -> Nat] /\ 4 \in Nat /\ \A i \in 1..4 : Zero[i] = 0
    BY DEF Zero
  <2> QED
    BY <2>1, TupleLength
<1>2. t \in Seq(Nat) /\ Len(t) = 1 /\ \A i \in 1..1 : t[i] = 0
  OBVIOUS
<1>3. b \in Seq(Nat) /\ Len(b) = 9 /\ \A i \in 1..9 : b[i] = 0
  <2>1. b \in [1..9 -> Nat] /\ 9 \in Nat /\ \A i \in 1..9 : b[i] = 0
    OBVIOUS
  <2> HIDE DEF b
  <2> QED
    BY <2>1, TupleLength
<1> HIDE DEF t, b
<1>4. /\ e \in Seq(Nat) /\ Len(e) = Len(Zero) + Len(t)
      /\ \A i \in 1..Len(Zero) : e[i] = Zero[i]
      /\ \A i \in 1..Len(t) : e[Len(Zero) + i] = t[i]
  BY <1>1, <1>2, ConcatPlaces
<1> HIDE DEF e
<1>5. Len(e) = 5 /\ \A i \in 1..5 : e[i] = 0
  <2>1. Len(e) = 5
    BY <1>1, <1>2, <1>4
  <2>2. \A i \in 1..5 : i \in 1..4 \/ (1 \in 1..1 /\ i = 4 + 1)
    OBVIOUS
  <2> QED
    BY <1>1, <1>2, <1>4, <2>1, <2>2
<1>6. /\ a \in Seq(Nat) /\ Len(a) = Len(e) + Len(Zero)
      /\ \A i \in 1..Len(e) : a[i] = e[i]
      /\ \A i \in 1..Len(Zero) : a[Len(e) + i] = Zero[i]
  BY <1>1, <1>4, ConcatPlaces
<1> HIDE DEF a
<1>7. Len(a) = 9 /\ \A i \in 1..9 : a[i] = 0
  <2>1. Len(a) = 9
    BY <1>1, <1>5, <1>6
  <2>2. \A i \in 1..9 : i \in 1..5 \/ (i - 5 \in 1..4 /\ i = 5 + (i - 5))
    OBVIOUS
  <2> QED
    BY <1>1, <1>5, <1>6, <2>1, <2>2
<1>8. a = b
  BY <1>3, <1>6, <1>7, SeqEqual
<1> QED
  BY <1>1, <1>8 DEF a, b, e, t

-----------------------------------------------------------------------------
(* The sizes *)

\* A text the program may hold: no longer than its editor lets it be.
Sized(f, text) == text \in Seq(Nat) /\ Len(text) <= MaxChars[f]
\* What may leave the editor of a passphrase.
Accepted(f, text) == f = "psk" => Len(text) <= 63

SizesInv ==
  /\ form = [enabled |-> form.enabled, ssid |-> form.ssid, psk |-> form.psk,
             mode |-> form.mode, ip |-> form.ip, prefix |-> form.prefix,
             gateway |-> form.gateway, v6 |-> form.v6]
  /\ form.enabled \in {0, 1} /\ form.mode \in {0, 1} /\ form.v6 \in {0, 1}
  /\ \A f \in Fields : Sized(f, form[f])
  /\ field \in Fields /\ Sized(field, backup) /\ Accepted(field, backup)
  /\ stage \in {"menu", "editor", "applied"}
  /\ \A f \in Fields : stage # "editor" \/ f # field => Accepted(f, form[f])
  /\ setRequest = IF stage = "applied" THEN Request(form) ELSE <<>>

LEMMA Sizes ==
  /\ \A n \in 0..32 : n \in 0..255 /\ n <= 99
  /\ \A n : n = 0 \/ n \in 8..63 => n <= 63
  /\ MaxChars["ssid"] = 32 /\ MaxChars["psk"] = 64 /\ MaxChars["ip"] = 15
  /\ MaxChars["prefix"] = 2 /\ MaxChars["gateway"] = 15
BY DEF MaxChars

LEMMA SizesInit == FieldsInit => SizesInv
<1> SUFFICES ASSUME FieldsInit PROVE SizesInv
  OBVIOUS
<1>1. PICK r \in DeviceReports : form = FromReport(r)
  BY DEF FieldsInit
<1>2. /\ r.enabled \in {0, 1} /\ r.ssid \in Seq(Nat) /\ Len(r.ssid) <= 32
      /\ r.ip \in [1..4 -> 0..255] /\ r.prefix \in 0..32 /\ r.gateway \in [1..4 -> 0..255]
  BY FieldsAssumption
<1>3. /\ Sized("ip", Dotted(r.ip)) /\ Sized("gateway", Dotted(r.gateway))
      /\ Sized("prefix", Decimal(r.prefix))
  <2>1. r.prefix \in 0..255 /\ r.prefix <= 99
    BY <1>2, Sizes
  <2>2. Sized("prefix", Decimal(r.prefix))
    BY <2>1, DecimalLength DEF Sized, MaxChars
  <2> QED
    BY <1>2, <2>2, DottedLength DEF Sized, MaxChars
<1>4. Sized("ssid", r.ssid) /\ Sized("psk", <<>>) /\ Sized("ssid", <<>>)
  BY <1>2 DEF Sized, MaxChars
<1>5. \A f \in Fields : Sized(f, form[f])
  BY <1>1, <1>3, <1>4 DEF Fields, FromReport
<1>6. Accepted("psk", <<>>)
  BY DEF Accepted
<1> QED
  BY <1>1, <1>2, <1>4, <1>5, <1>6 DEF FieldsInit, SizesInv, FromReport, Fields, Accepted

\* Every action keeps the sizes.
LEMMA SizesStep == SizesInv /\ [FieldsNext]_fieldsVars => SizesInv'
<1> SUFFICES ASSUME SizesInv, [FieldsNext]_fieldsVars PROVE SizesInv'
  OBVIOUS
<1>1. CASE EditField
  <2>1. PICK f \in Fields : field' = f /\ backup' = form[f]
    BY <1>1 DEF EditField
  <2>2. Sized(f, form[f]) /\ Accepted(f, form[f])
    BY <1>1 DEF EditField, SizesInv
  <2> QED
    BY <1>1, <2>1, <2>2 DEF EditField, SizesInv
<1>2. CASE Enter
  <2>1. PICK text \in Entered :
          /\ form' = [form EXCEPT ![field] = text]
          /\ stage' = IF Validator(field, text) THEN "menu" ELSE "editor"
    BY <1>2 DEF Enter
  <2>2. Sized(field, text)
    BY FieldsAssumption DEF Entered, SizesInv, Sized
  <2>3. field = "psk" /\ Validator(field, text) => Len(text) <= 63
    <3>1. ASSUME field = "psk", Validator(field, text) PROVE IsValidPsk(text)
      BY <3>1 DEF Validator
    <3>2. IsValidPsk(text) => Len(text) <= 63
      BY Sizes DEF IsValidPsk
    <3> QED
      BY <3>1, <3>2
  <2>4. \A f \in Fields : form'[f] = IF f = field THEN text ELSE form[f]
    BY <2>1 DEF SizesInv, Fields
  <2>5. \A f \in Fields : Sized(f, form'[f])
    BY <2>2, <2>4 DEF SizesInv
  <2>6. \A f \in Fields : stage' # "editor" \/ f # field => Accepted(f, form'[f])
    BY <1>2, <2>1, <2>3, <2>4 DEF Enter, SizesInv, Accepted
  <2> QED
    BY <1>2, <2>1, <2>5, <2>6 DEF Enter, SizesInv, Fields
<1>3. CASE Escape
  <2>1. \A f \in Fields : form'[f] = IF f = field THEN backup ELSE form[f]
    BY <1>3 DEF Escape, SizesInv, Fields
  <2>2. \A f \in Fields : Sized(f, form'[f]) /\ Accepted(f, form'[f])
    BY <1>3, <2>1 DEF Escape, SizesInv
  <2> QED
    BY <1>3, <2>2 DEF Escape, SizesInv, Fields
<1>4. CASE Toggle
  <2>1. PICK what \in {"enabled", "mode", "v6"} : form' = [form EXCEPT ![what] = 1 - @]
    BY <1>4 DEF Toggle
  <2>2. /\ form'.enabled \in {0, 1} /\ form'.mode \in {0, 1} /\ form'.v6 \in {0, 1}
        /\ \A f \in Fields : form'[f] = form[f]
    BY <2>1 DEF SizesInv, Fields
  <2>3. form' = [enabled |-> form'.enabled, ssid |-> form'.ssid, psk |-> form'.psk,
                  mode |-> form'.mode, ip |-> form'.ip, prefix |-> form'.prefix,
                  gateway |-> form'.gateway, v6 |-> form'.v6]
    BY <2>1 DEF SizesInv
  <2> QED
    BY <1>4, <2>2, <2>3 DEF Toggle, SizesInv
<1>5. CASE Apply
  BY <1>5 DEF Apply, SizesInv
<1>6. CASE Applied
  BY <1>6 DEF Applied, SizesInv
<1>7. CASE UNCHANGED fieldsVars
  BY <1>7 DEF fieldsVars, SizesInv
<1> QED
  BY <1>1, <1>2, <1>3, <1>4, <1>5, <1>6, <1>7 DEF FieldsNext

\* No text of the settings, of a report or of a field grows past the array it is
\* kept in, whatever is typed, reported or looked up (gui_iface.c, valid.c).
THEOREM SizesInvariant == FieldsSpec => []SizesInv
BY SizesInit, SizesStep, PTL DEF FieldsSpec

\* The SET_NETIF request fits its 112 bytes and the menus theirs, for any texts
\* typed and any report (pftc_proto.h:76-80, gui_iface.c:28, gui_ip.c:13).
THEOREM TextsFitHolds == FieldsSpec => []TextsFit
<1>1. SizesInv => TextsFit
  <2> SUFFICES ASSUME SizesInv PROVE TextsFit
    OBVIOUS
  <2> DEFINE n(f) == Len(form[f])
  <2>1. \A f \in Fields : n(f) \in Nat /\ n(f) <= MaxChars[f]
    BY DEF SizesInv, Sized
  <2>2. stage # "editor" => n("psk") <= 63
    BY DEF SizesInv, Fields, Accepted
  <2>3. /\ Len(form.ssid) = n("ssid") /\ Len(form.psk) = n("psk") /\ Len(form.ip) = n("ip")
        /\ Len(form.prefix) = n("prefix") /\ Len(form.gateway) = n("gateway")
    OBVIOUS
  <2> HIDE DEF n
  <2> DEFINE a == n("ssid")
             b == n("psk")
             c == n("ip")
             d == n("prefix")
             g == n("gateway")
  <2>4. a \in 0..32 /\ b \in 0..64 /\ c \in 0..15 /\ d \in 0..2 /\ g \in 0..15
    BY <2>1, Sizes DEF Fields
  <2> HIDE DEF a, b, c, d, g
  <2>5. Len(setRequest) <= RequestSize
    <3>1. CASE stage = "applied"
      <4>1. form.ssid \in Seq(Nat) /\ form.psk \in Seq(Nat)
        BY DEF SizesInv, Fields, Sized
      <4>2. Len(setRequest) = 17 + a + b
        BY <2>3, <3>1, <4>1, RequestLength DEF SizesInv, a, b
      <4>3. b <= 63
        BY <2>2, <3>1 DEF b
      <4> QED
        BY <2>4, <4>2, <4>3 DEF RequestSize
    <3>2. CASE stage # "applied"
      BY <3>2 DEF SizesInv, RequestSize
    <3> QED
      BY <3>1, <3>2
  <2> DEFINE e == form.enabled
             v == form.v6
  <2>6. e \in {0, 1} /\ v \in {0, 1}
    BY DEF SizesInv
  <2>7. /\ NetMenuBytes(form) = 17 + 12 + e + 5 * e + (IF e = 1 THEN 7 + a + 6 + b ELSE 0) + 6
        /\ IpMenuBytes(form) = 12 + (IF form.mode = 1 THEN 13 + 5 + c + 9 + d + 10 + g ELSE 11)
                                   + 9 + v + 6
    BY <2>3 DEF NetMenuBytes, IpMenuBytes, a, b, c, d, g
  <2> HIDE DEF e, v
  <2>8. NetMenuBytes(form) <= NetMenuSize /\ IpMenuBytes(form) <= IpMenuSize
    BY <2>4, <2>6, <2>7 DEF NetMenuSize, IpMenuSize
  <2> QED
    BY <2>5, <2>8 DEF TextsFit
<1> QED
  BY <1>1, SizesInvariant, PTL

-----------------------------------------------------------------------------
(* The texts *)

\* The validators of valid.c accept exactly the texts that mean something.
THEOREM ValidatorIsProper ==
  ASSUME NEW f \in Fields, NEW text, Sized(f, text)
  PROVE  Validator(f, text) <=> Proper(f, text)
<1>1. text \in Seq(Nat) /\ Len(text) <= MaxChars[f]
  BY DEF Sized
<1>2. CASE f \in {"ip", "gateway"}
  <2>1. Validator(f, text) <=> IsValidIpv4(text)
    BY <1>2 DEF Validator
  <2>2. IsValidIpv4(text) <=> IsAddress(text)
    BY <1>1, ValidAddress
  <2>3. Proper(f, text) <=> IsAddress(text)
    BY <1>1, <1>2, ProperAddress
  <2> QED
    BY <2>1, <2>2, <2>3
<1>3. CASE f = "prefix"
  <2>1. Validator(f, text) <=> IsValidPrefix(text)
    BY <1>3 DEF Validator
  <2>2. Len(text) <= 2
    BY <1>1, <1>3, Sizes
  <2>3. IsValidPrefix(text) <=> Proper("prefix", text)
    BY <1>1, <2>2, PrefixIsProper
  <2> QED
    BY <1>3, <2>1, <2>3
<1>4. CASE f = "psk"
  BY <1>4 DEF Validator, Proper, IsValidPsk
<1>5. CASE f = "ssid"
  <2>1. Len(text) <= 32
    BY <1>1, <1>5, Sizes
  <2> QED
    BY <1>5, <2>1 DEF Validator, Proper
<1> QED
  BY <1>2, <1>3, <1>4, <1>5 DEF Fields

\* Every text but the one in the editor is proper, and so is the one it would go
\* back to; the editor holds a proper text only before the first Enter.
TextsInv ==
  /\ SizesInv
  /\ \A f \in Fields : stage # "editor" \/ f # field => Proper(f, form[f])
  /\ stage = "editor" => /\ Proper(field, backup)
                         /\ Proper(field, form[field]) => form[field] = backup

LEMMA TextsInit == FieldsInit => TextsInv
<1> SUFFICES ASSUME FieldsInit PROVE TextsInv
  OBVIOUS
<1>1. PICK r \in DeviceReports : form = FromReport(r)
  BY DEF FieldsInit
<1>2. /\ r.ssid \in Seq(Nat) /\ Len(r.ssid) <= 32
      /\ r.ip \in [1..4 -> 0..255] /\ r.prefix \in 0..32 /\ r.gateway \in [1..4 -> 0..255]
  BY FieldsAssumption
<1>3. Proper("ip", Dotted(r.ip)) /\ Proper("gateway", Dotted(r.gateway))
  <2>1. Dotted(r.ip) \in Seq(Nat) /\ IsAddress(Dotted(r.ip))
    BY <1>2, DottedProper, DottedLength
  <2>2. Dotted(r.gateway) \in Seq(Nat) /\ IsAddress(Dotted(r.gateway))
    BY <1>2, DottedProper, DottedLength
  <2>3. "ip" \in {"ip", "gateway"} /\ "gateway" \in {"ip", "gateway"}
    OBVIOUS
  <2>4. Proper("ip", Dotted(r.ip))
    BY <2>1, <2>3, ProperAddress
  <2>5. Proper("gateway", Dotted(r.gateway))
    BY <2>2, <2>3, ProperAddress
  <2> QED
    BY <2>4, <2>5
<1>4. Proper("prefix", Decimal(r.prefix))
  BY <1>2, DecimalIsProper
<1>5. Proper("ssid", r.ssid) /\ Proper("psk", <<>>)
  BY <1>2 DEF Proper
<1>6. \A f \in Fields : Proper(f, form[f])
  <2>1. /\ form["ssid"] = r.ssid /\ form["psk"] = <<>> /\ form["ip"] = Dotted(r.ip)
        /\ form["prefix"] = Decimal(r.prefix) /\ form["gateway"] = Dotted(r.gateway)
    BY <1>1 DEF FromReport
  <2> QED
    BY <1>3, <1>4, <1>5, <2>1, Zenon DEF Fields
<1>7. stage # "editor"
  BY DEF FieldsInit
<1> QED
  BY <1>6, <1>7, SizesInit DEF TextsInv

LEMMA TextsStep == TextsInv /\ [FieldsNext]_fieldsVars => TextsInv'
<1> SUFFICES ASSUME TextsInv, [FieldsNext]_fieldsVars PROVE TextsInv'
  OBVIOUS
<1>1. SizesInv /\ SizesInv'
  BY SizesStep DEF TextsInv
<1>2. \A f \in Fields : stage # "editor" \/ f # field => Proper(f, form[f])
  BY DEF TextsInv
<1>3. CASE EditField
  <2>1. PICK f \in Fields : field' = f /\ backup' = form[f]
    BY <1>3 DEF EditField
  <2>2. stage = "menu" /\ stage' = "editor" /\ form' = form
    BY <1>3 DEF EditField
  <2>3. \A g \in Fields : Proper(g, form'[g])
    BY <1>2, <2>2
  <2>4. Proper(field', backup') /\ form'[field'] = backup'
    BY <2>1, <2>2, <2>3
  <2> QED
    BY <1>1, <2>3, <2>4 DEF TextsInv
<1>4. CASE Enter
  <2>1. PICK text \in Entered :
          /\ form' = [form EXCEPT ![field] = text]
          /\ stage' = IF Validator(field, text) THEN "menu" ELSE "editor"
    BY <1>4 DEF Enter
  <2>2. stage = "editor" /\ UNCHANGED <<field, backup>>
    BY <1>4 DEF Enter
  <2>3. field \in Fields /\ Sized(field, text)
    BY FieldsAssumption, <1>1 DEF Entered, SizesInv, Sized
  <2>4. \A f \in Fields : form'[f] = IF f = field THEN text ELSE form[f]
    BY <1>1, <2>1 DEF SizesInv, Fields
  <2>5. Validator(field, text) <=> Proper(field, text)
    BY <2>3, ValidatorIsProper
  <2>6. \A f \in Fields : f # field => Proper(f, form'[f])
    BY <1>2, <2>4
  <2>7. form'[field] = text
    BY <2>3, <2>4
  <2>8. stage' # "editor" => Proper(field, form'[field])
    BY <2>1, <2>5, <2>7
  <2>9. stage' = "editor" => Proper(field', backup') /\ ~ Proper(field', form'[field'])
    <3>1. Proper(field, backup)
      BY <2>2 DEF TextsInv
    <3> QED
      BY <2>1, <2>2, <2>5, <2>7, <3>1
  <2>10. \A f \in Fields : stage' # "editor" \/ f # field' => Proper(f, form'[f])
    BY <2>2, <2>6, <2>8
  <2> QED
    BY <1>1, <2>9, <2>10 DEF TextsInv
<1>5. CASE Escape
  <2>1. /\ stage = "editor" /\ stage' = "menu" /\ form' = [form EXCEPT ![field] = backup]
        /\ UNCHANGED <<field, backup>>
    BY <1>5 DEF Escape
  <2>2. \A f \in Fields : form'[f] = IF f = field THEN backup ELSE form[f]
    BY <1>1, <2>1 DEF SizesInv, Fields
  <2>3. Proper(field, backup)
    BY <2>1 DEF TextsInv
  <2>4. \A f \in Fields : Proper(f, form'[f])
    BY <1>2, <2>2, <2>3
  <2> QED
    BY <1>1, <2>1, <2>4 DEF TextsInv
<1>6. CASE Toggle
  <2>1. PICK what \in {"enabled", "mode", "v6"} : form' = [form EXCEPT ![what] = 1 - @]
    BY <1>6 DEF Toggle
  <2>2. stage = "menu" /\ stage' = stage
    BY <1>6 DEF Toggle
  <2>3. \A f \in Fields : form'[f] = form[f]
    BY <1>1, <2>1 DEF SizesInv, Fields
  <2>4. \A f \in Fields : Proper(f, form'[f])
    BY <1>2, <2>2, <2>3
  <2> QED
    BY <1>1, <2>2, <2>4 DEF TextsInv
<1>7. CASE Apply
  BY <1>1, <1>7 DEF Apply, TextsInv
<1>8. CASE Applied
  BY <1>1, <1>8 DEF Applied, TextsInv
<1>9. CASE UNCHANGED fieldsVars
  BY <1>1, <1>9 DEF fieldsVars, TextsInv
<1> QED
  BY <1>3, <1>4, <1>5, <1>6, <1>7, <1>8, <1>9 DEF FieldsNext

\* No text but the one in the editor is ever other than its validator wants it,
\* not even those of a report, which no validator saw (gui.c:342, valid.c).
THEOREM TextsInvariant == FieldsSpec => []TextsInv
BY TextsInit, TextsStep, PTL DEF FieldsSpec

\* Every text that leaves an editor is four numbers up to 255 with dots between
\* them, a number up to 32 or a passphrase, and the editor keeps none that is
\* (valid.h, gui.c:427): the 16-bit loops of valid.c take exactly those.
THEOREM OnlyProperTextsHolds == FieldsSpec => []OnlyProperTexts
<1>1. TextsInv => OnlyProperTexts
  <2> SUFFICES ASSUME TextsInv PROVE OnlyProperTexts
    OBVIOUS
  <2>1. field \in Fields
    BY DEF TextsInv, SizesInv
  <2> QED
    BY <2>1 DEF TextsInv, OnlyProperTexts
<1> QED
  BY <1>1, TextsInvariant, PTL

\* With the settings proper, the device reads what is shown.
LEMMA ShownIsRead == TextsInv => RequestSaysWhatIsShown
<1> SUFFICES ASSUME TextsInv, stage = "applied" PROVE ParseSetNetif(Tail(setRequest)) = <<Shown>>
  BY DEF RequestSaysWhatIsShown
<1> DEFINE s == form
           ip == s.ip
           gateway == s.gateway
           prefix == s.prefix
<1>1. /\ s.enabled \in Nat /\ s.mode \in Nat /\ s.v6 \in Nat /\ setRequest = Request(s)
      /\ \A f \in Fields : Sized(f, s[f]) /\ Proper(f, s[f])
  BY DEF TextsInv, SizesInv
<1>2. s.ssid \in Seq(Nat) /\ s.psk \in Seq(Nat)
  BY <1>1 DEF Fields, Sized
<1>3. ASSUME NEW p \in Seq(Nat), NEW x \in Nat, NEW g \in Seq(Nat), Len(p) = 4, Len(g) = 4,
             Addresses(s) = p \o <<x>> \o g,
             Shown.ip = p, Shown.prefix = x, Shown.gateway = g
      PROVE  ParseSetNetif(Tail(setRequest)) = <<Shown>>
  <2>1. ParseSetNetif(Tail(Request(s))) =
           <<[enabled |-> s.enabled, mode |-> s.mode, ip |-> p, prefix |-> x, gateway |-> g,
              v6 |-> s.v6, ssid |-> s.ssid, psk |-> s.psk]>>
    BY <1>1, <1>2, <1>3, RequestParsed
  <2>2. Shown = [enabled |-> s.enabled, mode |-> s.mode, ip |-> Shown.ip, prefix |-> Shown.prefix,
                 gateway |-> Shown.gateway, v6 |-> s.v6, ssid |-> s.ssid, psk |-> s.psk]
    BY DEF Shown
  <2> HIDE DEF s
  <2> QED
    BY <1>1, <1>3, <2>1, <2>2, Zenon
<1>4. CASE s.mode = 1
  <2>1. ip \in Seq(Nat) /\ gateway \in Seq(Nat) /\ prefix \in Seq(Nat) /\ Len(prefix) <= 2
    BY <1>1, Sizes DEF Fields, Sized
  <2>2. Proper("ip", ip) /\ Proper("gateway", gateway) /\ Proper("prefix", prefix)
    BY <1>1 DEF Fields
  <2>3. IsAddress(ip) /\ IsAddress(gateway)
    BY <2>1, <2>2, ProperAddress
  <2>4. Addresses(s) = ParseIpv4(ip) \o <<ParsePrefix(prefix)>> \o ParseIpv4(gateway)
    BY <1>4 DEF Addresses
  <2>5. /\ Shown.ip = Quad(ip) /\ Shown.gateway = Quad(gateway)
        /\ Shown.prefix = Number(prefix, 1..Len(prefix))
    BY <1>4 DEF Shown
  <2> HIDE DEF ip, gateway, prefix, s
  <2>6. ParseIpv4(ip) = Quad(ip) /\ ParseIpv4(gateway) = Quad(gateway)
    BY <2>1, <2>3, ParseIsQuad
  <2>7. /\ Quad(ip) \in Seq(Nat) /\ Len(Quad(ip)) = 4
        /\ Quad(gateway) \in Seq(Nat) /\ Len(Quad(gateway)) = 4
    BY <2>1, <2>3, QuadIsFour
  <2>8. /\ ParsePrefix(prefix) = Number(prefix, 1..Len(prefix))
        /\ Number(prefix, 1..Len(prefix)) \in Nat
    BY <2>1, <2>2, PrefixIsByte
  <2>9. Addresses(s) = Quad(ip) \o <<Number(prefix, 1..Len(prefix))>> \o Quad(gateway)
    BY <2>4, <2>6, <2>8
  <2> QED
    BY <1>3, <2>5, <2>7, <2>8, <2>9
<1>5. CASE s.mode # 1
  <2>1. Addresses(s) = [i \in 1..9 |-> 0]
    BY <1>5 DEF Addresses
  <2>2. Shown.ip = Zero /\ Shown.gateway = Zero /\ Shown.prefix = 0
    BY <1>5 DEF Shown
  <2>3. 0 \in Nat
    OBVIOUS
  <2> QED
    BY <1>3, <2>1, <2>2, <2>3, ZeroAddresses
<1> QED
  BY <1>4, <1>5

\* The device reads from SET_NETIF the numbers and the texts the user saw, though
\* parse_ipv4 and parse_prefix look at nothing they read (valid.c:113, gui.c:368).
THEOREM RequestSaysWhatIsShownHolds == FieldsSpec => []RequestSaysWhatIsShown
BY ShownIsRead, TextsInvariant, PTL

=============================================================================

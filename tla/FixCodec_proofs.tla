-------------------------- MODULE FixCodec_proofs ----------------------------
(***************************************************************************)
(* What the FIX codec computes, for every list of fields and every text:   *)
(* from_chars reads the number that to_chars wrote, a message that         *)
(* finalize built has the shape the framer looks for, frame takes exactly  *)
(* that message from a buffer that starts with it and nothing from a part  *)
(* of it, and get returns the value each field was given.                  *)
(* The recursive functions of the codec are first shown to exist; a        *)
(* message is then the concatenation of its fields, given by the offset at *)
(* which each of them ends.                                                *)
(***************************************************************************)
EXTENDS FixCodec, NaturalFacts
-----------------------------------------------------------------------------
(* to_chars                                                                *)

Digit == 48 .. 57
Text == Seq(Digit)

\* Division by ten.
LEMMA Tens ==
    ASSUME NEW n \in Nat
    PROVE  /\ n \div 10 \in Nat /\ n % 10 \in 0 .. 9 /\ n = 10 * (n \div 10) + (n % 10)
           /\ n >= 10 => n \div 10 < n
OBVIOUS

IsToChars(g) ==
    g = [n \in Nat |-> IF n < 10 THEN <<48 + n>> ELSE Append(g[n \div 10], 48 + (n % 10))]

\* The recursion of to_chars has a solution, so to_chars is one.
LEMMA ToCharsSolves == IsToChars(to_chars)
<1>1. PICK stop : stop = 0 .. 9
  OBVIOUS
<1>2. PICK from : from = [n \in Nat |-> n \div 10]
  OBVIOUS
<1>3. PICK base : base = [n \in Nat |-> <<48 + (n % 10)>>]
  OBVIOUS
<1>4. PICK step : step = [n \in Nat |-> [s \in Text |-> Append(s, 48 + (n % 10))]]
  OBVIOUS
<1>5. Recursive(Text, stop, from, base, step)
  <2>1. stop \in SUBSET Nat /\ from \in [Nat -> Nat]
    BY <1>1, <1>2, Tens
  <2>2. \A n \in Nat : n \notin stop => from[n] < n
    BY <1>1, <1>2, Tens
  <2>3. \A n \in Nat : 48 + (n % 10) \in Digit
    BY Tens DEF Digit
  <2>4. base \in [Nat -> Text]
    BY <1>3, <2>3 DEF Text
  <2>5. step \in [Nat -> [Text -> Text]]
    BY <1>4, <2>3 DEF Text
  <2> QED BY <2>1, <2>2, <2>4, <2>5 DEF Recursive
<1>6. PICK g : Solves(g, Text, stop, from, base, step)
  BY <1>5, Recursion
<1>7. ASSUME NEW n \in Nat
      PROVE  g[n] = IF n < 10 THEN <<48 + n>> ELSE Append(g[n \div 10], 48 + (n % 10))
  <2>1. CASE n < 10
    <3>1. n \in stop /\ n % 10 = n
      BY <1>1, <2>1
    <3> QED BY <1>3, <1>6, <2>1, <3>1 DEF Solves, Follows
  <2>2. CASE ~(n < 10)
    <3>1. n \notin stop /\ n \div 10 \in Nat
      BY <1>1, <2>2, Tens
    <3>2. g[n \div 10] \in Text
      BY <1>6, <3>1 DEF Solves
    <3> QED BY <1>2, <1>4, <1>6, <2>2, <3>1, <3>2 DEF Solves, Follows
  <2> QED BY <2>1, <2>2
<1>8. IsToChars(g)
  BY <1>6, <1>7 DEF IsToChars, Solves
<1>9. to_chars = CHOOSE h : IsToChars(h)
  BY DEF to_chars, IsToChars
<1> QED BY <1>8, <1>9

\* It writes digits, at least one.
LEMMA ToCharsType ==
    ASSUME NEW n \in Nat
    PROVE  /\ to_chars[n] \in Text /\ Len(to_chars[n]) >= 1
           /\ n < 10 => to_chars[n] = <<48 + n>>
           /\ ~(n < 10) => to_chars[n] = Append(to_chars[n \div 10], 48 + (n % 10))
<1>1. \A m \in Nat : /\ m < 10 => to_chars[m] = <<48 + m>>
                     /\ ~(m < 10) => to_chars[m] = Append(to_chars[m \div 10], 48 + (m % 10))
  BY ToCharsSolves DEF IsToChars
<1> DEFINE Bad == {m \in Nat : to_chars[m] \notin Text}
<1>2. ASSUME Bad # {} PROVE FALSE
  <2>1. PICK m \in Bad : \A j \in Bad : m <= j
    <3>1. Bad \in SUBSET Nat
      OBVIOUS
    <3> HIDE DEF Bad
    <3> QED BY <1>2, <3>1, LeastNumber
  <2>2. m \in Nat /\ to_chars[m] \notin Text
    BY <2>1
  <2>3. CASE m < 10
    <3>1. 48 + m \in Digit
      BY <2>2, <2>3 DEF Digit
    <3>2. <<48 + m>> \in Text
      BY <3>1 DEF Text
    <3>3. to_chars[m] = <<48 + m>>
      BY <1>1, <2>2, <2>3
    <3> QED BY <2>2, <3>2, <3>3
  <2>4. CASE ~(m < 10)
    <3>1. m \div 10 \in Nat /\ m \div 10 < m /\ 48 + (m % 10) \in Digit
      BY <2>2, <2>4, Tens DEF Digit
    <3>2. to_chars[m \div 10] \in Text
      BY <2>1, <3>1
    <3>3. Append(to_chars[m \div 10], 48 + (m % 10)) \in Text
      BY <3>1, <3>2 DEF Text
    <3>4. to_chars[m] = Append(to_chars[m \div 10], 48 + (m % 10))
      BY <1>1, <2>2, <2>4
    <3> QED BY <2>2, <3>3, <3>4
  <2> QED BY <2>3, <2>4
<1>3. to_chars[n] \in Text
  BY <1>2
<1>4. Len(to_chars[n]) >= 1
  <2>1. CASE n < 10
    <3>1. to_chars[n] = <<48 + n>>
      BY <1>1, <2>1
    <3>2. Len(<<48 + n>>) = 1
      OBVIOUS
    <3> QED BY <3>1, <3>2
  <2>2. CASE ~(n < 10)
    <3>1. n \div 10 \in Nat /\ 48 + (n % 10) \in Digit
      BY Tens DEF Digit
    <3>2. PICK t \in Text : t = to_chars[n \div 10]
      BY <1>2, <3>1
    <3>3. to_chars[n] = Append(t, 48 + (n % 10))
      BY <1>1, <2>2, <3>2
    <3>4. Len(Append(t, 48 + (n % 10))) = Len(t) + 1 /\ Len(t) \in Nat
      BY <3>1 DEF Text
    <3> QED BY <3>3, <3>4
  <2> QED BY <2>1, <2>2
<1> QED BY <1>1, <1>3, <1>4

\* The number that digits stand for, with the partial results g
Evaluates(g, s) ==
    /\ g \in [0 .. Len(s) -> Nat] /\ g[0] = 0
    /\ \A k \in 1 .. Len(s) : g[k] = 10 * g[k - 1] + (s[k] - 48)
Denotes(s, v) == s \in Text /\ Len(s) >= 1 /\ \E g : Evaluates(g, s) /\ v = g[Len(s)]

\* One digit more.
LEMMA DenotesAppend ==
    ASSUME NEW s, NEW v, Denotes(s, v), NEW r \in 0 .. 9
    PROVE  Denotes(Append(s, 48 + r), 10 * v + r)
<1>1. PICK g : Evaluates(g, s) /\ v = g[Len(s)]
  BY DEF Denotes
<1>2. PICK n \in Nat : n = Len(s) /\ s \in Text
  BY DEF Denotes, Text
<1>3. PICK t : t = Append(s, 48 + r)
  OBVIOUS
<1>4. /\ t \in Text /\ Len(t) = n + 1 /\ t[n + 1] = 48 + r
      /\ \A k \in 1 .. n : t[k] = s[k]
  BY <1>2, <1>3 DEF Text, Digit
<1>5. g \in [0 .. n -> Nat] /\ g[0] = 0 /\ v = g[n] /\ v \in Nat
  BY <1>1, <1>2 DEF Evaluates
<1>6. PICK h : h = [k \in 0 .. n + 1 |-> IF k = n + 1 THEN 10 * v + r ELSE g[k]]
  OBVIOUS
<1>7. h \in [0 .. n + 1 -> Nat] /\ h[n + 1] = 10 * v + r /\ \A k \in 0 .. n : h[k] = g[k]
  BY <1>5, <1>6
<1>8. ASSUME NEW k \in 1 .. n + 1 PROVE h[k] = 10 * h[k - 1] + (t[k] - 48)
  <2>1. CASE k \in 1 .. n
    <3>1. g[k] = 10 * g[k - 1] + (s[k] - 48)
      BY <1>1, <1>2, <2>1 DEF Evaluates
    <3>2. k - 1 \in 0 .. n /\ k \in 0 .. n
      BY <2>1
    <3> QED BY <1>4, <1>7, <2>1, <3>1, <3>2
  <2>2. CASE k = n + 1
    <3>1. k - 1 = n /\ h[n] = v
      BY <1>5, <1>7, <2>2
    <3>2. t[k] - 48 = r
      BY <1>4, <2>2
    <3> QED BY <1>7, <2>2, <3>1, <3>2
  <2> QED BY <2>1, <2>2
<1>9. Evaluates(h, t)
  BY <1>4, <1>5, <1>7, <1>8, SMTT(40) DEF Evaluates
<1>10. Denotes(t, 10 * v + r)
  BY <1>4, <1>7, <1>9 DEF Denotes
<1> QED BY <1>3, <1>10

\* One digit.
LEMMA DenotesDigit ==
    ASSUME NEW r \in 0 .. 9
    PROVE  Denotes(<<48 + r>>, r)
<1>1. PICK g : g = [k \in 0 .. 1 |-> IF k = 0 THEN 0 ELSE r]
  OBVIOUS
<1>2. PICK t : t = <<48 + r>>
  OBVIOUS
<1>3. t \in Text /\ Len(t) = 1 /\ t[1] = 48 + r
  BY <1>2 DEF Text, Digit
<1>4. g \in [0 .. 1 -> Nat] /\ g[0] = 0 /\ g[1] = r
  BY <1>1
<1>5. \A k \in 1 .. 1 : g[k] = 10 * g[k - 1] + (t[k] - 48)
  BY <1>3, <1>4
<1>6. Evaluates(g, t)
  BY <1>3, <1>4, <1>5 DEF Evaluates
<1> QED BY <1>2, <1>3, <1>4, <1>6 DEF Denotes

\* to_chars writes the number down.
LEMMA ToCharsDenotes == ASSUME NEW n \in Nat PROVE Denotes(to_chars[n], n)
<1> DEFINE Bad == {m \in Nat : ~Denotes(to_chars[m], m)}
<1>1. ASSUME Bad # {} PROVE FALSE
  <2>1. PICK m \in Bad : \A j \in Bad : m <= j
    <3>1. Bad \in SUBSET Nat
      OBVIOUS
    <3> HIDE DEF Bad
    <3> QED BY <1>1, <3>1, LeastNumber
  <2>2. m \in Nat /\ ~Denotes(to_chars[m], m)
    BY <2>1
  <2>3. CASE m < 10
    <3>1. m \in 0 .. 9
      BY <2>2, <2>3
    <3>2. to_chars[m] = <<48 + m>>
      BY <2>2, <2>3, ToCharsType
    <3>3. Denotes(<<48 + m>>, m)
      BY <3>1, DenotesDigit
    <3> QED BY <2>2, <3>2, <3>3
  <2>4. CASE ~(m < 10)
    <3>1. /\ m \div 10 \in Nat /\ m \div 10 < m /\ m % 10 \in 0 .. 9
          /\ m = 10 * (m \div 10) + (m % 10)
      BY <2>2, <2>4, Tens
    <3>2. Denotes(to_chars[m \div 10], m \div 10)
      BY <2>1, <3>1
    <3>3. to_chars[m] = Append(to_chars[m \div 10], 48 + (m % 10))
      BY <2>2, <2>4, ToCharsType
    <3>4. Denotes(to_chars[m], 10 * (m \div 10) + (m % 10))
      BY <3>1, <3>2, <3>3, DenotesAppend
    <3> QED BY <2>2, <3>1, <3>4
  <2> QED BY <2>3, <2>4
<1> QED BY <1>1
-----------------------------------------------------------------------------
(* from_chars and std::string::find                                        *)

DigitsOf(s) == {k \in 0 .. Len(s) : \A j \in 1 .. k : s[j] \in 48 .. 57}
IsValue(g, s, n) == g = [k \in 0 .. n |-> IF k = 0 THEN 0 ELSE 10 * g[k - 1] + (s[k] - 48)]

\* from_chars in terms of its table.
LEMMA FromCharsTable ==
    ASSUME NEW s, NEW d
    PROVE  from_chars(s, d) = IF Max(DigitsOf(s)) = 0 THEN d
                              ELSE (CHOOSE g : IsValue(g, s, Max(DigitsOf(s))))[Max(DigitsOf(s))]
BY DEF from_chars, IsValue, DigitsOf

\* from_chars reads the number that digits stand for.
LEMMA FromChars ==
    ASSUME NEW s, NEW v, Denotes(s, v), NEW d
    PROVE  from_chars(s, d) = v
<1>1. PICK N \in Nat : N = Len(s) /\ N >= 1 /\ s \in Text
  BY DEF Denotes, Text
<1>2. PICK g : Evaluates(g, s) /\ v = g[N]
  BY <1>1 DEF Denotes
<1>3. PICK S : S = DigitsOf(s)
  OBVIOUS
<1>4. S = 0 .. N
  BY <1>1, <1>3 DEF Text, Digit, DigitsOf
<1>5. Max(S) = N
  <2>1. N \in S /\ \A y \in S : N >= y
    BY <1>1, <1>4
  <2>2. \A x \in S : (\A y \in S : x >= y) => x = N
    BY <1>1, <1>4, <2>1
  <2>3. PICK x : x = CHOOSE z \in S : \A y \in S : z >= y
    OBVIOUS
  <2>4. x \in S /\ \A y \in S : x >= y
    BY <2>1, <2>3
  <2> QED BY <2>2, <2>3, <2>4 DEF Max
<1>6. from_chars(s, d) = IF N = 0 THEN d ELSE (CHOOSE h : IsValue(h, s, N))[N]
  BY <1>3, <1>5, FromCharsTable
<1>7. IsValue(g, s, N)
  <2>1. /\ g \in [0 .. N -> Nat] /\ g[0] = 0
        /\ \A k \in 1 .. N : g[k] = 10 * g[k - 1] + (s[k] - 48)
    BY <1>1, <1>2 DEF Evaluates
  <2> QED BY <2>1 DEF IsValue
<1>8. PICK h : h = CHOOSE w : IsValue(w, s, N)
  OBVIOUS
<1>9. IsValue(h, s, N)
  BY <1>7, <1>8
<1> DEFINE P == {k \in Nat : h[k] = g[k]}
<1>10. 0 \in P
  BY <1>1, <1>7, <1>9 DEF IsValue
<1>11. ASSUME NEW k \in 1 .. N, k - 1 \in P PROVE k \in P
  <2>1. h[k] = 10 * h[k - 1] + (s[k] - 48) /\ g[k] = 10 * g[k - 1] + (s[k] - 48)
    BY <1>7, <1>9 DEF IsValue
  <2> QED BY <1>11, <2>1
<1>12. \A k \in 0 .. N : k \in P
  <2> HIDE DEF P
  <2> QED BY <1>10, <1>11, Along
<1>13. h[N] = g[N]
  BY <1>12
<1> QED BY <1>1, <1>2, <1>6, <1>8, <1>13

\* What was written is read back.
LEMMA CharsRoundTrip == ASSUME NEW n \in Nat, NEW d PROVE from_chars(to_chars[n], d) = n
BY ToCharsDenotes, FromChars
-----------------------------------------------------------------------------
(* std::string::find                                                       *)

Matches(s, pat, k) == \A j \in 1 .. Len(pat) : s[k + j - 1] = pat[j]
Places(s, pat, from) == {k \in from .. Len(s) - Len(pat) + 1 : Matches(s, pat, k)}

\* Find in terms of the places.
LEMMA FindPlaces ==
    ASSUME NEW s, NEW pat, NEW from
    PROVE  Find(s, pat, from) = IF Places(s, pat, from) = {} THEN 0 ELSE Min(Places(s, pat, from))
BY DEF Find, Places, Matches

\* The least of a set of numbers.
LEMMA MinIsLeast ==
    ASSUME NEW S \in SUBSET Nat, S # {}
    PROVE  Min(S) \in S /\ \A y \in S : Min(S) <= y
<1>1. PICK x \in S : \A y \in S : x <= y
  BY LeastNumber
<1> QED BY <1>1 DEF Min

\* The first place is found.
LEMMA FindFirst ==
    ASSUME NEW s, Len(s) \in Nat, NEW pat, Len(pat) \in Nat,
           NEW from \in Nat, NEW p \in Nat, from <= p, p <= Len(s) - Len(pat) + 1,
           Matches(s, pat, p), \A k \in from .. p - 1 : ~Matches(s, pat, k)
    PROVE  Find(s, pat, from) = p
<1>1. PICK S : S = Places(s, pat, from)
  OBVIOUS
<1>2. p \in S /\ S \in SUBSET Nat
  BY <1>1 DEF Places
<1>3. \A k \in S : p <= k
  BY <1>1 DEF Places
<1>4. Min(S) \in S /\ \A y \in S : Min(S) <= y
  BY <1>2, MinIsLeast
<1>5. Min(S) = p
  <2>1. Min(S) \in Nat /\ Min(S) <= p /\ p <= Min(S)
    BY <1>2, <1>3, <1>4
  <2> QED BY <2>1
<1> QED BY <1>1, <1>2, <1>5, FindPlaces

\* Nothing is found.
LEMMA FindNone ==
    ASSUME NEW s, NEW pat, NEW from,
           \A k \in from .. Len(s) - Len(pat) + 1 : ~Matches(s, pat, k)
    PROVE  Find(s, pat, from) = 0
<1>1. Places(s, pat, from) = {}
  BY DEF Places
<1> QED BY <1>1, FindPlaces

\* What is found is a place.
LEMMA FindRange ==
    ASSUME NEW s, Len(s) \in Nat, NEW pat, Len(pat) \in Nat, NEW from \in Nat,
           Find(s, pat, from) # 0
    PROVE  Find(s, pat, from) \in from .. Len(s) - Len(pat) + 1
<1>1. PICK S : S = Places(s, pat, from)
  OBVIOUS
<1>2. S \in SUBSET Nat /\ S \in SUBSET (from .. Len(s) - Len(pat) + 1)
  BY <1>1 DEF Places
<1>3. S # {} /\ Find(s, pat, from) = Min(S)
  BY <1>1, FindPlaces
<1> QED BY <1>2, <1>3, MinIsLeast

\* A single byte.
LEMMA MatchesByte ==
    ASSUME NEW s, NEW c, NEW k \in Nat
    PROVE  Len(<<c>>) = 1 /\ (Matches(s, <<c>>, k) <=> s[k] = c)
<1>1. PICK pat : pat = <<c>>
  OBVIOUS
<1>2. Len(pat) = 1 /\ pat[1] = c
  BY <1>1
<1>3. 1 .. Len(pat) = {1} /\ k + 1 - 1 = k
  BY <1>2
<1>4. Matches(s, pat, k) <=> s[k] = c
  BY <1>2, <1>3 DEF Matches
<1> QED BY <1>1, <1>2, <1>4

\* The first byte c is found.
LEMMA FindByte ==
    ASSUME NEW s, Len(s) \in Nat, NEW c, NEW from \in Nat, NEW p \in Nat,
           from <= p, p <= Len(s), s[p] = c, \A k \in from .. p - 1 : s[k] # c
    PROVE  Find(s, <<c>>, from) = p
<1>1. PICK pat : pat = <<c>>
  OBVIOUS
<1>2. Len(pat) = 1
  BY <1>1, MatchesByte
<1>3. Matches(s, pat, p) /\ \A k \in from .. p - 1 : ~Matches(s, pat, k)
  BY <1>1, MatchesByte
<1>4. Find(s, pat, from) = p
  <2>1. Len(pat) \in Nat /\ p <= Len(s) - Len(pat) + 1
    BY <1>2
  <2> QED BY <1>3, <2>1, FindFirst
<1> QED BY <1>1, <1>4

\* No byte c is there.
LEMMA FindNoByte ==
    ASSUME NEW s, Len(s) \in Nat, NEW c, NEW from \in Nat, \A k \in from .. Len(s) : s[k] # c
    PROVE  Find(s, <<c>>, from) = 0
<1>1. PICK pat : pat = <<c>>
  OBVIOUS
<1>2. Len(pat) = 1
  BY <1>1, MatchesByte
<1>3. \A k \in from .. Len(s) - Len(pat) + 1 : ~Matches(s, pat, k)
  BY <1>1, <1>2, MatchesByte
<1>4. Find(s, pat, from) = 0
  BY <1>3, FindNone
<1> QED BY <1>1, <1>4
-----------------------------------------------------------------------------
(* Sequences by their elements                                             *)

IsConcat(u, s, t) ==
    /\ u = s \o t /\ Len(u) = Len(s) + Len(t)
    /\ \A i \in 1 .. Len(s) : u[i] = s[i]
    /\ \A i \in 1 .. Len(t) : u[Len(s) + i] = t[i]
IsCut(u, s, f, e) ==
    /\ u = SubSeq(s, f + 1, e) /\ Len(u) = e - f
    /\ \A i \in 1 .. e - f : u[i] = s[f + i]
IsTail(u, s) ==
    /\ u = Tail(s) /\ Len(u) = Len(s) - 1
    /\ \A i \in 1 .. Len(s) - 1 : u[i] = s[i + 1]

Same(s, t, n) == Len(s) = n /\ Len(t) = n /\ \A i \in 1 .. n : s[i] = t[i]

\* Sequences with the same elements are the same.
LEMMA SameElements ==
    ASSUME NEW S, NEW s \in Seq(S), NEW t \in Seq(S), NEW n, Same(s, t, n) PROVE s = t
<1>1. Len(s) = n /\ Len(t) = n
  BY DEF Same
<1>2. \A i \in 1 .. n : s[i] = t[i]
  BY DEF Same
<1> QED BY <1>1, <1>2

IsAppend(u, s, x) ==
    /\ u = Append(s, x) /\ Len(u) = Len(s) + 1 /\ u[Len(s) + 1] = x
    /\ \A i \in 1 .. Len(s) : u[i] = s[i]

\* The elements of a longer sequence.
LEMMA AppendAt ==
    ASSUME NEW S, NEW s \in Seq(S), NEW x \in S
    PROVE  \E u \in Seq(S) : IsAppend(u, s, x)
<1>1. PICK u : u = Append(s, x)
  OBVIOUS
<1>2. u \in Seq(S)
  BY <1>1
<1>3. Len(u) = Len(s) + 1
  BY <1>1
<1>4. u[Len(s) + 1] = x
  BY <1>1
<1>5. \A i \in 1 .. Len(s) : u[i] = s[i]
  BY <1>1
<1>6. IsAppend(u, s, x)
  BY <1>1, <1>3, <1>4, <1>5 DEF IsAppend
<1> QED BY <1>2, <1>6

\* The elements of a concatenation.
LEMMA ConcatAt ==
    ASSUME NEW S, NEW s \in Seq(S), NEW t \in Seq(S)
    PROVE  \E u \in Seq(S) : IsConcat(u, s, t)
<1>1. PICK u : u = s \o t
  OBVIOUS
<1>2. u \in Seq(S)
  BY <1>1
<1>4. Len(u) = Len(s) + Len(t)
  BY <1>1
<1>5. \A i \in 1 .. Len(s) : u[i] = s[i]
  BY <1>1
<1>6. \A i \in 1 .. Len(t) : u[Len(s) + i] = t[i]
  BY <1>1
<1>7. IsConcat(u, s, t)
  BY <1>1, <1>4, <1>5, <1>6 DEF IsConcat
<1> QED BY <1>2, <1>7

\* The elements of a cut.
LEMMA CutAt ==
    ASSUME NEW S, NEW s \in Seq(S), NEW f \in Nat, NEW e \in Nat, f <= e, e <= Len(s)
    PROVE  \E u \in Seq(S) : IsCut(u, s, f, e)
<1>1. PICK u : u = SubSeq(s, f + 1, e)
  OBVIOUS
<1>2. u \in Seq(S)
  BY <1>1
<1>4. Len(u) = e - f
  BY <1>1
<1>5. \A i \in 1 .. e - f : u[i] = s[f + i]
  BY <1>1
<1>6. IsCut(u, s, f, e)
  BY <1>1, <1>4, <1>5 DEF IsCut
<1> QED BY <1>2, <1>6

\* The elements of a tail.
LEMMA TailAt ==
    ASSUME NEW S, NEW s \in Seq(S), s # <<>>
    PROVE  \E u \in Seq(S) : IsTail(u, s)
<1>1. PICK u : u = Tail(s)
  OBVIOUS
<1>3. u \in Seq(S)
  BY <1>1
<1>4. Len(u) = Len(s) - 1
  BY <1>1
<1>5. \A i \in 1 .. Len(s) - 1 : u[i] = s[i + 1]
  BY <1>1
<1>6. IsTail(u, s)
  BY <1>1, <1>4, <1>5 DEF IsTail
<1> QED BY <1>3, <1>6

(* Concatenation: s consists of the parts, part j behind off[j - 1].       *)
Offsets(off, s, parts) ==
    /\ off \in [0 .. Len(parts) -> Nat] /\ off[0] = 0 /\ off[Len(parts)] = Len(s)
    /\ \A j \in 1 .. Len(parts) : off[j] = off[j - 1] + Len(parts[j])
    /\ \A j \in 1 .. Len(parts) : \A i \in 1 .. Len(parts[j]) : s[off[j - 1] + i] = parts[j][i]
Bytes == Seq(Nat)
Joins(s, parts) == s \in Bytes /\ parts \in Seq(Bytes) /\ \E off : Offsets(off, s, parts)

\* No part ends behind the end.
LEMMA OffsetsInside ==
    ASSUME NEW s \in Bytes, NEW parts \in Seq(Bytes), NEW off, Offsets(off, s, parts)
    PROVE  \A j \in 0 .. Len(parts) : off[j] \in Nat /\ off[j] <= Len(s)
<1>1. PICK n \in Nat : n = Len(parts)
  OBVIOUS
<1>2. PICK L \in Nat : L = Len(s)
  BY DEF Bytes
<1>3. /\ off \in [0 .. n -> Nat] /\ off[n] = L
      /\ \A j \in 1 .. n : off[j] = off[j - 1] + Len(parts[j]) /\ Len(parts[j]) \in Nat
  BY <1>1, <1>2 DEF Offsets, Bytes
<1> DEFINE P == {k \in Nat : k <= n => off[n - k] <= L}
<1>4. 0 \in P
  BY <1>3
<1>5. ASSUME NEW k \in 1 .. n, k - 1 \in P PROVE k \in P
  <2>1. PICK j \in 1 .. n : j = n - (k - 1) /\ j - 1 = n - k
    OBVIOUS
  <2>2. off[j] <= L /\ off[j] = off[j - 1] + Len(parts[j]) /\ Len(parts[j]) \in Nat
    BY <1>3, <1>5, <2>1
  <2>3. off[j] \in Nat /\ off[j - 1] \in Nat
    BY <1>3
  <2>4. off[j - 1] <= L
    BY <2>2, <2>3
  <2> QED BY <2>1, <2>4
<1>6. \A k \in 0 .. n : k \in P
  <2> HIDE DEF P
  <2> QED BY <1>4, <1>5, Along
<1>7. ASSUME NEW j \in 0 .. n PROVE off[j] <= L
  <2>1. PICK k \in 0 .. n : k = n - j /\ n - k = j
    <3>1. n - j \in 0 .. n /\ n - (n - j) = j
      OBVIOUS
    <3> QED BY <3>1
  <2>2. k \in P /\ k <= n
    BY <1>6
  <2> QED BY <2>1, <2>2
<1> QED BY <1>1, <1>2, <1>3, <1>7

\* Nothing consists of no parts.
LEMMA JoinsNone == Joins(<<>>, <<>>)
<1>1. PICK off : off = [j \in 0 .. 0 |-> 0]
  OBVIOUS
<1>2. PICK e : e = <<>>
  OBVIOUS
<1>3. e \in Bytes /\ e \in Seq(Bytes) /\ Len(e) = 0
  BY <1>2 DEF Bytes
<1>4. Offsets(off, e, e)
  BY <1>1, <1>3 DEF Offsets
<1> QED BY <1>2, <1>3, <1>4 DEF Joins

\* A text is its own only part.
LEMMA JoinsOne == ASSUME NEW s \in Bytes PROVE Joins(s, <<s>>)
<1>1. PICK L \in Nat : L = Len(s)
  BY DEF Bytes
<1>2. PICK off : off = [j \in 0 .. 1 |-> IF j = 0 THEN 0 ELSE L]
  OBVIOUS
<1>3. PICK ps : ps = <<s>>
  OBVIOUS
<1>4. ps \in Seq(Bytes) /\ Len(ps) = 1 /\ ps[1] = s
  BY <1>3
<1>5. off \in [0 .. 1 -> Nat] /\ off[0] = 0 /\ off[1] = L
  BY <1>2
<1>6. \A i \in 1 .. L : 0 + i = i
  OBVIOUS
<1>7. Offsets(off, s, ps)
  BY <1>1, <1>4, <1>5, <1>6 DEF Offsets
<1> QED BY <1>3, <1>4, <1>7 DEF Joins

\* Two concatenations, one behind the other.
LEMMA JoinsConcat ==
    ASSUME NEW s, NEW t, NEW ps, NEW qs, Joins(s, ps), Joins(t, qs)
    PROVE  Joins(s \o t, ps \o qs)
<1>1. PICK a : Offsets(a, s, ps)
  BY DEF Joins
<1>2. PICK b : Offsets(b, t, qs)
  BY DEF Joins
<1>3. s \in Bytes /\ t \in Bytes /\ ps \in Seq(Bytes) /\ qs \in Seq(Bytes)
  BY DEF Joins
<1>4. PICK L \in Nat : L = Len(s)
  BY <1>3 DEF Bytes
<1>5. PICK M \in Nat : M = Len(t)
  BY <1>3 DEF Bytes
<1>6. PICK m \in Nat : m = Len(ps)
  BY <1>3
<1>7. PICK n \in Nat : n = Len(qs)
  BY <1>3
<1>8. PICK u \in Bytes : /\ u = s \o t /\ Len(u) = L + M
                         /\ \A i \in 1 .. L : u[i] = s[i]
                         /\ \A i \in 1 .. M : u[L + i] = t[i]
  <2>1. PICK u \in Bytes : IsConcat(u, s, t)
    BY <1>3, ConcatAt DEF Bytes
  <2> QED BY <1>4, <1>5, <2>1 DEF IsConcat
<1>9. PICK rs \in Seq(Bytes) : /\ rs = ps \o qs /\ Len(rs) = m + n
                               /\ \A j \in 1 .. m : rs[j] = ps[j]
                               /\ \A j \in 1 .. n : rs[m + j] = qs[j]
  <2>1. PICK rs \in Seq(Bytes) : IsConcat(rs, ps, qs)
    BY <1>3, ConcatAt
  <2> QED BY <1>6, <1>7, <2>1 DEF IsConcat
<1>10. PICK c : c = [j \in 0 .. m + n |-> IF j <= m THEN a[j] ELSE L + b[j - m]]
  OBVIOUS
<1>11. /\ a \in [0 .. m -> Nat] /\ a[0] = 0 /\ a[m] = L
       /\ b \in [0 .. n -> Nat] /\ b[0] = 0 /\ b[n] = M
  BY <1>1, <1>2, <1>4, <1>5, <1>6, <1>7 DEF Offsets
<1>12. /\ \A j \in 0 .. m : c[j] = a[j]
       /\ \A j \in 0 .. n : m + j \in 0 .. m + n /\ c[m + j] = L + b[j]
  <2>1. \A j \in 0 .. m : c[j] = a[j]
    BY <1>10
  <2>2. ASSUME NEW j \in 0 .. n PROVE m + j \in 0 .. m + n /\ c[m + j] = L + b[j]
    <3>1. m + j \in 0 .. m + n /\ m + j - m = j
      OBVIOUS
    <3>2. CASE j = 0
      BY <1>11, <2>1, <3>2
    <3>3. CASE j # 0
      BY <1>10, <3>1, <3>3
    <3> QED BY <3>1, <3>2, <3>3
  <2> QED BY <2>1, <2>2
<1>13. c \in [0 .. m + n -> Nat] /\ c[0] = 0 /\ c[m + n] = L + M
  <2>1. \A j \in 0 .. m + n : j > m => j - m \in 0 .. n
    OBVIOUS
  <2>2. c \in [0 .. m + n -> Nat]
    BY <1>10, <1>11, <2>1
  <2>3. c[0] = 0
    BY <1>11, <1>12, SMTT(40)
  <2>4. c[m + n] = L + M
    BY <1>11, <1>12
  <2> QED BY <2>2, <2>3, <2>4
<1>14. ASSUME NEW j \in 1 .. m + n
       PROVE  /\ c[j] = c[j - 1] + Len(rs[j])
              /\ \A i \in 1 .. Len(rs[j]) : u[c[j - 1] + i] = rs[j][i]
  <2>1. CASE j \in 1 .. m
    <3>0. j \in 0 .. m /\ j - 1 \in 0 .. m
      BY <2>1
    <3>1. /\ rs[j] = ps[j] /\ c[j] = a[j] /\ c[j - 1] = a[j - 1]
          /\ a[j] \in Nat /\ a[j - 1] \in Nat
      BY <1>9, <1>11, <1>12, <2>1, <3>0
    <3>2. a[j] = a[j - 1] + Len(ps[j]) /\ \A i \in 1 .. Len(ps[j]) : s[a[j - 1] + i] = ps[j][i]
      BY <1>1, <1>6, <2>1 DEF Offsets
    <3>3. a[j] <= L
      BY <1>1, <1>3, <1>4, <1>6, <2>1, OffsetsInside
    <3>4. Len(ps[j]) \in Nat
      BY <1>3, <1>6, <2>1 DEF Bytes
    <3>5. ASSUME NEW i \in 1 .. Len(ps[j]) PROVE u[a[j - 1] + i] = ps[j][i]
      <4>1. a[j - 1] + i \in 1 .. L
        BY <3>1, <3>2, <3>3, <3>4
      <4>2. u[a[j - 1] + i] = s[a[j - 1] + i]
        BY <1>8, <4>1
      <4> QED BY <3>2, <4>2
    <3> QED BY <3>1, <3>2, <3>5
  <2>2. CASE j \notin 1 .. m
    <3>1. PICK k \in 1 .. n : j = m + k /\ j - 1 = m + (k - 1)
      <4>1. j - m \in 1 .. n /\ j = m + (j - m) /\ j - 1 = m + ((j - m) - 1)
        BY <2>2
      <4> QED BY <4>1
    <3>2. k \in 0 .. n /\ k - 1 \in 0 .. n
      OBVIOUS
    <3>3. /\ rs[j] = qs[k] /\ c[j] = L + b[k] /\ c[j - 1] = L + b[k - 1]
          /\ b[k] \in Nat /\ b[k - 1] \in Nat
      BY <1>9, <1>11, <1>12, <3>1, <3>2
    <3>4. b[k] = b[k - 1] + Len(qs[k]) /\ \A i \in 1 .. Len(qs[k]) : t[b[k - 1] + i] = qs[k][i]
      BY <1>2, <1>7 DEF Offsets
    <3>5. b[k] <= M
      BY <1>2, <1>3, <1>5, <1>7, <3>2, OffsetsInside
    <3>6. Len(qs[k]) \in Nat
      BY <1>3, <1>7 DEF Bytes
    <3>7. ASSUME NEW i \in 1 .. Len(qs[k]) PROVE u[c[j - 1] + i] = qs[k][i]
      <4>0. PICK x \in Nat, y \in Nat : x = b[k - 1] /\ y = Len(qs[k])
        BY <3>3, <3>6
      <4>1. b[k - 1] + i \in 1 .. M
        BY <3>4, <3>5, <4>0
      <4>2. L + b[k - 1] + i = L + (b[k - 1] + i)
        BY <3>3
      <4>3. u[L + (b[k - 1] + i)] = t[b[k - 1] + i]
        BY <1>8, <4>1
      <4>4. c[j - 1] = L + b[k - 1] /\ t[b[k - 1] + i] = qs[k][i]
        BY <3>3, <3>4
      <4> QED BY <4>2, <4>3, <4>4
    <3> QED BY <3>3, <3>4, <3>6, <3>7
  <2> QED BY <2>1, <2>2
<1>15. Offsets(c, u, rs)
  <2>1. PICK x \in Nat : x = m + n /\ Len(rs) = x
    BY <1>9
  <2>2. c \in [0 .. x -> Nat] /\ c[0] = 0 /\ c[x] = Len(u)
    BY <1>8, <1>13, <2>1
  <2>3. \A j \in 1 .. x : c[j] = c[j - 1] + Len(rs[j])
    BY <1>14, <2>1
  <2>4. \A j \in 1 .. x : \A i \in 1 .. Len(rs[j]) : u[c[j - 1] + i] = rs[j][i]
    BY <1>14, <2>1
  <2> QED BY <2>1, <2>2, <2>3, <2>4, Zenon DEF Offsets
<1>16. Joins(u, rs)
  BY <1>15 DEF Joins
<1> QED BY <1>8, <1>9, <1>16

\* The first part is at the front, and the others are behind it.
LEMMA JoinsFirst ==
    ASSUME NEW s, NEW ps, Joins(s, ps), ps # <<>>
    PROVE  /\ ps[1] \in Bytes /\ Len(ps[1]) <= Len(s)
           /\ \A i \in 1 .. Len(ps[1]) : s[i] = ps[1][i]
           /\ Joins(SubSeq(s, Len(ps[1]) + 1, Len(s)), Tail(ps))
<1>1. PICK a : Offsets(a, s, ps)
  BY DEF Joins
<1>2. s \in Bytes /\ ps \in Seq(Bytes)
  BY DEF Joins
<1>3. PICK n \in Nat : n = Len(ps) /\ n >= 1
  BY <1>2
<1>4. PICK L \in Nat : L = Len(s)
  BY <1>2 DEF Bytes
<1>5. PICK p \in Bytes : p = ps[1]
  BY <1>2, <1>3
<1>6. PICK f \in Nat : f = Len(p)
  BY <1>5 DEF Bytes
<1>7. a \in [0 .. n -> Nat] /\ a[0] = 0 /\ a[n] = L
  BY <1>1, <1>3, <1>4 DEF Offsets
<1>8. 1 \in 1 .. n /\ 1 - 1 = 0
  BY <1>3
<1>9. a[1] = f /\ \A i \in 1 .. f : s[i] = p[i]
  <2>1. a[1] = a[0] + Len(ps[1]) /\ \A i \in 1 .. Len(ps[1]) : s[a[0] + i] = ps[1][i]
    BY <1>1, <1>3, <1>8 DEF Offsets
  <2>2. \A i \in 1 .. f : 0 + i = i
    OBVIOUS
  <2> QED BY <1>5, <1>6, <1>7, <2>1, <2>2
<1>10. \A j \in 0 .. n : a[j] <= L
  BY <1>1, <1>2, <1>3, <1>4, OffsetsInside
<1>11. f <= L
  BY <1>3, <1>9, <1>10
<1>12. PICK t \in Bytes : /\ t = SubSeq(s, f + 1, L) /\ Len(t) = L - f
                          /\ \A i \in 1 .. L - f : t[i] = s[f + i]
  <2>1. PICK t \in Bytes : IsCut(t, s, f, L)
    <3>1. L <= Len(s)
      BY <1>4
    <3> QED BY <1>2, <1>11, <3>1, CutAt DEF Bytes
  <2> QED BY <2>1 DEF IsCut
<1>13. PICK qs \in Seq(Bytes) : /\ qs = Tail(ps) /\ Len(qs) = n - 1
                                /\ \A j \in 1 .. n - 1 : qs[j] = ps[j + 1]
  <2>1. PICK qs \in Seq(Bytes) : IsTail(qs, ps)
    BY <1>2, TailAt
  <2> QED BY <1>3, <2>1 DEF IsTail
<1>14. \A j \in 1 .. n : a[j] = a[j - 1] + Len(ps[j]) /\ Len(ps[j]) \in Nat
  BY <1>1, <1>2, <1>3 DEF Offsets, Bytes
<1> DEFINE P == {k \in Nat : k <= n - 1 => a[k + 1] >= f}
<1>15. 0 \in P
  BY <1>6, <1>9
<1>16. ASSUME NEW k \in 1 .. n - 1, k - 1 \in P PROVE k \in P
  <2>1. k \in 1 .. n /\ k + 1 \in 1 .. n /\ (k - 1) + 1 = k /\ (k + 1) - 1 = k
    OBVIOUS
  <2>2. a[k + 1] = a[k] + Len(ps[k + 1]) /\ Len(ps[k + 1]) \in Nat
    BY <1>14, <2>1
  <2>3. a[k] >= f /\ a[k] \in Nat /\ a[k + 1] \in Nat
    BY <1>7, <1>16, <2>1
  <2> QED BY <2>2, <2>3
<1>17. ASSUME NEW k \in 0 .. n - 1 PROVE a[k + 1] >= f
  <2>1. \A j \in 0 .. n - 1 : j \in P
    <3>1. n - 1 \in Nat
      BY <1>3
    <3> HIDE DEF P
    <3> QED BY <1>15, <1>16, <3>1, Along
  <2> QED BY <2>1
<1>18. PICK b : b = [k \in 0 .. n - 1 |-> a[k + 1] - f]
  OBVIOUS
<1>19. /\ b \in [0 .. n - 1 -> Nat] /\ \A k \in 0 .. n - 1 : b[k] = a[k + 1] - f
       /\ b[0] = 0 /\ b[n - 1] = L - f
  <2>1. \A k \in 0 .. n - 1 : a[k + 1] - f \in Nat
    BY <1>7, <1>17
  <2>2. b[0] = a[1] - f
    BY <1>3, <1>18
  <2>3. n - 1 \in 0 .. n - 1 /\ (n - 1) + 1 = n
    BY <1>3
  <2>4. b[n - 1] = a[n] - f
    BY <1>18, <2>3
  <2> QED BY <1>7, <1>9, <1>18, <2>1, <2>2, <2>4, SMTT(40)
<1>20. ASSUME NEW j \in 1 .. n - 1
       PROVE  /\ b[j] = b[j - 1] + Len(qs[j])
              /\ \A i \in 1 .. Len(qs[j]) : t[b[j - 1] + i] = qs[j][i]
  <2>1. /\ j \in 0 .. n - 1 /\ j - 1 \in 0 .. n - 1 /\ j + 1 \in 1 .. n /\ j \in 1 .. n
        /\ (j - 1) + 1 = j /\ (j + 1) - 1 = j
    OBVIOUS
  <2>2. qs[j] = ps[j + 1]
    BY <1>13
  <2>3. /\ b[j] = a[j + 1] - f /\ b[j - 1] = a[j] - f /\ a[j] \in Nat /\ a[j + 1] \in Nat
        /\ a[j] >= f /\ a[j + 1] <= L
    <3>1. j + 1 \in 0 .. n /\ j \in 0 .. n
      BY <2>1
    <3>2. a[j] \in Nat /\ a[j + 1] \in Nat /\ a[j + 1] <= L
      BY <1>7, <1>10, <3>1
    <3>3. a[(j - 1) + 1] >= f
      BY <1>17, <2>1
    <3>4. b[j] = a[j + 1] - f
      BY <1>19, <2>1
    <3>5. b[j - 1] = a[(j - 1) + 1] - f
      BY <1>19, <2>1
    <3> QED BY <2>1, <3>2, <3>3, <3>4, <3>5
  <2>4. a[j + 1] = a[j] + Len(ps[j + 1]) /\ Len(ps[j + 1]) \in Nat
    BY <1>14, <2>1
  <2>5. ASSUME NEW i \in 1 .. Len(ps[j + 1]) PROVE t[b[j - 1] + i] = ps[j + 1][i]
    <3>1. s[a[j] + i] = ps[j + 1][i]
      BY <1>1, <1>3, <2>1 DEF Offsets
    <3>2. b[j - 1] + i \in 1 .. L - f /\ f + (b[j - 1] + i) = a[j] + i
      <4>1. PICK x \in Nat, y \in Nat : x = a[j] /\ y = Len(ps[j + 1])
        BY <2>3, <2>4
      <4>2. x >= f /\ x + y <= L /\ i \in 1 .. y /\ b[j - 1] = x - f
        BY <2>3, <2>4, <4>1
      <4>3. (x - f) + i \in 1 .. L - f /\ f + ((x - f) + i) = x + i
        BY <4>2
      <4> QED BY <4>1, <4>2, <4>3
    <3> QED BY <1>12, <3>1, <3>2
  <2> QED BY <2>2, <2>3, <2>4, <2>5
<1>21. Offsets(b, t, qs)
  BY <1>12, <1>13, <1>19, <1>20 DEF Offsets
<1>22. Joins(t, qs)
  BY <1>21 DEF Joins
<1> QED BY <1>4, <1>5, <1>6, <1>9, <1>11, <1>12, <1>13, <1>22
-----------------------------------------------------------------------------
(* FlattenSeq                                                              *)

IsFlat(g, seqs) ==
    g = [i \in 1 .. Len(seqs) |-> IF i = 1 THEN seqs[i] ELSE g[i - 1] \o seqs[i]]

\* FlattenSeq in terms of its table.
LEMMA FlattenTable ==
    ASSUME NEW seqs
    PROVE  FlattenSeq(seqs) = IF Len(seqs) = 0 THEN seqs
                              ELSE (CHOOSE g : IsFlat(g, seqs))[Len(seqs)]
BY DEF FlattenSeq, IsFlat

\* The table exists.
LEMMA FlattenSolves ==
    ASSUME NEW seqs \in Seq(Bytes), Len(seqs) >= 1
    PROVE  \E g : IsFlat(g, seqs)
<1>1. PICK n \in Nat : n = Len(seqs) /\ n >= 1
  OBVIOUS
<1>2. \A i \in 1 .. n : seqs[i] \in Bytes
  BY <1>1
<1>3. \A b \in Bytes : \A i \in 1 .. n : b \o seqs[i] \in Bytes
  BY <1>2 DEF Bytes
<1>4. PICK N \in Nat : N = n - 1
  BY <1>1
<1>5. PICK F : F = [k \in 1 .. N |-> [b \in Bytes |-> b \o seqs[k + 1]]]
  OBVIOUS
<1>6. F \in [1 .. N -> [Bytes -> Bytes]]
  <2>1. \A k \in 1 .. N : k + 1 \in 1 .. n
    BY <1>4
  <2>2. \A k \in 1 .. N : [b \in Bytes |-> b \o seqs[k + 1]] \in [Bytes -> Bytes]
    BY <1>3, <2>1
  <2> QED BY <1>5, <2>2
<1>s. Steps(F, N, Bytes)
  BY <1>6 DEF Steps
<1>7. PICK v0 \in Bytes : v0 = seqs[1]
  BY <1>1, <1>2
<1>i. PICK h : Iterates(h, N, Bytes, v0, F)
  BY <1>s, Iteration
<1>8. h \in [0 .. N -> Bytes] /\ h[0] = v0 /\ \A k \in 1 .. N : h[k] = F[k][h[k - 1]]
  BY <1>i DEF Iterates
<1>9. PICK g : g = [i \in 1 .. n |-> h[i - 1]]
  OBVIOUS
<1>10. ASSUME NEW i \in 1 .. n PROVE g[i] = IF i = 1 THEN seqs[i] ELSE g[i - 1] \o seqs[i]
  <2>1. CASE i = 1
    BY <1>7, <1>8, <1>9, <2>1
  <2>2. CASE i # 1
    <3>1. PICK k \in 1 .. N : k = i - 1 /\ i = k + 1 /\ k - 1 \in 0 .. N /\ k \in 1 .. n /\ k \in 0 .. N
      <4>1. /\ i - 1 \in 1 .. N /\ i = (i - 1) + 1 /\ (i - 1) - 1 \in 0 .. N
            /\ i - 1 \in 1 .. n /\ i - 1 \in 0 .. N
        BY <1>4, <2>2
      <4> QED BY <4>1
    <3>2. h[k] = F[k][h[k - 1]] /\ h[k - 1] \in Bytes
      BY <1>8, <3>1
    <3>3. F[k][h[k - 1]] = h[k - 1] \o seqs[k + 1]
      BY <1>5, <3>2
    <3>4. g[i] = h[k] /\ g[k] = h[k - 1]
      BY <1>9, <3>1
    <3> QED BY <2>2, <3>1, <3>2, <3>3, <3>4
  <2> QED BY <2>1, <2>2
<1>11. g = [i \in 1 .. n |-> IF i = 1 THEN seqs[i] ELSE g[i - 1] \o seqs[i]]
  BY <1>9, <1>10
<1> QED BY <1>1, <1>11 DEF IsFlat

\* One part more.
LEMMA PrefixGrows ==
    ASSUME NEW S, NEW s \in Seq(S), NEW k \in 1 .. Len(s)
    PROVE  /\ SubSeq(s, 1, k) = SubSeq(s, 1, k - 1) \o <<s[k]>>
           /\ SubSeq(s, 1, 0) = <<>> /\ SubSeq(s, 1, 1) = <<s[1]>>
           /\ SubSeq(s, 1, Len(s)) = s
<1>1. SubSeq(s, 1, 0) = <<>>
  OBVIOUS
<1>2. SubSeq(s, 1, 1) = <<s[1]>>
  <2>0. Len(s) >= 1 /\ s[1] \in S
    OBVIOUS
  <2>1. PICK u : u = SubSeq(s, 1, 1)
    OBVIOUS
  <2>2. u \in Seq(S) /\ Len(u) = 1 /\ u[1] = s[1]
    BY <2>0, <2>1
  <2>3. PICK w : w = <<s[1]>>
    OBVIOUS
  <2>4. w \in Seq(S) /\ Len(w) = 1 /\ w[1] = s[1]
    BY <2>0, <2>3
  <2>5. \A i \in 1 .. 1 : u[i] = w[i]
    BY <2>2, <2>4
  <2>6. u = w
    BY <2>2, <2>4, <2>5
  <2> QED BY <2>1, <2>3, <2>6
<1>3. SubSeq(s, 1, Len(s)) = s
  OBVIOUS
<1>4. SubSeq(s, 1, k) = SubSeq(s, 1, k - 1) \o <<s[k]>>
  <2>1. PICK t : t = SubSeq(s, 1, k - 1)
    OBVIOUS
  <2>2. t \in Seq(S) /\ Len(t) = k - 1 /\ \A i \in 1 .. k - 1 : t[i] = s[i]
    BY <2>1
  <2>3. PICK u : u = SubSeq(s, 1, k)
    OBVIOUS
  <2>4. u \in Seq(S) /\ Len(u) = k /\ \A i \in 1 .. k : u[i] = s[i]
    BY <2>3
  <2>5. PICK w : w = t \o <<s[k]>>
    OBVIOUS
  <2>6. s[k] \in S
    OBVIOUS
  <2>7. w \in Seq(S) /\ Len(w) = k /\ \A i \in 1 .. k - 1 : w[i] = t[i]
    BY <2>2, <2>5, <2>6
  <2>8. w[k] = s[k]
    BY <2>2, <2>5, <2>6
  <2>9. \A i \in 1 .. k : w[i] = u[i]
    BY <2>2, <2>4, <2>7, <2>8, SMTT(40)
  <2>10. w = u
    BY <2>4, <2>7, <2>9
  <2> QED BY <2>1, <2>3, <2>5, <2>10
<1> QED BY <1>1, <1>2, <1>3, <1>4

\* FlattenSeq puts its parts one behind the other.
LEMMA FlattenJoins == ASSUME NEW seqs \in Seq(Bytes) PROVE Joins(FlattenSeq(seqs), seqs)
<1>1. PICK n \in Nat : n = Len(seqs)
  OBVIOUS
<1>2. CASE n = 0
  <2>1. seqs = <<>>
    <3>1. Len(seqs) = 0
      BY <1>1, <1>2
    <3> QED BY <3>1
  <2>2. FlattenSeq(seqs) = seqs
    BY <1>1, <1>2, FlattenTable
  <2> QED BY <2>1, <2>2, JoinsNone
<1>3. CASE n # 0
  <2>1. Len(seqs) >= 1
    BY <1>1, <1>3
  <2>2. PICK g : g = CHOOSE w : IsFlat(w, seqs)
    OBVIOUS
  <2>3. IsFlat(g, seqs)
    BY <2>1, <2>2, FlattenSolves
  <2>4. FlattenSeq(seqs) = g[n]
    BY <1>1, <1>3, <2>2, FlattenTable
  <2>5. \A i \in 1 .. n : g[i] = IF i = 1 THEN seqs[i] ELSE g[i - 1] \o seqs[i]
    BY <1>1, <2>3 DEF IsFlat
  <2>6. \A i \in 1 .. n : seqs[i] \in Bytes
    BY <1>1
  <2>0. PICK N \in Nat : N = n - 1
    BY <1>3
  <2> DEFINE P == {k \in 0 .. N : Joins(g[k + 1], SubSeq(seqs, 1, k + 1))}
  <2>7. 0 \in P
    <3>1. 1 \in 1 .. n /\ 0 \in 0 .. N /\ 0 + 1 = 1
      BY <1>3, <2>0
    <3>2. g[1] = seqs[1]
      BY <2>5, <3>1
    <3>3. SubSeq(seqs, 1, 1) = <<seqs[1]>>
      BY <1>1, <3>1, PrefixGrows
    <3>4. Joins(seqs[1], <<seqs[1]>>)
      BY <2>6, <3>1, JoinsOne
    <3>5. Joins(g[1], SubSeq(seqs, 1, 1))
      BY <3>2, <3>3, <3>4
    <3> QED BY <3>1, <3>5
  <2>8. ASSUME NEW k \in 1 .. N, k - 1 \in P PROVE k \in P
    <3>1. PICK i \in 1 .. n : i = k + 1 /\ i # 1 /\ i - 1 = k /\ (k - 1) + 1 = k /\ k \in 0 .. N
      <4>1. k + 1 \in 1 .. n /\ k + 1 # 1 /\ (k + 1) - 1 = k /\ (k - 1) + 1 = k /\ k \in 0 .. N
        BY <2>0
      <4> QED BY <4>1
    <3>2. Joins(g[k], SubSeq(seqs, 1, k))
      BY <2>8, <3>1
    <3>3. g[i] = g[k] \o seqs[i]
      BY <2>5, <3>1
    <3>4. SubSeq(seqs, 1, i) = SubSeq(seqs, 1, k) \o <<seqs[i]>>
      <4>1. SubSeq(seqs, 1, i) = SubSeq(seqs, 1, i - 1) \o <<seqs[i]>>
        BY <1>1, PrefixGrows
      <4> QED BY <3>1, <4>1
    <3>5. Joins(seqs[i], <<seqs[i]>>)
      BY <2>6, JoinsOne
    <3>6. Joins(g[i], SubSeq(seqs, 1, i))
      BY <3>2, <3>3, <3>4, <3>5, JoinsConcat
    <3> QED BY <3>1, <3>6
  <2>9. \A k \in 0 .. N : k \in P
    <3> HIDE DEF P
    <3> QED BY <2>7, <2>8, Along
  <2>10. Joins(g[n], SubSeq(seqs, 1, n))
    <3>1. N \in 0 .. N /\ N + 1 = n
      BY <2>0
    <3>2. N \in P
      BY <2>9, <3>1
    <3>3. Joins(g[N + 1], SubSeq(seqs, 1, N + 1))
      BY <3>2
    <3> QED BY <3>1, <3>3
  <2>11. SubSeq(seqs, 1, n) = seqs
    <3>1. n \in 1 .. Len(seqs)
      BY <1>1, <1>3
    <3> QED BY <1>1, <3>1, PrefixGrows
  <2> QED BY <2>4, <2>10, <2>11
<1> QED BY <1>2, <1>3
-----------------------------------------------------------------------------
(* Fields and the checksum                                                 *)

(* w is the field with this tag and value.                                 *)
HasField(w, tag, val) ==
    /\ w \in Bytes /\ val \in Bytes /\ tag \in Nat
    /\ Len(w) = Len(to_chars[tag]) + Len(val) + 2
    /\ \A i \in 1 .. Len(to_chars[tag]) : w[i] = to_chars[tag][i]
    /\ w[Len(to_chars[tag]) + 1] = EQ
    /\ \A i \in 1 .. Len(val) : w[Len(to_chars[tag]) + 1 + i] = val[i]
    /\ w[Len(to_chars[tag]) + Len(val) + 2] = SOH
Fields == Seq(Nat \X Bytes)
Written(fs) == [j \in DOMAIN fs |-> write_field(fs[j][1], fs[j][2])]

\* Digits are bytes.
LEMMA TextBytes == ASSUME NEW s \in Text PROVE s \in Bytes
BY DEF Text, Digit, Bytes

\* A single byte.
LEMMA OneByte ==
    ASSUME NEW c \in Nat
    PROVE  <<c>> \in Bytes /\ Len(<<c>>) = 1 /\ <<c>>[1] = c
BY DEF Bytes

\* write_field writes the tag, '=', the value and the separator.
LEMMA FieldShape ==
    ASSUME NEW tag \in Nat, NEW val \in Bytes
    PROVE  HasField(write_field(tag, val), tag, val)
<1>1. PICK t \in Bytes : t = to_chars[tag]
  BY ToCharsType, TextBytes
<1>2. PICK e \in Bytes : e = <<EQ>> /\ Len(e) = 1 /\ e[1] = EQ
  <2>1. EQ \in Nat
    BY DEF EQ
  <2> QED BY <2>1, OneByte
<1>3. PICK z \in Bytes : z = <<SOH>> /\ Len(z) = 1 /\ z[1] = SOH
  <2>1. SOH \in Nat
    BY DEF SOH
  <2> QED BY <2>1, OneByte
<1>4. PICK a \in Bytes : IsConcat(a, t, e)
  BY ConcatAt DEF Bytes
<1>5. PICK b \in Bytes : IsConcat(b, a, val)
  BY ConcatAt DEF Bytes
<1>6. PICK w \in Bytes : IsConcat(w, b, z)
  BY ConcatAt DEF Bytes
<1>7. w = write_field(tag, val)
  BY <1>1, <1>2, <1>3, <1>4, <1>5, <1>6 DEF IsConcat, write_field
<1>8. PICK d \in Nat : d = Len(t)
  BY DEF Bytes
<1>9. PICK v \in Nat : v = Len(val)
  BY DEF Bytes
<1>10. /\ Len(a) = d + 1 /\ a[d + 1] = EQ /\ \A i \in 1 .. d : a[i] = t[i]
  <2>1. /\ Len(a) = d + 1 /\ \A i \in 1 .. d : a[i] = t[i]
        /\ \A i \in 1 .. 1 : a[d + i] = e[i]
    BY <1>2, <1>4, <1>8 DEF IsConcat
  <2> QED BY <1>2, <2>1
<1>11. /\ Len(b) = d + 1 + v /\ \A i \in 1 .. d + 1 : b[i] = a[i]
       /\ \A i \in 1 .. v : b[d + 1 + i] = val[i]
  BY <1>5, <1>9, <1>10 DEF IsConcat
<1>12. /\ Len(w) = d + v + 2 /\ \A i \in 1 .. d + 1 + v : w[i] = b[i]
       /\ w[d + v + 2] = SOH
  <2>1. /\ Len(w) = d + 1 + v + 1 /\ \A i \in 1 .. d + 1 + v : w[i] = b[i]
        /\ \A i \in 1 .. 1 : w[(d + 1 + v) + i] = z[i]
    BY <1>3, <1>6, <1>11 DEF IsConcat
  <2>2. 1 \in 1 .. 1 /\ (d + 1 + v) + 1 = d + v + 2 /\ d + 1 + v + 1 = d + v + 2
    OBVIOUS
  <2>3. w[(d + 1 + v) + 1] = z[1]
    BY <2>1, <2>2
  <2> QED BY <1>3, <2>1, <2>2, <2>3
<1>13. \A i \in 1 .. d : w[i] = t[i]
  <2>1. \A i \in 1 .. d : i \in 1 .. d + 1 /\ i \in 1 .. d + 1 + v
    OBVIOUS
  <2> QED BY <1>10, <1>11, <1>12, <2>1
<1>14. w[d + 1] = EQ
  <2>1. d + 1 \in 1 .. d + 1 /\ d + 1 \in 1 .. d + 1 + v
    OBVIOUS
  <2> QED BY <1>10, <1>11, <1>12, <2>1
<1>15. \A i \in 1 .. v : w[d + 1 + i] = val[i]
  <2>1. \A i \in 1 .. v : d + 1 + i \in 1 .. d + 1 + v
    OBVIOUS
  <2> QED BY <1>11, <1>12, <2>1
<1>16. HasField(w, tag, val)
  BY <1>1, <1>8, <1>9, <1>12, <1>13, <1>14, <1>15 DEF HasField
<1> QED BY <1>7, <1>16

\* The fields of a message, written one by one.
LEMMA WrittenType ==
    ASSUME NEW fs \in Fields
    PROVE  /\ Written(fs) \in Seq(Bytes) /\ Len(Written(fs)) = Len(fs)
           /\ \A j \in 1 .. Len(fs) : HasField(Written(fs)[j], fs[j][1], fs[j][2])
<1>1. PICK n \in Nat : n = Len(fs) /\ DOMAIN fs = 1 .. n
  BY DEF Fields
<1>2. \A j \in 1 .. n : fs[j][1] \in Nat /\ fs[j][2] \in Bytes
  BY <1>1 DEF Fields
<1>3. PICK W : W = Written(fs)
  OBVIOUS
<1>4. W = [j \in 1 .. n |-> write_field(fs[j][1], fs[j][2])]
  BY <1>1, <1>3 DEF Written
<1>5. ASSUME NEW j \in 1 .. n PROVE HasField(W[j], fs[j][1], fs[j][2])
  <2>1. W[j] = write_field(fs[j][1], fs[j][2])
    BY <1>4
  <2> QED BY <1>2, <2>1, FieldShape
<1>6. \A j \in 1 .. n : W[j] \in Bytes
  BY <1>5 DEF HasField
<1>7. W \in Seq(Bytes) /\ Len(W) = n
  BY <1>4, <1>6
<1> QED BY <1>1, <1>3, <1>5, <1>7

\* The body consists of its fields.
LEMMA BodyJoins ==
    ASSUME NEW fs \in Fields
    PROVE  Joins(Body(fs), Written(fs)) /\ Body(fs) \in Bytes
<1>1. Body(fs) = FlattenSeq(Written(fs))
  BY DEF Body, Written
<1>2. Joins(Body(fs), Written(fs))
  BY <1>1, WrittenType, FlattenJoins
<1> QED BY <1>2 DEF Joins
-----------------------------------------------------------------------------
(* The checksum                                                            *)

IsSum(g, b) == g = [k \in 0 .. Len(b) |-> IF k = 0 THEN 0 ELSE g[k - 1] + b[k]]

\* checksum in terms of its table.
LEMMA ChecksumTable ==
    ASSUME NEW b PROVE checksum(b) = (CHOOSE g : IsSum(g, b))[Len(b)] % 256
BY DEF checksum, IsSum

\* The checksum is a byte.
LEMMA ChecksumByte == ASSUME NEW b \in Bytes PROVE checksum(b) \in 0 .. 255
<1>1. PICK n \in Nat : n = Len(b) /\ \A k \in 1 .. n : b[k] \in Nat
  BY DEF Bytes
<1>2. PICK F : F = [k \in 1 .. n |-> [v \in Nat |-> v + b[k]]]
  OBVIOUS
<1>3. Steps(F, n, Nat)
  BY <1>1, <1>2 DEF Steps
<1>4. PICK h : Iterates(h, n, Nat, 0, F)
  BY <1>3, Iteration
<1>5. IsSum(h, b)
  <2>1. h \in [0 .. n -> Nat] /\ h[0] = 0 /\ \A k \in 1 .. n : h[k] = F[k][h[k - 1]]
    BY <1>4 DEF Iterates
  <2>2. ASSUME NEW k \in 1 .. n PROVE h[k] = h[k - 1] + b[k]
    <3>1. h[k - 1] \in Nat
      BY <2>1
    <3> QED BY <1>2, <2>1, <3>1
  <2>3. h = [k \in 0 .. n |-> IF k = 0 THEN 0 ELSE h[k - 1] + b[k]]
    BY <2>1, <2>2
  <2> QED BY <1>1, <2>3 DEF IsSum
<1>6. PICK g : g = CHOOSE w : IsSum(w, b)
  OBVIOUS
<1>7. g[0] = 0 /\ \A k \in 1 .. n : g[k] = g[k - 1] + b[k]
  <2>1. IsSum(g, b)
    BY <1>5, <1>6
  <2> QED BY <1>1, <2>1 DEF IsSum
<1> DEFINE P == {k \in Nat : g[k] \in Nat}
<1>8. 0 \in P
  BY <1>7
<1>9. ASSUME NEW k \in 1 .. n, k - 1 \in P PROVE k \in P
  BY <1>1, <1>7, <1>9
<1>10. \A k \in 0 .. n : k \in P
  <2> HIDE DEF P
  <2> QED BY <1>8, <1>9, Along
<1>11. PICK v \in Nat : v = g[n]
  BY <1>10
<1>12. v % 256 \in 0 .. 255
  OBVIOUS
<1> QED BY <1>1, <1>6, <1>11, <1>12, ChecksumTable

\* Three digits stand for the checksum.
LEMMA ThreeDenotes ==
    ASSUME NEW ck \in 0 .. 255
    PROVE  Denotes(Three(ck), ck) /\ Three(ck) \in Text /\ Len(Three(ck)) = 3
<1>1. PICK a \in 0 .. 9 : a = ck \div 100
  OBVIOUS
<1>2. PICK b \in 0 .. 9 : b = (ck \div 10) % 10
  OBVIOUS
<1>3. PICK c \in 0 .. 9 : c = ck % 10
  OBVIOUS
<1>4. 10 * (10 * a + b) + c = ck
  BY <1>1, <1>2, <1>3
<1>5. PICK s : s = <<48 + a>>
  OBVIOUS
<1>6. Denotes(s, a)
  BY <1>5, DenotesDigit
<1>7. PICK t : t = Append(s, 48 + b)
  OBVIOUS
<1>8. Denotes(t, 10 * a + b)
  BY <1>2, <1>6, <1>7, DenotesAppend
<1>9. PICK u : u = Append(t, 48 + c)
  OBVIOUS
<1>10. Denotes(u, 10 * (10 * a + b) + c)
  BY <1>8, <1>9, DenotesAppend
<1>11. u = <<48 + a, 48 + b, 48 + c>>
  <2>1. PICK x \in Nat, y \in Nat, z \in Nat : x = 48 + a /\ y = 48 + b /\ z = 48 + c
    OBVIOUS
  <2>2. s \in Seq(Nat) /\ Len(s) = 1 /\ s[1] = x
    BY <1>5, <2>1
  <2>3. t \in Seq(Nat) /\ Len(t) = 2 /\ t[1] = x /\ t[2] = y
    <3>1. PICK p \in Seq(Nat) : IsAppend(p, s, y)
      BY <2>2, AppendAt
    <3>2. p = t
      BY <1>7, <2>1, <3>1 DEF IsAppend
    <3>3. Len(p) = 2 /\ p[2] = y /\ \A i \in 1 .. 1 : p[i] = s[i]
      BY <2>2, <3>1 DEF IsAppend
    <3> QED BY <2>2, <3>2, <3>3
  <2>4. u \in Seq(Nat) /\ Len(u) = 3 /\ u[1] = x /\ u[2] = y /\ u[3] = z
    <3>1. PICK p \in Seq(Nat) : IsAppend(p, t, z)
      BY <2>3, AppendAt
    <3>2. p = u
      BY <1>9, <2>1, <3>1 DEF IsAppend
    <3>3. Len(p) = 3 /\ p[3] = z /\ \A i \in 1 .. 2 : p[i] = t[i]
      BY <2>3, <3>1 DEF IsAppend
    <3> QED BY <2>3, <3>2, <3>3
  <2>5. PICK w : w = <<x, y, z>>
    OBVIOUS
  <2>6. w \in Seq(Nat) /\ Len(w) = 3 /\ w[1] = x /\ w[2] = y /\ w[3] = z
    BY <2>5
  <2>7. \A i \in 1 .. 3 : u[i] = w[i]
    BY <2>4, <2>6
  <2>8. u = w
    BY <2>4, <2>6, <2>7, SMTT(40)
  <2> QED BY <2>1, <2>5, <2>8
<1>12. Len(<<48 + a, 48 + b, 48 + c>>) = 3
  OBVIOUS
<1>13. Three(ck) = u
  BY <1>1, <1>2, <1>3, <1>11 DEF Three
<1>14. Denotes(u, ck)
  BY <1>4, <1>10
<1>15. u \in Text
  BY <1>14 DEF Denotes
<1> QED BY <1>11, <1>12, <1>13, <1>14, <1>15
-----------------------------------------------------------------------------
(* The parts of a message                                                  *)

\* A single field.
LEMMA WrittenOne ==
    ASSUME NEW tag \in Nat, NEW val \in Bytes
    PROVE  << <<tag, val>> >> \in Fields /\ Written(<< <<tag, val>> >>) = <<write_field(tag, val)>>
<1>1. PICK f : f = <<tag, val>>
  OBVIOUS
<1>2. f \in Nat \X Bytes /\ f[1] = tag /\ f[2] = val
  BY <1>1
<1>3. PICK fs : fs = <<f>>
  OBVIOUS
<1>4. fs \in Fields /\ Len(fs) = 1 /\ fs[1] = f /\ DOMAIN fs = 1 .. 1
  BY <1>2, <1>3 DEF Fields
<1>5. PICK W : W = Written(fs)
  OBVIOUS
<1>6. W = [j \in 1 .. 1 |-> write_field(fs[j][1], fs[j][2])]
  BY <1>4, <1>5 DEF Written
<1>7. W \in Seq(Bytes) /\ Len(W) = 1
  BY <1>4, <1>5, WrittenType
<1>8. W[1] = write_field(tag, val)
  BY <1>2, <1>4, <1>6
<1>9. PICK V : V = <<write_field(tag, val)>>
  OBVIOUS
<1>10. V \in Seq(Bytes) /\ Len(V) = 1 /\ V[1] = write_field(tag, val)
  <2>1. write_field(tag, val) \in Bytes
    BY FieldShape DEF HasField
  <2> QED BY <1>9, <2>1
<1>11. \A i \in 1 .. 1 : W[i] = V[i]
  BY <1>8, <1>10
<1>12. W = V
  BY <1>7, <1>10, <1>11
<1> QED BY <1>1, <1>3, <1>4, <1>5, <1>9, <1>12

\* Fields behind fields.
LEMMA WrittenConcat ==
    ASSUME NEW fs \in Fields, NEW gs \in Fields
    PROVE  fs \o gs \in Fields /\ Written(fs \o gs) = Written(fs) \o Written(gs)
<1>1. PICK hs \in Fields : IsConcat(hs, fs, gs)
  BY ConcatAt DEF Fields
<1>2. PICK m \in Nat : m = Len(fs)
  BY DEF Fields
<1>3. PICK n \in Nat : n = Len(gs)
  BY DEF Fields
<1>4. /\ hs = fs \o gs /\ Len(hs) = m + n /\ \A i \in 1 .. m : hs[i] = fs[i]
      /\ \A i \in 1 .. n : hs[m + i] = gs[i]
  BY <1>1, <1>2, <1>3 DEF IsConcat
<1>5. PICK U : U = Written(fs)
  OBVIOUS
<1>6. PICK V : V = Written(gs)
  OBVIOUS
<1>7. PICK W : W = Written(hs)
  OBVIOUS
<1>8. /\ U \in Seq(Bytes) /\ Len(U) = m /\ V \in Seq(Bytes) /\ Len(V) = n
      /\ W \in Seq(Bytes) /\ Len(W) = m + n
  BY <1>2, <1>3, <1>4, <1>5, <1>6, <1>7, WrittenType
<1>9. /\ \A i \in 1 .. m : U[i] = write_field(fs[i][1], fs[i][2])
      /\ \A i \in 1 .. n : V[i] = write_field(gs[i][1], gs[i][2])
      /\ \A i \in 1 .. m + n : W[i] = write_field(hs[i][1], hs[i][2])
  <2>1. DOMAIN fs = 1 .. m /\ DOMAIN gs = 1 .. n /\ DOMAIN hs = 1 .. m + n
    BY <1>2, <1>3, <1>4 DEF Fields
  <2>2. \A i \in 1 .. m : U[i] = write_field(fs[i][1], fs[i][2])
    BY <1>5, <2>1 DEF Written
  <2>3. \A i \in 1 .. n : V[i] = write_field(gs[i][1], gs[i][2])
    BY <1>6, <2>1 DEF Written
  <2>4. \A i \in 1 .. m + n : W[i] = write_field(hs[i][1], hs[i][2])
    BY <1>7, <2>1 DEF Written
  <2> QED BY <2>2, <2>3, <2>4
<1>10. PICK X \in Seq(Bytes) : IsConcat(X, U, V)
  BY <1>8, ConcatAt
<1>11. /\ X = U \o V /\ Len(X) = m + n /\ \A i \in 1 .. m : X[i] = U[i]
       /\ \A i \in 1 .. n : X[m + i] = V[i]
  BY <1>8, <1>10 DEF IsConcat
<1>12. ASSUME NEW i \in 1 .. m + n PROVE W[i] = X[i]
  <2>1. CASE i \in 1 .. m
    <3>1. hs[i] = fs[i]
      BY <1>4, <2>1
    <3>2. X[i] = U[i]
      BY <1>11, <2>1
    <3>3. U[i] = write_field(fs[i][1], fs[i][2])
      BY <1>9, <2>1
    <3>4. W[i] = write_field(hs[i][1], hs[i][2])
      BY <1>9
    <3> QED BY <3>1, <3>2, <3>3, <3>4
  <2>2. CASE i \notin 1 .. m
    <3>1. PICK k \in 1 .. n : i = m + k
      <4>1. i - m \in 1 .. n /\ i = m + (i - m)
        BY <2>2
      <4> QED BY <4>1
    <3>2. hs[i] = gs[k] /\ X[i] = V[k]
      BY <1>4, <1>11, <3>1
    <3>3. V[k] = write_field(gs[k][1], gs[k][2]) /\ W[i] = write_field(hs[i][1], hs[i][2])
      BY <1>9
    <3> QED BY <3>2, <3>3
  <2> QED BY <2>1, <2>2
<1>13. W = X
  <2>1. Same(W, X, m + n)
    BY <1>8, <1>11, <1>12 DEF Same
  <2> QED BY <1>8, <2>1, SameElements
<1> QED BY <1>4, <1>5, <1>6, <1>7, <1>11, <1>13
-----------------------------------------------------------------------------
(* finalize                                                                *)

Head8 == write_field(8, FIX42)
Head9(fs) == write_field(9, to_chars[Len(Body(fs))])
Covered(fs) == Head8 \o Head9(fs) \o Body(fs)
Check(fs) == Three(checksum(Covered(fs)))
Framed(fs) == << <<8, FIX42>> >> \o << <<9, to_chars[Len(Body(fs))]>> >> \o fs
AllFields(fs) == Framed(fs) \o << <<10, Check(fs)>> >>

\* The protocol version.
LEMMA VersionType ==
    /\ FIX42 \in Bytes /\ Len(FIX42) = 7
    /\ FIX42[1] = 70 /\ FIX42[2] = 73 /\ FIX42[3] = 88 /\ FIX42[4] = 46
    /\ FIX42[5] = 52 /\ FIX42[6] = 46 /\ FIX42[7] = 50
<1>1. PICK f : f = FIX42
  OBVIOUS
<1>2. f = <<70, 73, 88, 46, 52, 46, 50>>
  BY <1>1 DEF FIX42
<1>3. f \in Seq(Nat) /\ Len(f) = 7
  BY <1>2
<1>4. f[1] = 70 /\ f[2] = 73 /\ f[3] = 88 /\ f[4] = 46 /\ f[5] = 52 /\ f[6] = 46 /\ f[7] = 50
  BY <1>2
<1> QED BY <1>1, <1>3, <1>4 DEF Bytes

\* The tags of the envelope.
LEMMA TagChars ==
    /\ Len(to_chars[8]) = 1 /\ to_chars[8][1] = 56
    /\ Len(to_chars[9]) = 1 /\ to_chars[9][1] = 57
    /\ Len(to_chars[10]) = 2
<1>1. to_chars[8] = <<56>> /\ to_chars[9] = <<57>>
  <2>1. to_chars[8] = <<48 + 8>>
    BY ToCharsType
  <2>2. to_chars[9] = <<48 + 9>>
    BY ToCharsType
  <2>3. 48 + 8 = 56 /\ 48 + 9 = 57
    OBVIOUS
  <2> QED BY <2>1, <2>2, <2>3
<1>2. Len(<<56>>) = 1 /\ <<56>>[1] = 56 /\ Len(<<57>>) = 1 /\ <<57>>[1] = 57
  OBVIOUS
<1>3. Len(to_chars[10]) = 2
  <2>1. 10 \div 10 = 1 /\ 10 % 10 = 0 /\ ~(10 < 10) /\ 1 < 10
    OBVIOUS
  <2>2. to_chars[10] = Append(to_chars[10 \div 10], 48 + (10 % 10))
    BY <2>1, ToCharsType
  <2>3. to_chars[1] = <<48 + 1>> /\ to_chars[1] \in Text
    BY <2>1, ToCharsType
  <2>4. PICK s \in Text : s = to_chars[1] /\ Len(s) = 1
    <3>1. Len(<<48 + 1>>) = 1
      OBVIOUS
    <3> QED BY <2>3, <3>1
  <2>5. to_chars[10] = Append(s, 48 + 0)
    BY <2>1, <2>2, <2>4
  <2>6. Len(Append(s, 48 + 0)) = Len(s) + 1
    BY DEF Text
  <2> QED BY <2>4, <2>5, <2>6
<1> QED BY <1>1, <1>2, <1>3

\* The parts of a message.
LEMMA FinalizeParts ==
    ASSUME NEW fs \in Fields
    PROVE  /\ Body(fs) \in Bytes /\ Len(Body(fs)) \in Nat
           /\ HasField(Head8, 8, FIX42)
           /\ HasField(Head9(fs), 9, to_chars[Len(Body(fs))])
           /\ Covered(fs) \in Bytes
           /\ checksum(Covered(fs)) \in 0 .. 255 /\ Check(fs) \in Bytes /\ Len(Check(fs)) = 3
           /\ HasField(write_field(10, Check(fs)), 10, Check(fs))
           /\ finalize(fs) = Covered(fs) \o write_field(10, Check(fs))
<1>1. Body(fs) \in Bytes
  BY BodyJoins
<1>2. Len(Body(fs)) \in Nat
  BY <1>1 DEF Bytes
<1>3. HasField(Head8, 8, FIX42)
  BY VersionType, FieldShape DEF Head8
<1>4. HasField(Head9(fs), 9, to_chars[Len(Body(fs))])
  <2>1. to_chars[Len(Body(fs))] \in Bytes
    BY <1>2, ToCharsType, TextBytes
  <2> QED BY <2>1, FieldShape DEF Head9
<1>5. Head8 \in Bytes /\ Head9(fs) \in Bytes
  BY <1>3, <1>4 DEF HasField
<1>6. Covered(fs) \in Bytes
  BY <1>1, <1>5 DEF Covered, Bytes
<1>7. checksum(Covered(fs)) \in 0 .. 255
  BY <1>6, ChecksumByte
<1>8. Check(fs) \in Bytes /\ Len(Check(fs)) = 3
  BY <1>7, ThreeDenotes, TextBytes DEF Check
<1>9. HasField(write_field(10, Check(fs)), 10, Check(fs))
  BY <1>8, FieldShape
<1>10. finalize(fs) = Covered(fs) \o write_field(10, Check(fs))
  BY DEF finalize, Covered, Head8, Head9, Check
<1> QED BY <1>1, <1>2, <1>3, <1>4, <1>6, <1>7, <1>8, <1>9, <1>10

\* The message consists of all its fields, those of the envelope included.
LEMMA FinalizeJoins ==
    ASSUME NEW fs \in Fields
    PROVE  /\ Joins(finalize(fs), Written(AllFields(fs))) /\ AllFields(fs) \in Fields
           /\ finalize(fs) \in Bytes
<1>1. PICK n : n = to_chars[Len(Body(fs))]
  OBVIOUS
<1>2. n \in Bytes /\ HasField(Head9(fs), 9, n)
  BY <1>1, FinalizeParts DEF HasField
<1>3. PICK c : c = Check(fs)
  OBVIOUS
<1>4. c \in Bytes
  BY <1>3, FinalizeParts
<1>5. PICK A, B, C : A = << <<8, FIX42>> >> /\ B = << <<9, n>> >> /\ C = << <<10, c>> >>
  OBVIOUS
<1>6. A \in Fields /\ Written(A) = <<Head8>>
  BY <1>5, VersionType, WrittenOne DEF Head8
<1>7. B \in Fields /\ Written(B) = <<Head9(fs)>>
  BY <1>1, <1>2, <1>5, WrittenOne DEF Head9
<1>8. C \in Fields /\ Written(C) = <<write_field(10, c)>>
  BY <1>4, <1>5, WrittenOne
<1>9. Framed(fs) = A \o B \o fs /\ AllFields(fs) = Framed(fs) \o C
  BY <1>1, <1>3, <1>5 DEF Framed, AllFields
<1>10. A \o B \in Fields /\ Written(A \o B) = <<Head8>> \o <<Head9(fs)>>
  BY <1>6, <1>7, WrittenConcat
<1>11. Framed(fs) \in Fields /\ Written(Framed(fs)) = <<Head8>> \o <<Head9(fs)>> \o Written(fs)
  BY <1>9, <1>10, WrittenConcat
<1>12. /\ AllFields(fs) \in Fields
       /\ Written(AllFields(fs)) = <<Head8>> \o <<Head9(fs)>> \o Written(fs) \o <<write_field(10, c)>>
  BY <1>8, <1>9, <1>11, WrittenConcat
<1>13. Joins(Head8, <<Head8>>) /\ Joins(Head9(fs), <<Head9(fs)>>)
  <2>1. Head8 \in Bytes /\ Head9(fs) \in Bytes
    BY FinalizeParts DEF HasField
  <2> QED BY <2>1, JoinsOne
<1>14. Joins(write_field(10, c), <<write_field(10, c)>>)
  <2>1. write_field(10, c) \in Bytes
    BY <1>3, FinalizeParts DEF HasField
  <2> QED BY <2>1, JoinsOne
<1>15. Joins(Head8 \o Head9(fs), <<Head8>> \o <<Head9(fs)>>)
  BY <1>13, JoinsConcat
<1>16. Joins(Covered(fs), <<Head8>> \o <<Head9(fs)>> \o Written(fs))
  BY <1>15, BodyJoins, JoinsConcat DEF Covered
<1>17. finalize(fs) = Covered(fs) \o write_field(10, c)
  BY <1>3, FinalizeParts
<1>18. Joins(finalize(fs), Written(AllFields(fs)))
  BY <1>12, <1>14, <1>16, <1>17, JoinsConcat
<1>19. finalize(fs) \in Bytes
  BY <1>18 DEF Joins
<1> QED BY <1>12, <1>18, <1>19
-----------------------------------------------------------------------------
(* The shape of a message                                                  *)

(* The bytes that the framer goes by: m is a message whose BodyLength is   *)
(* the text n and whose body has L bytes.                                  *)
Shape(m, n, L) ==
    /\ m \in Bytes /\ Len(m) = 20 + Len(n) + L
    /\ m[1] = 56 /\ m[2] = EQ /\ m[10] = SOH /\ m[11] = 57 /\ m[12] = EQ
    /\ \A i \in 3 .. 9 : m[i] # SOH
    /\ \A i \in 1 .. Len(n) : m[12 + i] = n[i]
    /\ m[13 + Len(n)] = SOH

\* finalize builds such a message; the checksum is that of everything in
\* front of its field.
LEMMA FinalizeShape ==
    ASSUME NEW fs \in Fields
    PROVE  /\ Shape(finalize(fs), to_chars[Len(Body(fs))], Len(Body(fs)))
           /\ SubSeq(finalize(fs), 1, Len(finalize(fs)) - 7) = Covered(fs)
<1>1. PICK L \in Nat : L = Len(Body(fs))
  BY FinalizeParts
<1>2. PICK n \in Bytes : n = to_chars[L]
  BY <1>1, ToCharsType, TextBytes
<1>3. PICK d \in Nat : d = Len(n)
  BY DEF Bytes
<1>4. PICK a : a = Head8
  OBVIOUS
<1>5. /\ a \in Bytes /\ Len(a) = 10 /\ a[1] = 56 /\ a[2] = EQ /\ a[10] = SOH
      /\ \A i \in 3 .. 9 : a[i] # SOH
  <2>1. HasField(a, 8, FIX42)
    BY <1>4, FinalizeParts
  <2>2. /\ a \in Bytes /\ Len(a) = 1 + 7 + 2 /\ \A i \in 1 .. 1 : a[i] = to_chars[8][i]
        /\ a[1 + 1] = EQ /\ \A i \in 1 .. 7 : a[1 + 1 + i] = FIX42[i]
        /\ a[1 + 7 + 2] = SOH
    BY <2>1, TagChars, VersionType DEF HasField
  <2>3. a[1] = 56
    BY <2>2, TagChars
  <2>4. ASSUME NEW i \in 3 .. 9 PROVE a[i] # SOH
    <3>1. PICK k \in 1 .. 7 : i = 1 + 1 + k
      <4>1. i - 2 \in 1 .. 7 /\ i = 1 + 1 + (i - 2)
        OBVIOUS
      <4> QED BY <4>1
    <3>2. a[i] = FIX42[k]
      BY <2>2, <3>1
    <3>3. FIX42[k] # 1
      <4>1. k \in {1, 2, 3, 4, 5, 6, 7}
        OBVIOUS
      <4> QED BY <4>1, VersionType
    <3> QED BY <3>2, <3>3 DEF SOH
  <2> QED BY <2>2, <2>3, <2>4
<1>6. PICK b : b = Head9(fs)
  OBVIOUS
<1>7. /\ b \in Bytes /\ Len(b) = d + 3 /\ b[1] = 57 /\ b[2] = EQ /\ b[d + 3] = SOH
      /\ \A i \in 1 .. d : b[2 + i] = n[i]
  <2>1. HasField(b, 9, n)
    BY <1>1, <1>2, <1>6, FinalizeParts
  <2>2. /\ b \in Bytes /\ Len(b) = 1 + d + 2 /\ \A i \in 1 .. 1 : b[i] = to_chars[9][i]
        /\ b[1 + 1] = EQ /\ \A i \in 1 .. d : b[1 + 1 + i] = n[i]
        /\ b[1 + d + 2] = SOH
    BY <1>3, <2>1, TagChars DEF HasField
  <2>3. b[1] = 57
    BY <2>2, TagChars
  <2>4. 1 + d + 2 = d + 3 /\ 1 + 1 = 2
    OBVIOUS
  <2> QED BY <2>2, <2>3, <2>4
<1>8. PICK c \in Bytes : c = Body(fs) /\ Len(c) = L
  BY <1>1, FinalizeParts
<1>9. PICK e : e = write_field(10, Check(fs))
  OBVIOUS
<1>10. e \in Bytes /\ Len(e) = 7
  <2>1. HasField(e, 10, Check(fs)) /\ Len(Check(fs)) = 3
    BY <1>9, FinalizeParts
  <2> QED BY <2>1, TagChars DEF HasField
<1>11. PICK p \in Bytes : IsConcat(p, a, b)
  BY <1>5, <1>7, ConcatAt DEF Bytes
<1>12. /\ p = a \o b /\ Len(p) = d + 13 /\ \A i \in 1 .. 10 : p[i] = a[i]
       /\ \A i \in 1 .. d + 3 : p[10 + i] = b[i]
  BY <1>5, <1>7, <1>11, SMTT(40) DEF IsConcat
<1>13. PICK q \in Bytes : IsConcat(q, p, c)
  BY ConcatAt DEF Bytes
<1>14. q = p \o c /\ Len(q) = d + 13 + L /\ \A i \in 1 .. d + 13 : q[i] = p[i]
  BY <1>8, <1>12, <1>13 DEF IsConcat
<1>15. q = Covered(fs)
  BY <1>4, <1>6, <1>8, <1>12, <1>14 DEF Covered
<1>16. PICK m \in Bytes : IsConcat(m, q, e)
  BY <1>10, ConcatAt DEF Bytes
<1>17. /\ m = q \o e /\ Len(m) = d + 13 + L + 7
       /\ \A i \in 1 .. d + 13 + L : m[i] = q[i]
  BY <1>10, <1>14, <1>16 DEF IsConcat
<1>18. m = finalize(fs)
  BY <1>9, <1>15, <1>17, FinalizeParts
<1>19. \A i \in 1 .. d + 13 : m[i] = p[i]
  <2>1. \A i \in 1 .. d + 13 : i \in 1 .. d + 13 + L
    OBVIOUS
  <2> QED BY <1>14, <1>17, <2>1
<1>20. \A i \in 1 .. 10 : m[i] = a[i]
  <2>1. \A i \in 1 .. 10 : i \in 1 .. d + 13
    OBVIOUS
  <2> QED BY <1>12, <1>19, <2>1
<1>21. \A i \in 1 .. d + 3 : m[10 + i] = b[i]
  <2>1. \A i \in 1 .. d + 3 : 10 + i \in 1 .. d + 13
    OBVIOUS
  <2> QED BY <1>12, <1>19, <2>1
<1>22. m[1] = 56 /\ m[2] = EQ /\ m[10] = SOH /\ \A i \in 3 .. 9 : m[i] # SOH
  BY <1>5, <1>20
<1>23. m[11] = 57 /\ m[12] = EQ
  <2>1. 1 \in 1 .. d + 3 /\ 2 \in 1 .. d + 3 /\ 10 + 1 = 11 /\ 10 + 2 = 12
    OBVIOUS
  <2> QED BY <1>7, <1>21, <2>1
<1>24. m[13 + d] = SOH
  <2>1. d + 3 \in 1 .. d + 3 /\ 10 + (d + 3) = 13 + d
    OBVIOUS
  <2> QED BY <1>7, <1>21, <2>1
<1>25. ASSUME NEW i \in 1 .. d PROVE m[12 + i] = n[i]
  <2>1. 2 + i \in 1 .. d + 3 /\ 10 + (2 + i) = 12 + i
    OBVIOUS
  <2> QED BY <1>7, <1>21, <2>1
<1>s. Len(m) = 20 + d + L
  BY <1>17
<1>26. Shape(m, n, L)
  BY <1>3, <1>s, <1>22, <1>23, <1>24, <1>25 DEF Shape
<1>27. SubSeq(m, 1, Len(m) - 7) = q
  <2>1. Len(m) - 7 = d + 13 + L /\ Len(m) - 7 \in Nat /\ Len(m) - 7 <= Len(m)
    BY <1>17
  <2>2. PICK u \in Bytes : IsCut(u, m, 0, d + 13 + L)
    <3>1. 0 <= d + 13 + L /\ d + 13 + L \in Nat /\ d + 13 + L <= Len(m) /\ 0 \in Nat
      BY <1>17
    <3> QED BY <3>1, CutAt DEF Bytes
  <2>3. /\ u = SubSeq(m, 1, Len(m) - 7) /\ Len(u) = d + 13 + L
        /\ \A i \in 1 .. d + 13 + L : u[i] = m[i]
    <3>1. 0 + 1 = 1 /\ d + 13 + L - 0 = d + 13 + L /\ \A i \in 1 .. d + 13 + L : 0 + i = i
      OBVIOUS
    <3> QED BY <2>1, <2>2, <3>1 DEF IsCut
  <2>4. u = q
    <3>1. PICK K \in Nat : K = d + 13 + L
      OBVIOUS
    <3>2. Len(u) = K /\ Len(q) = K /\ \A i \in 1 .. K : u[i] = q[i]
      BY <1>14, <1>17, <2>3, <3>1
    <3> QED BY <3>2 DEF Bytes
  <2> QED BY <2>3, <2>4
<1> QED BY <1>1, <1>2, <1>15, <1>18, <1>26, <1>27
-----------------------------------------------------------------------------
(* The framer                                                              *)

FrameFrom(buf, s, nine, soh, v) ==
    IF s = 0 \/ nine = 0 \/ soh = 0 \/ Len(buf) < soh + v + 7 THEN None
    ELSE [msg |-> SubSeq(buf, s, soh + v + 7), size |-> soh + v + 7]

\* Framer::next in terms of what it finds.
LEMMA FrameIs ==
    ASSUME NEW buf, NEW s, NEW nine, NEW soh, NEW v,
           s = Find(buf, <<56, EQ>>, 1), nine = Find(buf, <<SOH, 57, EQ>>, s),
           soh = Find(buf, <<SOH>>, nine + 3),
           v = from_chars(SubSeq(buf, nine + 3, soh - 1), 0)
    PROVE  frame(buf) = FrameFrom(buf, s, nine, soh, v)
BY DEF frame, FrameFrom

\* The two patterns.
LEMMA Patterns ==
    ASSUME NEW s, NEW k \in Nat
    PROVE  /\ Len(<<56, EQ>>) = 2 /\ Len(<<SOH, 57, EQ>>) = 3
           /\ Matches(s, <<56, EQ>>, k) <=> s[k] = 56 /\ s[k + 1] = EQ
           /\ Matches(s, <<SOH, 57, EQ>>, k) <=> s[k] = SOH /\ s[k + 1] = 57 /\ s[k + 2] = EQ
<1>1. PICK p : p = <<56, EQ>>
  OBVIOUS
<1>2. Len(p) = 2 /\ p[1] = 56 /\ p[2] = EQ
  BY <1>1
<1>3. PICK q : q = <<SOH, 57, EQ>>
  OBVIOUS
<1>4. Len(q) = 3 /\ q[1] = SOH /\ q[2] = 57 /\ q[3] = EQ
  BY <1>3
<1>5. 1 .. 2 = {1, 2} /\ 1 .. 3 = {1, 2, 3} /\ k + 1 - 1 = k /\ k + 2 - 1 = k + 1 /\ k + 3 - 1 = k + 2
  OBVIOUS
<1>6. Matches(s, p, k) <=> s[k] = 56 /\ s[k + 1] = EQ
  BY <1>2, <1>5 DEF Matches
<1>7. Matches(s, q, k) <=> s[k] = SOH /\ s[k + 1] = 57 /\ s[k + 2] = EQ
  BY <1>4, <1>5 DEF Matches
<1> QED BY <1>1, <1>2, <1>3, <1>4, <1>6, <1>7

Agree(s, t, K) == \A i \in 1 .. K : s[i] = t[i]

\* From twelve bytes on both the start of the message and the tag of its
\* length are found.
LEMMA FrameHead ==
    ASSUME NEW m, NEW n, NEW L, Shape(m, n, L), NEW buf \in Bytes, NEW K \in Nat, K <= Len(buf),
           12 <= K, Agree(buf, m, K)
    PROVE  Find(buf, <<56, EQ>>, 1) = 1 /\ Find(buf, <<SOH, 57, EQ>>, 1) = 10
<1>1. PICK N \in Nat : N = Len(buf)
  BY DEF Bytes
<1>2. /\ buf[1] = 56 /\ buf[2] = EQ /\ buf[10] = SOH /\ buf[11] = 57 /\ buf[12] = EQ
      /\ \A i \in 3 .. 9 : buf[i] # SOH
  <2>1. \A i \in 1 .. 12 : i \in 1 .. K
    OBVIOUS
  <2>2. \A i \in 1 .. 12 : buf[i] = m[i]
    BY <2>1 DEF Agree
  <2>3. /\ m[1] = 56 /\ m[2] = EQ /\ m[10] = SOH /\ m[11] = 57 /\ m[12] = EQ
        /\ \A i \in 3 .. 9 : m[i] # SOH
    BY DEF Shape
  <2>4. /\ 1 \in 1 .. 12 /\ 2 \in 1 .. 12 /\ 10 \in 1 .. 12 /\ 11 \in 1 .. 12 /\ 12 \in 1 .. 12
        /\ \A i \in 3 .. 9 : i \in 1 .. 12
    OBVIOUS
  <2>5. \A i \in 3 .. 9 : buf[i] # SOH
    BY <2>2, <2>3, <2>4, SMTT(40)
  <2>6. buf[1] = 56 /\ buf[2] = EQ /\ buf[10] = SOH /\ buf[11] = 57 /\ buf[12] = EQ
    BY <2>2, <2>3, <2>4, SMTT(40)
  <2> QED BY <2>5, <2>6
<1>3. PICK p : p = <<56, EQ>>
  OBVIOUS
<1>4. PICK q : q = <<SOH, 57, EQ>>
  OBVIOUS
<1>5. Len(p) = 2 /\ Len(q) = 3
  BY <1>3, <1>4, Patterns
<1>6. Matches(buf, p, 1)
  <2>1. 1 \in Nat /\ 1 + 1 = 2
    OBVIOUS
  <2>2. Matches(buf, p, 1) <=> buf[1] = 56 /\ buf[1 + 1] = EQ
    BY <1>3, <2>1, Patterns
  <2> QED BY <1>2, <2>1, <2>2
<1>7. Matches(buf, q, 10)
  <2>1. 10 \in Nat /\ 10 + 1 = 11 /\ 10 + 2 = 12
    OBVIOUS
  <2>2. Matches(buf, q, 10) <=> buf[10] = SOH /\ buf[10 + 1] = 57 /\ buf[10 + 2] = EQ
    BY <1>4, <2>1, Patterns
  <2> QED BY <1>2, <2>1, <2>2
<1>8. ASSUME NEW k \in 1 .. 9 PROVE ~Matches(buf, q, k)
  <2>1. buf[k] # SOH
    <3>1. k = 1 \/ k = 2 \/ k \in 3 .. 9
      OBVIOUS
    <3>2. 56 # SOH /\ EQ # SOH
      BY DEF EQ, SOH
    <3> QED BY <1>2, <3>1, <3>2, SMTT(40)
  <2>2. Matches(buf, q, k) <=> buf[k] = SOH /\ buf[k + 1] = 57 /\ buf[k + 2] = EQ
    <3>1. k \in Nat
      OBVIOUS
    <3> QED BY <1>4, <3>1, Patterns
  <2> QED BY <2>1, <2>2
<1>9. Find(buf, p, 1) = 1
  <2>1. Len(buf) \in Nat /\ Len(p) \in Nat /\ 1 <= 1 /\ 1 <= Len(buf) - Len(p) + 1
    BY <1>1, <1>5
  <2>2. \A k \in 1 .. 1 - 1 : ~Matches(buf, p, k)
    OBVIOUS
  <2> QED BY <1>6, <2>1, <2>2, FindFirst
<1>10. Find(buf, q, 1) = 10
  <2>1. Len(buf) \in Nat /\ Len(q) \in Nat /\ 1 <= 10 /\ 10 <= Len(buf) - Len(q) + 1
    BY <1>1, <1>5
  <2>2. \A k \in 1 .. 10 - 1 : ~Matches(buf, q, k)
    BY <1>8
  <2> QED BY <1>7, <2>1, <2>2, FindFirst
<1> QED BY <1>3, <1>4, <1>9, <1>10

\* Behind it come the digits of the length.
LEMMA FrameLength ==
    ASSUME NEW m, NEW n, NEW L, Shape(m, n, L), Denotes(n, L), NEW buf \in Bytes,
           NEW K \in Nat, K <= Len(buf), 13 + Len(n) <= K, Agree(buf, m, K)
    PROVE  /\ Find(buf, <<SOH>>, 13) = 13 + Len(n)
           /\ from_chars(SubSeq(buf, 13, 12 + Len(n)), 0) = L
<1>1. PICK N \in Nat : N = Len(buf)
  BY DEF Bytes
<1>2. PICK d \in Nat : d = Len(n) /\ n \in Text
  BY DEF Denotes, Text
<1>3. buf[13 + d] = SOH /\ \A i \in 1 .. d : buf[12 + i] = n[i]
  <2>1. 13 + d \in 1 .. K /\ \A i \in 1 .. d : 12 + i \in 1 .. K
    BY <1>2
  <2>2. m[13 + d] = SOH /\ \A i \in 1 .. d : m[12 + i] = n[i]
    BY <1>2 DEF Shape
  <2> QED BY <2>1, <2>2 DEF Agree
<1>4. ASSUME NEW k \in 13 .. 13 + d - 1 PROVE buf[k] # SOH
  <2>1. PICK i \in 1 .. d : k = 12 + i
    <3>1. k - 12 \in 1 .. d /\ k = 12 + (k - 12)
      OBVIOUS
    <3> QED BY <3>1
  <2>2. n[i] \in 48 .. 57
    BY <1>2 DEF Text, Digit
  <2> QED BY <1>3, <2>1, <2>2, SMTT(40) DEF SOH
<1>5. Find(buf, <<SOH>>, 13) = 13 + d
  <2>1. Len(buf) \in Nat /\ 13 + d \in Nat /\ 13 <= 13 + d /\ 13 + d <= Len(buf)
    BY <1>1, <1>2
  <2> QED BY <1>3, <1>4, <2>1, FindByte
<1>6. PICK u \in Bytes : IsCut(u, buf, 12, 12 + d)
  <2>1. 12 <= 12 + d /\ 12 + d <= Len(buf) /\ 12 + d \in Nat
    BY <1>1, <1>2
  <2> QED BY <2>1, CutAt DEF Bytes
<1>7. u = SubSeq(buf, 13, 12 + d) /\ Len(u) = d /\ \A i \in 1 .. d : u[i] = n[i]
  <2>1. 12 + 1 = 13 /\ 12 + d - 12 = d
    OBVIOUS
  <2> QED BY <1>3, <1>6, <2>1 DEF IsCut
<1>8. u = n
  <2>1. n \in Bytes
    BY <1>2, TextBytes
  <2> QED BY <1>2, <1>7, <2>1 DEF Bytes
<1>9. from_chars(u, 0) = L
  BY <1>8, FromChars
<1> QED BY <1>2, <1>5, <1>7, <1>9

\* A whole message is framed, whatever is behind it.
LEMMA FrameWhole ==
    ASSUME NEW m, NEW n, NEW L \in Nat, Shape(m, n, L), Denotes(n, L), NEW buf \in Bytes,
           Len(m) <= Len(buf), Agree(buf, m, Len(m))
    PROVE  frame(buf) = [msg |-> m, size |-> Len(m)]
<1>1. PICK N \in Nat : N = Len(buf)
  BY DEF Bytes
<1>2. PICK d \in Nat : d = Len(n) /\ d >= 1
  BY DEF Denotes, Text
<1>3. PICK K \in Nat : K = Len(m) /\ K = 20 + d + L /\ m \in Bytes
  BY <1>2 DEF Shape, Bytes
<1>4. K <= Len(buf) /\ 12 <= K /\ 13 + Len(n) <= K /\ Agree(buf, m, K)
  BY <1>2, <1>3
<1>5. Find(buf, <<56, EQ>>, 1) = 1 /\ Find(buf, <<SOH, 57, EQ>>, 1) = 10
  BY <1>4, FrameHead
<1>6. Find(buf, <<SOH>>, 13) = 13 + d /\ from_chars(SubSeq(buf, 13, 12 + d), 0) = L
  BY <1>2, <1>4, FrameLength
<1>7. 10 + 3 = 13 /\ (13 + d) - 1 = 12 + d /\ (13 + d) + L + 7 = K /\ 1 # 0 /\ 10 # 0 /\ 13 + d # 0
  BY <1>3
<1>8. frame(buf) = IF 1 = 0 \/ 10 = 0 \/ 13 + d = 0 \/ Len(buf) < K THEN None
                   ELSE [msg |-> SubSeq(buf, 1, K), size |-> K]
  <2>1. PICK s, nine, soh : s = 1 /\ nine = 10 /\ soh = 13 + d
    OBVIOUS
  <2>2. s = Find(buf, <<56, EQ>>, 1) /\ nine = Find(buf, <<SOH, 57, EQ>>, s)
    BY <1>5, <2>1
  <2>3. soh = Find(buf, <<SOH>>, nine + 3) /\ L = from_chars(SubSeq(buf, nine + 3, soh - 1), 0)
    BY <1>6, <1>7, <2>1
  <2>4. frame(buf) = FrameFrom(buf, s, nine, soh, L)
    BY <2>2, <2>3, FrameIs
  <2>5. soh + L + 7 = K
    BY <1>7, <2>1
  <2> QED BY <2>1, <2>4, <2>5 DEF FrameFrom
<1>9. ~(Len(buf) < K)
  BY <1>1, <1>4
<1>10. SubSeq(buf, 1, K) = m
  <2>1. PICK u \in Bytes : IsCut(u, buf, 0, K)
    BY <1>4, CutAt DEF Bytes
  <2>2. u = SubSeq(buf, 1, K) /\ Len(u) = K /\ \A i \in 1 .. K : u[i] = buf[i]
    <3>1. 0 + 1 = 1 /\ K - 0 = K /\ \A i \in 1 .. K : 0 + i = i
      OBVIOUS
    <3> QED BY <2>1, <3>1 DEF IsCut
  <2>3. \A i \in 1 .. K : u[i] = m[i]
    BY <1>4, <2>2 DEF Agree
  <2>4. u = m
    <3>1. u \in Seq(Nat) /\ m \in Seq(Nat) /\ Len(u) = K /\ Len(m) = K
      BY <1>3, <2>2 DEF Bytes
    <3> QED BY <2>3, <3>1
  <2> QED BY <2>2, <2>4
<1> QED BY <1>3, <1>7, <1>8, <1>9, <1>10

\* A message of which bytes are missing is not.
LEMMA FramePart ==
    ASSUME NEW m, NEW n, NEW L \in Nat, Shape(m, n, L), Denotes(n, L), NEW buf \in Bytes,
           Len(buf) < Len(m), Agree(buf, m, Len(buf))
    PROVE  frame(buf) = None
<1>1. PICK K \in Nat : K = Len(buf)
  BY DEF Bytes
<1>2. PICK d \in Nat : d = Len(n) /\ d >= 1 /\ n \in Text
  BY DEF Denotes, Text
<1>3. PICK s, nine, soh, v :
          /\ s = Find(buf, <<56, EQ>>, 1) /\ nine = Find(buf, <<SOH, 57, EQ>>, s)
          /\ soh = Find(buf, <<SOH>>, nine + 3)
          /\ v = from_chars(SubSeq(buf, nine + 3, soh - 1), 0)
  OBVIOUS
<1>4. frame(buf) = FrameFrom(buf, s, nine, soh, v)
  BY <1>3, FrameIs
<1>5. s = 0 \/ nine = 0 \/ soh = 0 \/ Len(buf) < soh + v + 7
  <2>1. CASE K < 12
    <3>1. SUFFICES ASSUME s # 0, nine # 0 PROVE FALSE
      OBVIOUS
    <3>2. s \in Nat /\ s >= 1
      <4>1. PICK p : p = <<56, EQ>>
        OBVIOUS
      <4>2. Len(p) = 2
        BY <4>1, Patterns
      <4>3. s \in 1 .. Len(buf) - Len(p) + 1
        <5>1. Find(buf, p, 1) # 0 /\ Len(p) \in Nat /\ Len(buf) \in Nat
          BY <1>1, <1>3, <3>1, <4>1, <4>2
        <5>2. Find(buf, p, 1) \in 1 .. Len(buf) - Len(p) + 1
          BY <5>1, FindRange
        <5> QED BY <1>3, <4>1, <5>2
      <4> QED BY <1>1, <4>2, <4>3
    <3>3. PICK q : q = <<SOH, 57, EQ>>
      OBVIOUS
    <3>4. Len(q) = 3
      BY <3>3, Patterns
    <3>5. \A k \in s .. Len(buf) - Len(q) + 1 : ~Matches(buf, q, k)
      <4>1. SUFFICES ASSUME NEW k \in s .. Len(buf) - Len(q) + 1 PROVE ~Matches(buf, q, k)
        OBVIOUS
      <4>2. k \in 1 .. 9 /\ k \in 1 .. K /\ k \in Nat
        BY <1>1, <2>1, <3>2, <3>4
      <4>3. buf[k] = m[k]
        BY <1>1, <4>2 DEF Agree
      <4>4. m[k] # SOH
        <5>1. k = 1 \/ k = 2 \/ k \in 3 .. 9
          BY <4>2
        <5>2. 56 # SOH /\ EQ # SOH
          BY DEF EQ, SOH
        <5>3. m[1] = 56 /\ m[2] = EQ /\ \A j \in 3 .. 9 : m[j] # SOH
          BY DEF Shape
        <5> QED BY <5>1, <5>2, <5>3
      <4> QED BY <3>3, <4>2, <4>3, <4>4, Patterns
    <3>6. Find(buf, q, s) = 0
      BY <3>5, FindNone
    <3> QED BY <1>3, <3>1, <3>3, <3>6
  <2>2. CASE 12 <= K
    <3>1. Agree(buf, m, K) /\ K <= Len(buf)
      BY <1>1
    <3>2. s = 1 /\ nine = 10
      BY <1>3, <2>2, <3>1, FrameHead
    <3>3. nine + 3 = 13
      BY <3>2
    <3>4. CASE K < 13 + d
      <4>1. ASSUME NEW k \in 13 .. Len(buf) PROVE buf[k] # SOH
        <5>1. PICK i \in 1 .. d : k = 12 + i
          <6>1. k - 12 \in 1 .. d /\ k = 12 + (k - 12)
            BY <1>1, <3>4
          <6> QED BY <6>1
        <5>2. k \in 1 .. K
          BY <1>1
        <5>3. buf[k] = n[i]
          BY <1>2, <3>1, <5>1, <5>2 DEF Agree, Shape
        <5>4. n[i] \in 48 .. 57
          BY <1>2 DEF Text, Digit
        <5>5. n[i] # 1
          BY <5>4
        <5> QED BY <5>3, <5>5 DEF SOH
      <4>2. Find(buf, <<SOH>>, 13) = 0
        BY <1>1, <4>1, FindNoByte
      <4> QED BY <1>3, <3>3, <4>2
    <3>5. CASE 13 + d <= K
      <4>1. 13 + Len(n) <= K
        BY <1>2, <3>5
      <4>2. soh = 13 + d /\ from_chars(SubSeq(buf, 13, 12 + d), 0) = L
        BY <1>2, <1>3, <3>1, <3>3, <4>1, FrameLength
      <4>3. soh - 1 = 12 + d
        BY <4>2
      <4>4. v = L
        BY <1>3, <3>3, <4>2, <4>3
      <4>5. Len(m) = 20 + d + L
        BY <1>2 DEF Shape
      <4> QED BY <1>1, <4>2, <4>4, <4>5
    <3> QED BY <3>4, <3>5
  <2> QED BY <2>1, <2>2
<1> QED BY <1>4, <1>5 DEF FrameFrom

\* Nor is nothing.
LEMMA FrameNothing == frame(<<>>) = None
<1>1. PICK e : e = <<>>
  OBVIOUS
<1>2. Len(e) = 0
  BY <1>1
<1>3. PICK p : p = <<56, EQ>>
  OBVIOUS
<1>4. Len(p) = 2
  BY <1>3, Patterns
<1>5. \A k \in 1 .. Len(e) - Len(p) + 1 : ~Matches(e, p, k)
  BY <1>2, <1>4
<1>6. Find(e, <<56, EQ>>, 1) = 0
  BY <1>3, <1>5, FindNone
<1>7. frame(e) = None
  <2>1. PICK s, nine, soh, v :
            /\ s = Find(e, <<56, EQ>>, 1) /\ nine = Find(e, <<SOH, 57, EQ>>, s)
            /\ soh = Find(e, <<SOH>>, nine + 3)
            /\ v = from_chars(SubSeq(e, nine + 3, soh - 1), 0)
    OBVIOUS
  <2>2. frame(e) = FrameFrom(e, s, nine, soh, v)
    BY <2>1, FrameIs
  <2> QED BY <1>6, <2>1, <2>2 DEF FrameFrom
<1> QED BY <1>1, <1>7
-----------------------------------------------------------------------------
(* The scan of View::get                                                   *)

(* View::get: what the scan finds at byte k                                *)
EqAt(msg, k) == Find(msg, <<EQ>>, k)
SohAt(msg, k) ==
    IF Find(msg, <<SOH>>, EqAt(msg, k) + 1) = 0 THEN Len(msg) + 1
    ELSE Find(msg, <<SOH>>, EqAt(msg, k) + 1)
TagAt(msg, k) == from_chars(SubSeq(msg, k, EqAt(msg, k) - 1), 0)
ValAt(msg, k) == SubSeq(msg, EqAt(msg, k) + 1, SohAt(msg, k) - 1)
EndAt(msg, k) == k > Len(msg) \/ EqAt(msg, k) = 0
IsScan(g, msg, tag) ==
    g = [k \in 1 .. Len(msg) + 2 |->
            IF EndAt(msg, k) THEN <<>>
            ELSE IF TagAt(msg, k) = tag THEN ValAt(msg, k) ELSE g[SohAt(msg, k) + 1]]

\* get in terms of its table.
LEMMA GetTable ==
    ASSUME NEW msg, NEW tag
    PROVE  get(msg, tag) = (CHOOSE g : IsScan(g, msg, tag))[1]
BY DEF get, IsScan, EndAt, TagAt, ValAt, SohAt, EqAt

\* The scan moves on.
LEMMA ScanMoves ==
    ASSUME NEW msg \in Bytes, NEW k \in 1 .. Len(msg) + 2, ~EndAt(msg, k)
    PROVE  SohAt(msg, k) + 1 \in k + 1 .. Len(msg) + 2
<1>1. PICK N \in Nat : N = Len(msg)
  BY DEF Bytes
<1>2. k \in 1 .. N /\ EqAt(msg, k) # 0
  BY <1>1 DEF EndAt
<1>3. PICK p : p = <<EQ>> /\ Len(p) = 1
  BY MatchesByte
<1>4. PICK q : q = <<SOH>> /\ Len(q) = 1
  BY MatchesByte
<1>5. PICK e : e = EqAt(msg, k)
  OBVIOUS
<1>6. e \in k .. N
  <2>1. Find(msg, p, k) # 0 /\ Len(p) \in Nat /\ Len(msg) \in Nat /\ k \in Nat
    BY <1>1, <1>2, <1>3 DEF EqAt
  <2>2. Find(msg, p, k) \in k .. Len(msg) - Len(p) + 1
    BY <2>1, FindRange
  <2>3. Len(msg) - Len(p) + 1 = N
    BY <1>1, <1>3
  <2> QED BY <1>3, <1>5, <2>2, <2>3 DEF EqAt
<1>7. PICK z : z = Find(msg, q, e + 1)
  OBVIOUS
<1>8. SohAt(msg, k) = IF z = 0 THEN N + 1 ELSE z
  BY <1>1, <1>4, <1>5, <1>7 DEF SohAt
<1>9. z # 0 => z \in e + 1 .. N
  <2>1. SUFFICES ASSUME z # 0 PROVE z \in e + 1 .. N
    OBVIOUS
  <2>2. Find(msg, q, e + 1) # 0 /\ Len(q) \in Nat /\ Len(msg) \in Nat /\ e + 1 \in Nat
    BY <1>1, <1>2, <1>4, <1>6, <1>7, <2>1
  <2>3. Find(msg, q, e + 1) \in e + 1 .. Len(msg) - Len(q) + 1
    BY <2>2, FindRange
  <2>4. Len(msg) - Len(q) + 1 = N
    BY <1>1, <1>4
  <2> QED BY <1>7, <2>3, <2>4
<1>10. PICK s : s = SohAt(msg, k)
  OBVIOUS
<1>11. s \in k + 1 .. N + 1
  <2>1. k \in Nat /\ e \in Nat /\ k <= e /\ e <= N /\ 1 <= k
    BY <1>2, <1>6
  <2>2. CASE z = 0
    BY <1>8, <1>10, <2>1, <2>2
  <2>3. CASE z # 0
    <3>1. s = z /\ z \in Nat /\ e + 1 <= z /\ z <= N
      BY <1>8, <1>9, <1>10, <2>1, <2>3
    <3> QED BY <2>1, <3>1
  <2> QED BY <2>2, <2>3
<1>12. s + 1 \in k + 1 .. N + 2
  BY <1>2, <1>11
<1> QED BY <1>1, <1>10, <1>12

\* The scan has a result.
LEMMA ScanSolves == ASSUME NEW msg \in Bytes, NEW tag PROVE \E g : IsScan(g, msg, tag)
<1>1. PICK N \in Nat : N = Len(msg) + 2 /\ N >= 2 /\ Len(msg) \in Nat
  BY DEF Bytes
<1>2. PICK stop : stop = {n \in Nat : n > N - 1 \/ EndAt(msg, N - n) \/ TagAt(msg, N - n) = tag}
  OBVIOUS
<1>3. PICK from : from = [n \in Nat |-> IF n \in stop THEN 0 ELSE N - (SohAt(msg, N - n) + 1)]
  OBVIOUS
<1>4. PICK base : base = [n \in Nat |-> IF EndAt(msg, N - n) THEN <<>> ELSE ValAt(msg, N - n)]
  OBVIOUS
<1>5. PICK V : V = {base[n] : n \in Nat}
  OBVIOUS
<1>6. PICK step : step = [n \in Nat |-> [v \in V |-> v]]
  OBVIOUS
<1>7. ASSUME NEW n \in Nat, n \notin stop PROVE from[n] \in Nat /\ from[n] < n
  <2>1. PICK k : k = N - n
    OBVIOUS
  <2>2. k \in 1 .. Len(msg) + 2 /\ ~EndAt(msg, k)
    BY <1>1, <1>2, <1>7, <2>1
  <2>3. PICK s : s = SohAt(msg, k) + 1
    OBVIOUS
  <2>4. s \in k + 1 .. N
    BY <1>1, <2>2, <2>3, ScanMoves
  <2>5. from[n] = N - s
    BY <1>3, <1>7, <2>1, <2>3
  <2>6. N - s \in Nat /\ N - s < n
    BY <1>1, <2>1, <2>4
  <2> QED BY <2>5, <2>6
<1>8. 0 \in stop
  <2>1. N - 0 > Len(msg)
    BY <1>1
  <2> QED BY <1>2, <2>1 DEF EndAt
<1>9. Recursive(V, stop, from, base, step)
  <2>1. stop \in SUBSET Nat
    BY <1>2
  <2>2. from \in [Nat -> Nat]
    BY <1>3, <1>7
  <2>3. base \in [Nat -> V]
    BY <1>4, <1>5
  <2>4. step \in [Nat -> [V -> V]]
    BY <1>6
  <2>5. \A n \in Nat : n \notin stop => from[n] < n
    BY <1>7
  <2> QED BY <1>8, <2>1, <2>2, <2>3, <2>4, <2>5 DEF Recursive
<1>10. PICK h : Solves(h, V, stop, from, base, step)
  BY <1>9, Recursion
<1>11. PICK g : g = [k \in 1 .. N |-> h[N - k]]
  OBVIOUS
<1>12. ASSUME NEW k \in 1 .. N
       PROVE  g[k] = IF EndAt(msg, k) THEN <<>>
                     ELSE IF TagAt(msg, k) = tag THEN ValAt(msg, k) ELSE g[SohAt(msg, k) + 1]
  <2>1. PICK n \in Nat : n = N - k /\ N - n = k /\ ~(n > N - 1)
    <3>1. N - k \in Nat /\ N - (N - k) = k /\ ~(N - k > N - 1)
      OBVIOUS
    <3> QED BY <3>1
  <2>2. g[k] = h[n]
    BY <1>11, <2>1
  <2>3. h \in [Nat -> V] /\ Follows(h, n, stop, from, base, step)
    BY <1>10 DEF Solves
  <2>4. CASE EndAt(msg, k) \/ TagAt(msg, k) = tag
    <3>1. n \in stop
      BY <1>2, <2>1, <2>4
    <3>2. h[n] = base[n]
      BY <2>3, <3>1 DEF Follows
    <3>3. base[n] = IF EndAt(msg, k) THEN <<>> ELSE ValAt(msg, k)
      BY <1>4, <2>1
    <3> QED BY <2>2, <2>4, <3>2, <3>3
  <2>5. CASE ~(EndAt(msg, k) \/ TagAt(msg, k) = tag)
    <3>1. n \notin stop
      BY <1>2, <2>1, <2>5
    <3>2. PICK s : s = SohAt(msg, k) + 1
      OBVIOUS
    <3>3. s \in 1 .. N
      <4>1. s \in k + 1 .. N
        BY <1>1, <2>5, <3>2, ScanMoves
      <4> QED BY <4>1
    <3>4. from[n] = N - s /\ from[n] \in Nat
      BY <1>3, <1>7, <2>1, <3>1, <3>2
    <3>5. h[n] = step[n][h[from[n]]]
      BY <2>3, <3>1 DEF Follows
    <3>6. h[from[n]] \in V
      BY <2>3, <3>4
    <3>7. step[n][h[from[n]]] = h[from[n]]
      BY <1>6, <3>6
    <3>8. g[s] = h[N - s]
      BY <1>11, <3>3
    <3> QED BY <2>2, <2>5, <3>2, <3>4, <3>5, <3>7, <3>8
  <2> QED BY <2>4, <2>5
<1>13. g = [k \in 1 .. N |-> IF EndAt(msg, k) THEN <<>>
                             ELSE IF TagAt(msg, k) = tag THEN ValAt(msg, k) ELSE g[SohAt(msg, k) + 1]]
  BY <1>11, <1>12
<1>14. IsScan(g, msg, tag)
  BY <1>1, <1>13 DEF IsScan
<1> QED BY <1>14
-----------------------------------------------------------------------------
(* Where the scan stops                                                    *)

Clean(val) == \A i \in 1 .. Len(val) : val[i] # SOH
At(msg, o, w) == o + Len(w) <= Len(msg) /\ \A i \in 1 .. Len(w) : msg[o + i] = w[i]

\* Texts with the same bytes are the same.
LEMMA SameBytes == ASSUME NEW s \in Bytes, NEW t \in Bytes, NEW n, Same(s, t, n) PROVE s = t
<1>1. s \in Seq(Nat) /\ t \in Seq(Nat) /\ Len(s) = n /\ Len(t) = n
  BY DEF Bytes, Same
<1>2. \A i \in 1 .. n : s[i] = t[i]
  BY DEF Same
<1> QED BY <1>1, <1>2

\* A cut that agrees with a text is the text.
LEMMA CutIs ==
    ASSUME NEW s \in Bytes, NEW t \in Bytes, NEW o \in Nat, NEW n \in Nat, n = Len(t),
           o + n <= Len(s), \A i \in 1 .. n : s[o + i] = t[i]
    PROVE  SubSeq(s, o + 1, o + n) = t
<1>1. PICK N \in Nat : N = Len(s)
  BY DEF Bytes
<1>2. PICK e \in Nat : e = o + n
  OBVIOUS
<1>3. PICK u \in Bytes : IsCut(u, s, o, e)
  <2>1. o <= e /\ e <= Len(s)
    BY <1>1, <1>2
  <2> QED BY <2>1, CutAt DEF Bytes
<1>4. u = SubSeq(s, o + 1, e) /\ Len(u) = n /\ \A i \in 1 .. n : u[i] = t[i]
  <2>1. e - o = n
    BY <1>2
  <2> QED BY <1>3, <2>1 DEF IsCut
<1>5. u = t
  <2>1. Same(u, t, n)
    BY <1>4 DEF Same
  <2> QED BY <2>1, SameBytes
<1> QED BY <1>2, <1>4, <1>5

\* What the scan finds where a field begins: its tag, its value and its end.
LEMMA ScanField ==
    ASSUME NEW msg \in Bytes, NEW w, NEW tag, NEW val, HasField(w, tag, val), Clean(val),
           NEW o \in Nat, At(msg, o, w)
    PROVE  /\ ~EndAt(msg, o + 1) /\ TagAt(msg, o + 1) = tag /\ ValAt(msg, o + 1) = val
           /\ SohAt(msg, o + 1) = o + Len(w)
<1>1. PICK N \in Nat : N = Len(msg)
  BY DEF Bytes
<1>2. PICK t \in Bytes : t = to_chars[tag] /\ t \in Text /\ tag \in Nat /\ val \in Bytes /\ w \in Bytes
  BY ToCharsType, TextBytes DEF HasField
<1>3. PICK d \in Nat : d = Len(t)
  BY DEF Bytes
<1>4. PICK v \in Nat : v = Len(val)
  BY <1>2 DEF Bytes
<1>5. /\ Len(w) = d + v + 2 /\ w[d + 1] = EQ /\ w[d + v + 2] = SOH
      /\ \A i \in 1 .. d : w[i] = t[i]
      /\ \A i \in 1 .. v : w[d + 1 + i] = val[i]
  BY <1>2, <1>3, <1>4 DEF HasField
<1>6. o + (d + v + 2) <= N /\ \A i \in 1 .. d + v + 2 : msg[o + i] = w[i]
  BY <1>1, <1>5 DEF At
<1>7. \A i \in 1 .. d : msg[o + i] = t[i]
  <2>1. \A i \in 1 .. d : i \in 1 .. d + v + 2
    OBVIOUS
  <2> QED BY <1>5, <1>6, <2>1
<1>8. PICK e \in Nat : e = o + d + 1 /\ msg[e] = EQ /\ e <= N /\ e # 0
  <2>1. d + 1 \in 1 .. d + v + 2 /\ o + (d + 1) = o + d + 1 /\ o + d + 1 \in Nat
        /\ o + d + 1 <= N /\ o + d + 1 # 0
    BY <1>6
  <2>2. msg[o + (d + 1)] = w[d + 1]
    BY <1>6, <2>1
  <2>3. w[d + 1] = EQ
    BY <1>5
  <2>4. msg[o + d + 1] = EQ
    BY <2>1, <2>2, <2>3
  <2> QED BY <2>1, <2>4
<1>9. \A i \in 1 .. v : msg[e + i] = val[i]
  <2>1. \A i \in 1 .. v : d + 1 + i \in 1 .. d + v + 2 /\ o + (d + 1 + i) = e + i
    BY <1>8
  <2> QED BY <1>5, <1>6, <2>1
<1>10. PICK z \in Nat : z = o + Len(w) /\ z = e + v + 1 /\ msg[z] = SOH /\ z <= N /\ z # 0
  <2>1. PICK y \in Nat : y = d + v + 2
    OBVIOUS
  <2>2. y \in 1 .. d + v + 2 /\ o + y \in Nat /\ o + y = e + v + 1 /\ o + y <= N /\ o + y # 0
    BY <1>6, <1>8, <2>1
  <2>a. w[y] = SOH /\ Len(w) = y
    BY <1>5, <2>1
  <2>b. msg[o + y] = w[y]
    BY <1>6, <2>2
  <2>3. msg[o + y] = SOH /\ Len(w) = y
    BY <2>a, <2>b
  <2> QED BY <2>2, <2>3
<1>11. EqAt(msg, o + 1) = e
  <2>1. ASSUME NEW k \in o + 1 .. e - 1 PROVE msg[k] # EQ
    <3>1. PICK i \in 1 .. d : k = o + i
      <4>1. k - o \in 1 .. d /\ k = o + (k - o)
        BY <1>8
      <4> QED BY <4>1
    <3>2. msg[k] = t[i]
      BY <1>7, <3>1
    <3>3. t[i] \in 48 .. 57
      BY <1>2, <1>3 DEF Text, Digit
    <3> QED BY <3>2, <3>3 DEF EQ
  <2>2. Len(msg) \in Nat /\ o + 1 \in Nat /\ o + 1 <= e /\ e <= Len(msg)
    BY <1>1, <1>8
  <2>3. Find(msg, <<EQ>>, o + 1) = e
    BY <1>8, <2>1, <2>2, FindByte
  <2> QED BY <2>3 DEF EqAt
<1>12. SohAt(msg, o + 1) = z
  <2>1. ASSUME NEW k \in e + 1 .. z - 1 PROVE msg[k] # SOH
    <3>1. PICK i \in 1 .. v : k = e + i
      <4>1. k - e \in 1 .. v /\ k = e + (k - e)
        BY <1>10
      <4> QED BY <4>1
    <3>2. val[i] # SOH
      BY <1>4 DEF Clean
    <3> QED BY <1>9, <3>1, <3>2
  <2>2. Len(msg) \in Nat /\ e + 1 \in Nat /\ e + 1 <= z /\ z <= Len(msg)
    BY <1>1, <1>10
  <2>3. Find(msg, <<SOH>>, e + 1) = z
    BY <1>10, <2>1, <2>2, FindByte
  <2> QED BY <1>10, <1>11, <2>3 DEF SohAt
<1>13. ~EndAt(msg, o + 1)
  <2>1. ~(o + 1 > N)
    BY <1>8
  <2> QED BY <1>1, <1>8, <1>11, <2>1 DEF EndAt
<1>14. TagAt(msg, o + 1) = tag
  <2>1. SubSeq(msg, o + 1, o + d) = t
    <3>1. o + d <= Len(msg)
      BY <1>1, <1>6
    <3> QED BY <1>3, <1>7, <3>1, CutIs
  <2>2. e - 1 = o + d
    BY <1>8
  <2>3. from_chars(t, 0) = tag
    BY <1>2, CharsRoundTrip
  <2> QED BY <1>11, <2>1, <2>2, <2>3 DEF TagAt
<1>15. ValAt(msg, o + 1) = val
  <2>1. SubSeq(msg, e + 1, e + v) = val
    <3>1. e + v <= Len(msg)
      BY <1>1, <1>10
    <3> QED BY <1>2, <1>4, <1>9, <3>1, CutIs
  <2>2. z - 1 = e + v
    BY <1>10
  <2> QED BY <1>11, <1>12, <2>1, <2>2 DEF ValAt
<1> QED BY <1>10, <1>12, <1>13, <1>14, <1>15

\* get returns the value of the first field with the tag.
LEMMA GetFirst ==
    ASSUME NEW fs \in Fields, NEW msg, Joins(msg, Written(fs)), NEW J \in 1 .. Len(fs),
           \A j \in 1 .. J : Clean(fs[j][2]),
           \A j \in 1 .. J - 1 : fs[j][1] # fs[J][1]
    PROVE  get(msg, fs[J][1]) = fs[J][2]
<1>1. PICK n \in Nat : n = Len(fs)
  BY DEF Fields
<1>2. PICK ps : ps = Written(fs)
  OBVIOUS
<1>3. /\ ps \in Seq(Bytes) /\ Len(ps) = n
      /\ \A j \in 1 .. n : HasField(ps[j], fs[j][1], fs[j][2])
  BY <1>1, <1>2, WrittenType
<1>4. PICK off : Offsets(off, msg, ps) /\ msg \in Bytes
  BY <1>2 DEF Joins
<1>5. PICK tag : tag = fs[J][1]
  OBVIOUS
<1>6. PICK g : g = CHOOSE w : IsScan(w, msg, tag)
  OBVIOUS
<1>7. IsScan(g, msg, tag)
  BY <1>4, <1>6, ScanSolves
<1>8. get(msg, tag) = g[1]
  BY <1>6, GetTable
<1>9. PICK M \in Nat : M = Len(msg)
  BY <1>4 DEF Bytes
<1>10. \A k \in 1 .. M + 2 : g[k] = IF EndAt(msg, k) THEN <<>>
           ELSE IF TagAt(msg, k) = tag THEN ValAt(msg, k) ELSE g[SohAt(msg, k) + 1]
  BY <1>7, <1>9 DEF IsScan
<1>11. ASSUME NEW j \in 1 .. n, Clean(fs[j][2])
       PROVE  /\ off[j - 1] \in Nat
              /\ g[off[j - 1] + 1] = IF fs[j][1] = tag THEN fs[j][2] ELSE g[off[j] + 1]
  <2>1. PICK o \in Nat : o = off[j - 1] /\ off[j] = o + Len(ps[j])
    <3>1. off \in [0 .. n -> Nat] /\ off[j] = off[j - 1] + Len(ps[j])
      BY <1>3, <1>4 DEF Offsets
    <3>2. j - 1 \in 0 .. n
      OBVIOUS
    <3>3. off[j - 1] \in Nat
      BY <3>1, <3>2
    <3> QED BY <3>1, <3>3
  <2>2. off[j] \in Nat /\ off[j] <= M
    <3>1. j \in 0 .. Len(ps)
      BY <1>3
    <3> QED BY <1>3, <1>4, <1>9, <3>1, OffsetsInside
  <2>3. \A i \in 1 .. Len(ps[j]) : msg[o + i] = ps[j][i]
    BY <1>3, <1>4, <2>1 DEF Offsets
  <2>4. At(msg, o, ps[j])
    BY <1>9, <2>1, <2>2, <2>3 DEF At
  <2>5. HasField(ps[j], fs[j][1], fs[j][2])
    BY <1>3
  <2>6. /\ ~EndAt(msg, o + 1) /\ TagAt(msg, o + 1) = fs[j][1] /\ ValAt(msg, o + 1) = fs[j][2]
        /\ SohAt(msg, o + 1) = o + Len(ps[j])
    BY <1>4, <1>11, <2>4, <2>5, ScanField
  <2>7. o + 1 \in 1 .. M + 2
    <3>1. PICK l \in Nat : l = Len(ps[j])
      <4>1. ps[j] \in Bytes
        BY <2>5 DEF HasField
      <4> QED BY <4>1 DEF Bytes
    <3>2. o + l <= M
      BY <2>1, <2>2, <3>1
    <3> QED BY <3>2
  <2>8. g[o + 1] = IF fs[j][1] = tag THEN fs[j][2] ELSE g[off[j] + 1]
    BY <1>10, <2>1, <2>6, <2>7
  <2> QED BY <2>1, <2>8
<1>12. PICK N \in Nat : N = J - 1
  BY <1>1
<1> DEFINE P == {j \in Nat : g[off[j] + 1] = g[1]}
<1>13. 0 \in P
  <2>1. off[0] = 0
    BY <1>4 DEF Offsets
  <2>2. off[0] + 1 = 1
    BY <2>1
  <2>3. g[off[0] + 1] = g[1]
    BY <2>2
  <2> QED BY <2>3
<1>14. ASSUME NEW j \in 1 .. N, j - 1 \in P PROVE j \in P
  <2>1. j \in 1 .. n /\ j \in 1 .. J /\ j \in 1 .. J - 1
    BY <1>1, <1>12
  <2>2. fs[j][1] # tag /\ Clean(fs[j][2])
    BY <1>5, <2>1
  <2>3. g[off[j - 1] + 1] = g[off[j] + 1]
    BY <1>11, <2>1, <2>2
  <2>4. g[off[j - 1] + 1] = g[1]
    BY <1>14
  <2>5. g[off[j] + 1] = g[1] /\ j \in Nat
    BY <2>3, <2>4
  <2> QED BY <2>5
<1>15. \A j \in 0 .. N : j \in P
  <2> HIDE DEF P
  <2> QED BY <1>13, <1>14, Along
<1>16. g[off[J - 1] + 1] = g[1]
  <2>1. N \in P
    BY <1>15
  <2> QED BY <1>12, <2>1
<1>17. g[off[J - 1] + 1] = fs[J][2]
  <2>1. J \in 1 .. n /\ J \in 1 .. J
    BY <1>1
  <2>2. Clean(fs[J][2])
    BY <2>1
  <2> QED BY <1>5, <1>11, <2>1, <2>2
<1> QED BY <1>5, <1>8, <1>16, <1>17
-----------------------------------------------------------------------------
(* Reading a message back                                                  *)

\* All fields of a message and their places.
LEMMA AllFieldsAt ==
    ASSUME NEW fs \in Fields
    PROVE  /\ Len(AllFields(fs)) = Len(fs) + 3 /\ Len(fs) \in Nat
           /\ AllFields(fs)[1][1] = 8 /\ AllFields(fs)[1][2] = FIX42
           /\ AllFields(fs)[2][1] = 9 /\ AllFields(fs)[2][2] = to_chars[Len(Body(fs))]
           /\ \A j \in 1 .. Len(fs) : AllFields(fs)[2 + j] = fs[j]
           /\ AllFields(fs)[Len(fs) + 3][1] = 10 /\ AllFields(fs)[Len(fs) + 3][2] = Check(fs)
<1>1. PICK n \in Nat : n = Len(fs)
  BY DEF Fields
<1>2. PICK t : t = to_chars[Len(Body(fs))] /\ t \in Bytes
  BY FinalizeParts DEF HasField
<1>3. PICK c : c = Check(fs) /\ c \in Bytes
  BY FinalizeParts
<1>4. PICK a, b, e : a = <<8, FIX42>> /\ b = <<9, t>> /\ e = <<10, c>>
  OBVIOUS
<1>5. a[1] = 8 /\ a[2] = FIX42 /\ b[1] = 9 /\ b[2] = t /\ e[1] = 10 /\ e[2] = c
  BY <1>4
<1>6. PICK A, B, E : A = <<a>> /\ B = <<b>> /\ E = <<e>>
  OBVIOUS
<1>7. A \in Fields /\ B \in Fields /\ E \in Fields
  BY <1>2, <1>3, <1>4, <1>6, VersionType, WrittenOne
<1>8. Len(A) = 1 /\ A[1] = a /\ Len(B) = 1 /\ B[1] = b /\ Len(E) = 1 /\ E[1] = e
  BY <1>6
<1>9. PICK p \in Fields : IsConcat(p, A, B)
  BY <1>7, ConcatAt DEF Fields
<1>10. p = A \o B /\ Len(p) = 2 /\ p[1] = a /\ p[2] = b
  <2>1. p = A \o B /\ Len(p) = 1 + 1 /\ \A i \in 1 .. 1 : p[i] = A[i]
    BY <1>8, <1>9 DEF IsConcat
  <2>2. \A i \in 1 .. 1 : p[1 + i] = B[i]
    BY <1>8, <1>9 DEF IsConcat
  <2>3. 1 \in 1 .. 1 /\ 1 + 1 = 2
    OBVIOUS
  <2>4. p[1 + 1] = B[1] /\ p[1] = A[1]
    BY <2>1, <2>2, <2>3
  <2> QED BY <1>8, <2>1, <2>3, <2>4
<1>11. PICK q \in Fields : IsConcat(q, p, fs)
  BY ConcatAt DEF Fields
<1>12. /\ q = p \o fs /\ Len(q) = 2 + n /\ \A i \in 1 .. 2 : q[i] = p[i]
       /\ \A i \in 1 .. n : q[2 + i] = fs[i]
  BY <1>1, <1>10, <1>11 DEF IsConcat
<1>13. PICK r \in Fields : IsConcat(r, q, E)
  BY <1>7, ConcatAt DEF Fields
<1>14. /\ r = q \o E /\ Len(r) = 2 + n + 1 /\ \A i \in 1 .. 2 + n : r[i] = q[i]
       /\ \A i \in 1 .. 1 : r[2 + n + i] = E[i]
  BY <1>8, <1>12, <1>13 DEF IsConcat
<1>15. r = AllFields(fs)
  BY <1>2, <1>3, <1>4, <1>6, <1>10, <1>12, <1>14 DEF AllFields, Framed
<1>16. r[1] = a /\ r[2] = b
  <2>1. 1 \in 1 .. 2 + n /\ 2 \in 1 .. 2 + n /\ 1 \in 1 .. 2 /\ 2 \in 1 .. 2
    OBVIOUS
  <2>2. r[1] = q[1] /\ r[2] = q[2] /\ q[1] = p[1] /\ q[2] = p[2]
    BY <1>12, <1>14, <2>1
  <2> QED BY <1>10, <2>2
<1>17. \A j \in 1 .. n : r[2 + j] = fs[j]
  <2>1. \A j \in 1 .. n : 2 + j \in 1 .. 2 + n
    OBVIOUS
  <2> QED BY <1>12, <1>14, <2>1
<1>18. r[n + 3] = e /\ Len(r) = n + 3
  <2>1. 1 \in 1 .. 1 /\ 2 + n + 1 = n + 3
    OBVIOUS
  <2>2. r[2 + n + 1] = E[1]
    BY <1>14, <2>1
  <2> QED BY <1>8, <1>14, <2>1, <2>2
<1> QED BY <1>1, <1>2, <1>3, <1>5, <1>15, <1>16, <1>17, <1>18

\* Digits hold no separator.
LEMMA CleanText == ASSUME NEW s \in Text PROVE Clean(s)
<1>1. \A i \in 1 .. Len(s) : s[i] \in 48 .. 57
  BY DEF Text, Digit
<1> QED BY <1>1 DEF Clean, SOH

\* Nor does the version.
LEMMA CleanVersion == Clean(FIX42)
<1>1. \A i \in 1 .. 7 : i \in {1, 2, 3, 4, 5, 6, 7}
  OBVIOUS
<1>2. \A i \in 1 .. 7 : FIX42[i] # 1
  BY <1>1, VersionType
<1> QED BY <1>2, VersionType DEF Clean, SOH

\* The fields of the envelope hold none either.
LEMMA CleanEnvelope ==
    ASSUME NEW fs \in Fields
    PROVE  Clean(AllFields(fs)[1][2]) /\ Clean(AllFields(fs)[2][2])
<1>1. Clean(AllFields(fs)[1][2])
  BY AllFieldsAt, CleanVersion
<1>2. to_chars[Len(Body(fs))] \in Text
  BY FinalizeParts, ToCharsType
<1>3. Clean(AllFields(fs)[2][2])
  BY <1>2, AllFieldsAt, CleanText
<1> QED BY <1>1, <1>3

\* A field is read back from the message with the value it was given when no
\* field with the same tag precedes it.
LEMMA FinalizeFirst ==
    ASSUME NEW fs \in Fields, NEW J \in 1 .. Len(fs), fs[J][1] # 8, fs[J][1] # 9,
           \A j \in 1 .. J : Clean(fs[j][2]),
           \A j \in 1 .. J - 1 : fs[j][1] # fs[J][1]
    PROVE  get(finalize(fs), fs[J][1]) = fs[J][2]
<1>1. PICK n \in Nat : n = Len(fs)
  BY DEF Fields
<1>2. PICK A : A = AllFields(fs)
  OBVIOUS
<1>3. /\ Len(A) = n + 3 /\ A[1][1] = 8 /\ A[2][1] = 9 /\ \A j \in 1 .. n : A[2 + j] = fs[j]
  BY <1>1, <1>2, AllFieldsAt
<1>4. A \in Fields /\ Joins(finalize(fs), Written(A))
  BY <1>2, FinalizeJoins
<1>5. PICK K \in 1 .. Len(A) : K = 2 + J
  <2>1. 2 + J \in 1 .. Len(A)
    BY <1>1, <1>3
  <2> QED BY <2>1
<1>6. A[K] = fs[J]
  BY <1>1, <1>3, <1>5
<1>7. ASSUME NEW j \in 1 .. K PROVE Clean(A[j][2]) /\ (j # K => A[j][1] # A[K][1])
  <2>1. CASE j = 1 \/ j = 2
    BY <1>2, <1>3, <1>6, <2>1, CleanEnvelope
  <2>2. CASE ~(j = 1 \/ j = 2)
    <3>1. PICK i \in 1 .. J : j = 2 + i /\ i \in 1 .. n /\ (j # K => i \in 1 .. J - 1)
      <4>1. j - 2 \in 1 .. J /\ j = 2 + (j - 2) /\ j - 2 \in 1 .. n /\ (j # K => j - 2 \in 1 .. J - 1)
        BY <1>1, <1>5, <2>2
      <4> QED BY <4>1
    <3>2. A[j] = fs[i]
      BY <1>3, <3>1
    <3> QED BY <1>6, <3>1, <3>2
  <2> QED BY <2>1, <2>2
<1>8. \A j \in 1 .. K : Clean(A[j][2])
  BY <1>7
<1>9. \A j \in 1 .. K - 1 : A[j][1] # A[K][1]
  <2>1. \A j \in 1 .. K - 1 : j \in 1 .. K /\ j # K
    OBVIOUS
  <2> QED BY <1>7, <2>1
<1>10. get(finalize(fs), A[K][1]) = A[K][2]
  BY <1>4, <1>8, <1>9, GetFirst
<1> QED BY <1>6, <1>10

\* BodyLength is read back.
LEMMA FinalizeLength ==
    ASSUME NEW fs \in Fields
    PROVE  get(finalize(fs), 9) = to_chars[Len(Body(fs))]
<1>1. PICK A : A = AllFields(fs)
  OBVIOUS
<1>2. PICK K \in 1 .. Len(A) : K = 2
  <2>1. 2 \in 1 .. Len(A)
    BY <1>1, AllFieldsAt
  <2> QED BY <2>1
<1>3. A[K][1] = 9 /\ A[K][2] = to_chars[Len(Body(fs))] /\ A[1][1] = 8
  BY <1>1, <1>2, AllFieldsAt
<1>4. A \in Fields /\ Joins(finalize(fs), Written(A))
  BY <1>1, FinalizeJoins
<1>5. \A j \in 1 .. K : Clean(A[j][2])
  <2>1. \A j \in 1 .. K : j = 1 \/ j = 2
    BY <1>2
  <2> QED BY <1>1, <2>1, CleanEnvelope
<1>6. \A j \in 1 .. K - 1 : A[j][1] # A[K][1]
  <2>1. \A j \in 1 .. K - 1 : j = 1
    BY <1>2
  <2> QED BY <1>3, <2>1
<1>7. get(finalize(fs), A[K][1]) = A[K][2]
  BY <1>4, <1>5, <1>6, GetFirst
<1> QED BY <1>3, <1>7

\* So is the checksum, when no other field has its tag.
LEMMA FinalizeCheck ==
    ASSUME NEW fs \in Fields, \A j \in 1 .. Len(fs) : Clean(fs[j][2]) /\ fs[j][1] # 10
    PROVE  get(finalize(fs), 10) = Check(fs)
<1>1. PICK n \in Nat : n = Len(fs)
  BY DEF Fields
<1>2. PICK A : A = AllFields(fs)
  OBVIOUS
<1>3. /\ Len(A) = n + 3 /\ A[1][1] = 8 /\ A[2][1] = 9 /\ \A j \in 1 .. n : A[2 + j] = fs[j]
      /\ A[n + 3][1] = 10 /\ A[n + 3][2] = Check(fs)
  BY <1>1, <1>2, AllFieldsAt
<1>4. A \in Fields /\ Joins(finalize(fs), Written(A))
  BY <1>2, FinalizeJoins
<1>5. PICK K \in 1 .. Len(A) : K = n + 3
  <2>1. n + 3 \in 1 .. Len(A)
    BY <1>3
  <2> QED BY <2>1
<1>6. A[K][1] = 10 /\ A[K][2] = Check(fs) /\ Clean(A[K][2])
  <2>1. Check(fs) \in Text
    BY FinalizeParts, ThreeDenotes DEF Check
  <2> QED BY <1>3, <1>5, <2>1, CleanText
<1>7. ASSUME NEW j \in 1 .. K PROVE Clean(A[j][2]) /\ (j # K => A[j][1] # 10)
  <2>1. CASE j = 1 \/ j = 2
    BY <1>2, <1>3, <2>1, CleanEnvelope
  <2>2. CASE j = K
    BY <1>6, <2>2
  <2>3. CASE ~(j = 1 \/ j = 2) /\ j # K
    <3>1. PICK i \in 1 .. n : j = 2 + i
      <4>1. j - 2 \in 1 .. n /\ j = 2 + (j - 2)
        BY <1>5, <2>3
      <4> QED BY <4>1
    <3>2. A[j] = fs[i]
      BY <1>3, <3>1
    <3> QED BY <1>1, <3>2
  <2> QED BY <2>1, <2>2, <2>3
<1>8. \A j \in 1 .. K : Clean(A[j][2])
  BY <1>7
<1>9. \A j \in 1 .. K - 1 : A[j][1] # A[K][1]
  <2>1. \A j \in 1 .. K - 1 : j \in 1 .. K /\ j # K
    OBVIOUS
  <2> QED BY <1>6, <1>7, <2>1
<1>10. get(finalize(fs), A[K][1]) = A[K][2]
  BY <1>4, <1>8, <1>9, GetFirst
<1> QED BY <1>6, <1>10
-----------------------------------------------------------------------------
(* Cutting and joining                                                     *)

\* Texts concatenate to texts.
LEMMA ConcatBytes == ASSUME NEW a \in Bytes, NEW b \in Bytes PROVE a \o b \in Bytes
BY DEF Bytes

\* The empty text adds nothing.
LEMMA ConcatNothing == ASSUME NEW a \in Bytes PROVE a \o <<>> = a
BY DEF Bytes

\* Concatenation is associative.
LEMMA ConcatAssoc ==
    ASSUME NEW a \in Bytes, NEW b \in Bytes, NEW c \in Bytes
    PROVE  (a \o b) \o c = a \o (b \o c)
BY DEF Bytes

\* Two adjacent cuts are one.
LEMMA CutSplit ==
    ASSUME NEW s \in Bytes, NEW f \in Nat, NEW e \in Nat, f <= e, e <= Len(s)
    PROVE  /\ SubSeq(s, f + 1, e) \o SubSeq(s, e + 1, Len(s)) = SubSeq(s, f + 1, Len(s))
           /\ SubSeq(s, f + 1, e) \in Bytes /\ SubSeq(s, e + 1, Len(s)) \in Bytes
<1>1. PICK N \in Nat : N = Len(s)
  BY DEF Bytes
<1>2. f <= N /\ N <= Len(s) /\ e <= N
  BY <1>1
<1>3. PICK a \in Bytes : IsCut(a, s, f, e)
  BY CutAt DEF Bytes
<1>4. PICK b \in Bytes : IsCut(b, s, e, N)
  BY <1>2, CutAt DEF Bytes
<1>5. PICK c \in Bytes : IsCut(c, s, f, N)
  BY <1>2, CutAt DEF Bytes
<1>6. PICK d \in Bytes : IsConcat(d, a, b)
  BY ConcatAt DEF Bytes
<1>7. PICK x \in Nat, y \in Nat : x = e - f /\ y = N - e
  <2>1. e - f \in Nat /\ N - e \in Nat
    BY <1>2
  <2> QED BY <2>1
<1>8. Len(a) = x /\ \A i \in 1 .. x : a[i] = s[f + i]
  BY <1>3, <1>7 DEF IsCut
<1>9. Len(b) = y /\ \A i \in 1 .. y : b[i] = s[e + i]
  BY <1>4, <1>7 DEF IsCut
<1>10. Len(c) = x + y /\ \A i \in 1 .. x + y : c[i] = s[f + i]
  <2>1. N - f = x + y
    BY <1>7
  <2> QED BY <1>5, <2>1 DEF IsCut
<1>11. Len(d) = x + y /\ (\A i \in 1 .. x : d[i] = a[i]) /\ \A i \in 1 .. y : d[x + i] = b[i]
  BY <1>6, <1>8, <1>9 DEF IsConcat
<1>12. ASSUME NEW i \in 1 .. x + y PROVE d[i] = c[i]
  <2>1. CASE i \in 1 .. x
    BY <1>8, <1>10, <1>11, <2>1
  <2>2. CASE i \notin 1 .. x
    <3>1. PICK k \in 1 .. y : i = x + k /\ f + i = e + k
      <4>1. i - x \in 1 .. y /\ i = x + (i - x) /\ f + i = e + (i - x)
        BY <1>7, <2>2
      <4> QED BY <4>1
    <3>2. b[k] = s[e + k] /\ c[i] = s[f + i] /\ d[x + k] = b[k]
      BY <1>9, <1>10, <1>11
    <3> QED BY <3>1, <3>2
  <2> QED BY <2>1, <2>2
<1>13. Same(d, c, x + y)
  BY <1>10, <1>11, <1>12 DEF Same
<1>14. d = c
  BY <1>13, SameBytes
<1> QED BY <1>1, <1>3, <1>4, <1>5, <1>6, <1>14 DEF IsCut, IsConcat

\* The whole, and nothing, as cuts.
LEMMA CutAll ==
    ASSUME NEW s \in Bytes
    PROVE  SubSeq(s, 0 + 1, Len(s)) = s /\ SubSeq(s, Len(s) + 1, Len(s)) = <<>>
BY DEF Bytes

\* Cutting into the first of two parts.
LEMMA CutConcat ==
    ASSUME NEW s \in Bytes, NEW t \in Bytes, NEW f \in Nat, f <= Len(s)
    PROVE  SubSeq(s \o t, f + 1, Len(s \o t)) = SubSeq(s, f + 1, Len(s)) \o t
<1>1. PICK m \in Nat, n \in Nat : m = Len(s) /\ n = Len(t)
  BY DEF Bytes
<1>2. PICK u \in Bytes : IsConcat(u, s, t)
  BY ConcatAt DEF Bytes
<1>3. /\ u = s \o t /\ Len(u) = m + n /\ (\A i \in 1 .. m : u[i] = s[i])
      /\ \A i \in 1 .. n : u[m + i] = t[i]
  BY <1>1, <1>2 DEF IsConcat
<1>4. f <= m /\ f <= m + n /\ m <= Len(s) /\ m + n <= Len(u) /\ m + n \in Nat
  BY <1>1, <1>3
<1>5. PICK a \in Bytes : IsCut(a, u, f, m + n)
  BY <1>4, CutAt DEF Bytes
<1>6. PICK b \in Bytes : IsCut(b, s, f, m)
  BY <1>4, CutAt DEF Bytes
<1>7. PICK c \in Bytes : IsConcat(c, b, t)
  BY ConcatAt DEF Bytes
<1>8. PICK x \in Nat : x = m - f
  <2>1. m - f \in Nat
    BY <1>4
  <2> QED BY <2>1
<1>9. Len(a) = x + n /\ \A i \in 1 .. x + n : a[i] = u[f + i]
  <2>1. m + n - f = x + n
    BY <1>8
  <2> QED BY <1>5, <2>1 DEF IsCut
<1>10. Len(b) = x /\ \A i \in 1 .. x : b[i] = s[f + i]
  BY <1>6, <1>8 DEF IsCut
<1>11. Len(c) = x + n /\ (\A i \in 1 .. x : c[i] = b[i]) /\ \A i \in 1 .. n : c[x + i] = t[i]
  BY <1>1, <1>7, <1>10 DEF IsConcat
<1>12. ASSUME NEW i \in 1 .. x + n PROVE a[i] = c[i]
  <2>1. CASE i \in 1 .. x
    <3>1. f + i \in 1 .. m
      BY <1>8, <2>1
    <3>2. u[f + i] = s[f + i]
      BY <1>3, <3>1
    <3> QED BY <1>9, <1>10, <1>11, <2>1, <3>2
  <2>2. CASE i \notin 1 .. x
    <3>1. PICK k \in 1 .. n : i = x + k /\ f + i = m + k
      <4>1. i - x \in 1 .. n /\ i = x + (i - x) /\ f + i = m + (i - x)
        BY <1>8, <2>2
      <4> QED BY <4>1
    <3>2. u[m + k] = t[k] /\ a[i] = u[f + i] /\ c[x + k] = t[k]
      BY <1>3, <1>9, <1>11
    <3> QED BY <3>1, <3>2
  <2> QED BY <2>1, <2>2
<1>13. Same(a, c, x + n)
  BY <1>9, <1>11, <1>12 DEF Same
<1>14. a = c
  BY <1>13, SameBytes
<1> QED BY <1>1, <1>3, <1>5, <1>6, <1>7, <1>14 DEF IsCut, IsConcat
-----------------------------------------------------------------------------
(* Messages as the code makes them                                         *)

\* A list of fields that the code gives the Builder: no separator in a value,
\* none of the tags that finalize adds, no tag twice.
WellMade(fs) ==
    /\ fs \in Fields
    /\ \A j \in 1 .. Len(fs) :
          /\ Clean(fs[j][2]) /\ fs[j][1] \notin {8, 9, 10}
          /\ \A i \in 1 .. Len(fs) : fs[i][1] = fs[j][1] => i = j

\* Texts that the code gives as values.
Value(v) == v \in Bytes /\ Clean(v) /\ v # <<>>
Values(v, n) == \A j \in 1 .. n : Value(v[j])

\* A message that any FIX reader accepts: the framer takes it whole whatever
\* follows, BodyLength and CheckSum are right.
Accepted(m) ==
    /\ frame(m \o m) = [msg |-> m, size |-> Len(m)]
    /\ get_int(m, 10) = checksum(SubSeq(m, 1, Len(m) - 7))
    /\ get_int(m, 9) = Len(m) - 7 - Find(m, <<SOH>>, 11)

\* Each field is read back.
LEMMA WellMadeRead ==
    ASSUME NEW fs, WellMade(fs), NEW J \in 1 .. Len(fs)
    PROVE  get(finalize(fs), fs[J][1]) = fs[J][2]
<1>1. fs \in Fields
  BY DEF WellMade
<1>2. PICK n \in Nat : n = Len(fs)
  BY <1>1 DEF Fields
<1>3. \A j \in 1 .. J : j \in 1 .. n
  BY <1>2
<1>4. \A j \in 1 .. J : Clean(fs[j][2])
  BY <1>2, <1>3 DEF WellMade
<1>5. \A j \in 1 .. J - 1 : j \in 1 .. n /\ j # J
  BY <1>2
<1>6. \A j \in 1 .. J - 1 : fs[j][1] # fs[J][1]
  BY <1>2, <1>5 DEF WellMade
<1>7. fs[J][1] # 8 /\ fs[J][1] # 9
  BY DEF WellMade
<1> QED BY <1>1, <1>4, <1>6, <1>7, FinalizeFirst

\* The separator behind BodyLength is the first behind the tag.
LEMMA LengthEnds ==
    ASSUME NEW m, NEW n \in Text, NEW L \in Nat, Shape(m, n, L)
    PROVE  Find(m, <<SOH>>, 11) = 13 + Len(n)
<1>1. PICK d \in Nat : d = Len(n)
  BY DEF Text
<1>2. PICK K \in Nat : K = Len(m) /\ K = 20 + d + L
  BY <1>1 DEF Shape
<1>3. m[11] = 57 /\ m[12] = EQ /\ m[13 + d] = SOH
  BY <1>1 DEF Shape
<1>4. \A i \in 1 .. d : m[12 + i] \in 48 .. 57
  <2>1. \A i \in 1 .. d : n[i] \in 48 .. 57
    BY <1>1 DEF Text, Digit
  <2> QED BY <1>1, <2>1 DEF Shape
<1>5. ASSUME NEW k \in 11 .. 13 + d - 1 PROVE m[k] # SOH
  <2>1. CASE k = 11 \/ k = 12
    BY <1>3, <2>1 DEF SOH, EQ
  <2>2. CASE ~(k = 11 \/ k = 12)
    <3>1. PICK i \in 1 .. d : k = 12 + i
      <4>1. k - 12 \in 1 .. d /\ k = 12 + (k - 12)
        BY <2>2
      <4> QED BY <4>1
    <3> QED BY <1>4, <3>1 DEF SOH
  <2> QED BY <2>1, <2>2
<1>6. PICK p \in Nat : p = 13 + d
  OBVIOUS
<1>7. 11 <= p /\ p <= Len(m) /\ Len(m) \in Nat /\ 11 \in Nat
  BY <1>2, <1>6
<1>8. m[p] = SOH /\ \A k \in 11 .. p - 1 : m[k] # SOH
  BY <1>3, <1>5, <1>6
<1>9. Find(m, <<SOH>>, 11) = p
  BY <1>7, <1>8, FindByte
<1> QED BY <1>1, <1>6, <1>9

\* A message from such a list is accepted, and is not empty.
LEMMA WellMadeAccepted ==
    ASSUME NEW fs, WellMade(fs)
    PROVE  Accepted(finalize(fs)) /\ finalize(fs) # <<>> /\ finalize(fs) \in Bytes
<1>1. fs \in Fields
  BY DEF WellMade
<1>2. PICK m, n : m = finalize(fs) /\ n = to_chars[Len(Body(fs))]
  OBVIOUS
<1>3. PICK L \in Nat : L = Len(Body(fs))
  BY <1>1, FinalizeParts
<1>4. Shape(m, n, L) /\ SubSeq(m, 1, Len(m) - 7) = Covered(fs)
  BY <1>1, <1>2, <1>3, FinalizeShape
<1>5. n \in Text /\ Denotes(n, L)
  BY <1>2, <1>3, ToCharsType, ToCharsDenotes
<1>6. PICK d \in Nat : d = Len(n)
  BY <1>5 DEF Text
<1>7. m \in Bytes /\ Len(m) = 20 + d + L
  BY <1>4, <1>6 DEF Shape
<1>8. frame(m \o m) = [msg |-> m, size |-> Len(m)]
  <2>1. PICK u \in Bytes : IsConcat(u, m, m)
    BY <1>7, ConcatAt DEF Bytes
  <2>2. u = m \o m /\ Len(m) <= Len(u) /\ Agree(u, m, Len(m))
    BY <1>7, <2>1 DEF IsConcat, Agree
  <2> QED BY <1>4, <1>5, <2>2, FrameWhole
<1>9. get_int(m, 10) = checksum(SubSeq(m, 1, Len(m) - 7))
  <2>1. \A j \in 1 .. Len(fs) : Clean(fs[j][2]) /\ fs[j][1] # 10
    BY DEF WellMade
  <2>2. get(m, 10) = Check(fs)
    BY <1>1, <1>2, <2>1, FinalizeCheck
  <2>3. PICK c \in 0 .. 255 : c = checksum(Covered(fs))
    BY <1>1, FinalizeParts
  <2>4. Denotes(Check(fs), c)
    BY <2>3, ThreeDenotes DEF Check
  <2>5. from_chars(Check(fs), 0) = c
    BY <2>4, FromChars
  <2> QED BY <1>4, <2>2, <2>3, <2>5 DEF get_int
<1>10. get_int(m, 9) = L
  <2>1. get(m, 9) = n
    BY <1>1, <1>2, FinalizeLength
  <2>2. from_chars(n, 0) = L
    BY <1>5, FromChars
  <2> QED BY <2>1, <2>2 DEF get_int
<1>11. Find(m, <<SOH>>, 11) = 13 + d
  BY <1>4, <1>5, <1>6, LengthEnds
<1>12. Len(m) - 7 - Find(m, <<SOH>>, 11) = L
  BY <1>7, <1>11
<1>13. m # <<>>
  BY <1>7 DEF Bytes
<1> QED BY <1>2, <1>7, <1>8, <1>9, <1>10, <1>12, <1>13 DEF Accepted
=============================================================================

------------------------- MODULE FixMessages_proofs --------------------------
(***************************************************************************)
(* What becomes of messages and orders. However send, recv and the framer  *)
(* cut the stream of bytes, the receiver gets the messages that were       *)
(* posted, in order, each with the values it was given, and none is held   *)
(* back. An order keeps its id, symbol, side, quantity and price through   *)
(* the two texts of its way, for every id, and both texts are well formed. *)
(***************************************************************************)
EXTENDS FixWire, OrderEncoding, FixCodec_proofs
-----------------------------------------------------------------------------
(* The bytes on their way                                                  *)

Pending(g, p) == [j \in 1 .. Len(p) - Len(g) |-> finalize(p[Len(g) + j])]
Stream(b, w, o, n) == b \o w \o SubSeq(o, n + 1, Len(o))
First == finalize(posted[Len(got) + 1])

WireTypes ==
    /\ out \in Bytes /\ sent \in 0 .. Len(out) /\ wire \in Bytes /\ buf_ \in Bytes
    /\ rpc \in {"recv", "next"} /\ got \in Seq(Bytes) /\ posted \in Seq(Messages)
    /\ Len(got) <= Len(posted)
Delivered == \A k \in 1 .. Len(got) : got[k] = finalize(posted[k])
OnTheWay == Joins(Stream(buf_, wire, out, sent), Pending(got, posted))
Waiting == rpc = "recv" => (Len(got) < Len(posted) => Len(buf_) < Len(First))
WireInv == WireTypes /\ Delivered /\ OnTheWay /\ Waiting

\* The messages are lists of fields.
LEMMA MessageFields == ASSUME NEW m \in Messages PROVE m \in Fields /\ Len(m) \in Nat
BY MessageAssumption DEF Fields, Bytes

\* A message has its envelope and so is not empty; it has the shape the
\* framer goes by.
LEMMA MessageShape ==
    ASSUME NEW m \in Messages
    PROVE  /\ finalize(m) \in Bytes /\ Len(finalize(m)) \in Nat /\ Len(finalize(m)) > 0
           /\ \E n : \E L \in Nat : Shape(finalize(m), n, L) /\ Denotes(n, L)
<1>1. m \in Fields
  BY MessageFields
<1>2. PICK L \in Nat : L = Len(Body(m))
  BY <1>1, FinalizeParts
<1>3. Shape(finalize(m), to_chars[L], L)
  BY <1>1, <1>2, FinalizeShape
<1>4. Denotes(to_chars[L], L)
  BY ToCharsDenotes
<1>5. finalize(m) \in Bytes
  BY <1>1, FinalizeJoins
<1>6. Len(finalize(m)) = 20 + Len(to_chars[L]) + L
  BY <1>3 DEF Shape
<1>7. Len(to_chars[L]) \in Nat
  BY ToCharsType DEF Text
<1> QED BY <1>3, <1>4, <1>5, <1>6, <1>7

\* Every field of a message is read back.
LEMMA MessageRead ==
    ASSUME NEW m \in Messages
    PROVE  \A f \in Range(m) : get(finalize(m), f[1]) = f[2]
<1>1. m \in Fields
  BY MessageFields
<1>2. PICK n \in Nat : n = Len(m) /\ DOMAIN m = 1 .. n
  BY <1>1 DEF Fields
<1>3. \A j \in 1 .. n : Clean(m[j][2])
  <2>1. SUFFICES ASSUME NEW j \in 1 .. n PROVE Clean(m[j][2])
    OBVIOUS
  <2>2. PICK v \in Bytes : v = m[j][2]
    BY <1>1, <1>2 DEF Fields
  <2>3. SOH \notin Range(v)
    BY <1>2, <2>2, MessageAssumption
  <2>4. DOMAIN v = 1 .. Len(v)
    BY DEF Bytes
  <2>5. \A i \in 1 .. Len(v) : v[i] # SOH
    BY <2>3, <2>4 DEF Range
  <2> QED BY <2>2, <2>5 DEF Clean
<1>4. ASSUME NEW J \in 1 .. n PROVE get(finalize(m), m[J][1]) = m[J][2]
  <2>1. m[J][1] # 8 /\ m[J][1] # 9
    BY <1>2, MessageAssumption
  <2>2. \A j \in 1 .. J : Clean(m[j][2])
    <3>1. \A j \in 1 .. J : j \in 1 .. n
      OBVIOUS
    <3> QED BY <1>3, <3>1
  <2>3. \A j \in 1 .. J - 1 : m[j][1] # m[J][1]
    <3>1. \A j \in 1 .. J - 1 : j \in 1 .. n /\ j # J
      OBVIOUS
    <3>2. \A i \in 1 .. n : m[i][1] = m[J][1] => i = J
      BY <1>2, MessageAssumption
    <3> QED BY <3>1, <3>2
  <2>4. J \in 1 .. Len(m)
    BY <1>2
  <2> QED BY <1>1, <2>1, <2>2, <2>3, <2>4, FinalizeFirst
<1>5. SUFFICES ASSUME NEW f \in Range(m) PROVE get(finalize(m), f[1]) = f[2]
  OBVIOUS
<1>6. PICK J \in 1 .. n : f = m[J]
  BY <1>2 DEF Range
<1> QED BY <1>4, <1>6

\* What has no parts is empty.
LEMMA JoinsEmpty == ASSUME NEW s, Joins(s, <<>>) PROVE s \in Bytes /\ Len(s) = 0
<1>1. PICK e : e = <<>>
  OBVIOUS
<1>2. Len(e) = 0
  BY <1>1
<1>3. PICK off : Offsets(off, s, e)
  BY <1>1 DEF Joins
<1>4. off[0] = 0 /\ off[0] = Len(s)
  BY <1>2, <1>3 DEF Offsets
<1> QED BY <1>4 DEF Joins

\* The messages to come.
LEMMA PendingIs ==
    ASSUME NEW g, NEW p \in Seq(Messages), Len(g) \in Nat, Len(g) <= Len(p)
    PROVE  /\ Pending(g, p) \in Seq(Bytes) /\ Len(Pending(g, p)) = Len(p) - Len(g)
           /\ \A j \in 1 .. Len(p) - Len(g) : Pending(g, p)[j] = finalize(p[Len(g) + j])
<1>1. PICK a \in Nat, b \in Nat : a = Len(g) /\ b = Len(p) /\ a <= b
  OBVIOUS
<1>2. PICK n \in Nat : n = b - a
  <2>1. b - a \in Nat
    BY <1>1
  <2> QED BY <2>1
<1>3. PICK P : P = Pending(g, p)
  OBVIOUS
<1>4. P = [j \in 1 .. n |-> finalize(p[a + j])]
  BY <1>1, <1>2, <1>3 DEF Pending
<1>5. \A j \in 1 .. n : finalize(p[a + j]) \in Bytes
  <2>1. \A j \in 1 .. n : a + j \in 1 .. b
    BY <1>2
  <2>2. \A j \in 1 .. n : p[a + j] \in Messages
    BY <1>1, <2>1
  <2> QED BY <2>2, MessageShape
<1>6. P \in Seq(Bytes) /\ Len(P) = n
  BY <1>4, <1>5
<1>7. \A j \in 1 .. n : P[j] = finalize(p[a + j])
  BY <1>4
<1> QED BY <1>1, <1>2, <1>3, <1>6, <1>7
-----------------------------------------------------------------------------
(* The sender and the receiver of bytes                                    *)

\* What has no elements is empty.
LEMMA NoElements == ASSUME NEW S, NEW s \in Seq(S), Len(s) = 0 PROVE s = <<>>
OBVIOUS

\* One message more is to come.
LEMMA PendingGrows ==
    ASSUME NEW g, NEW p \in Seq(Messages), Len(g) \in Nat, Len(g) <= Len(p), NEW m \in Messages
    PROVE  Pending(g, Append(p, m)) = Pending(g, p) \o <<finalize(m)>>
<1>1. PICK a \in Nat, b \in Nat : a = Len(g) /\ b = Len(p) /\ a <= b
  OBVIOUS
<1>2. PICK n \in Nat : n = b - a
  <2>1. b - a \in Nat
    BY <1>1
  <2> QED BY <2>1
<1>3. PICK q \in Seq(Messages) : IsAppend(q, p, m)
  BY AppendAt
<1>4. q = Append(p, m) /\ Len(q) = b + 1 /\ q[b + 1] = m /\ \A i \in 1 .. b : q[i] = p[i]
  BY <1>1, <1>3 DEF IsAppend
<1>5. PICK P : P = Pending(g, p)
  OBVIOUS
<1>6. P \in Seq(Bytes) /\ Len(P) = n /\ \A j \in 1 .. n : P[j] = finalize(p[a + j])
  BY <1>1, <1>2, <1>5, PendingIs
<1>7. PICK Q : Q = Pending(g, q)
  OBVIOUS
<1>8. Q \in Seq(Bytes) /\ Len(Q) = n + 1 /\ \A j \in 1 .. n + 1 : Q[j] = finalize(q[a + j])
  <2>1. Len(g) <= Len(q) /\ Len(q) - Len(g) = n + 1
    BY <1>1, <1>2, <1>4
  <2> QED BY <1>1, <1>7, <2>1, PendingIs
<1>9. PICK f \in Bytes : f = finalize(m)
  BY MessageShape
<1>10. PICK F \in Seq(Bytes) : F = <<f>> /\ Len(F) = 1 /\ F[1] = f
  <2>1. <<f>> \in Seq(Bytes) /\ Len(<<f>>) = 1 /\ <<f>>[1] = f
    OBVIOUS
  <2> QED BY <2>1
<1>11. PICK R \in Seq(Bytes) : IsConcat(R, P, F)
  BY <1>6, ConcatAt
<1>12. /\ R = P \o F /\ Len(R) = n + 1 /\ (\A i \in 1 .. n : R[i] = P[i])
       /\ \A i \in 1 .. 1 : R[n + i] = F[i]
  BY <1>6, <1>10, <1>11 DEF IsConcat
<1>13. ASSUME NEW j \in 1 .. n + 1 PROVE Q[j] = R[j]
  <2>1. CASE j \in 1 .. n
    <3>1. a + j \in 1 .. b
      BY <1>2, <2>1
    <3>2. q[a + j] = p[a + j]
      BY <1>4, <3>1
    <3> QED BY <1>6, <1>8, <1>12, <2>1, <3>2
  <2>2. CASE j \notin 1 .. n
    <3>1. j = n + 1 /\ a + j = b + 1 /\ 1 \in 1 .. 1
      BY <1>2, <2>2
    <3>2. R[n + 1] = F[1]
      BY <1>12, <3>1
    <3>3. Q[j] = finalize(m)
      BY <1>4, <1>8, <3>1
    <3> QED BY <1>9, <1>10, <3>1, <3>2, <3>3
  <2> QED BY <2>1, <2>2
<1>14. Same(Q, R, n + 1)
  BY <1>8, <1>12, <1>13 DEF Same
<1>15. Q = R
  BY <1>8, <1>14, SameElements
<1> QED BY <1>4, <1>5, <1>7, <1>9, <1>10, <1>12, <1>15

\* One message less.
LEMMA PendingShrinks ==
    ASSUME NEW g \in Seq(Bytes), NEW p \in Seq(Messages), Len(g) < Len(p), NEW x \in Bytes
    PROVE  /\ Pending(g, p) # <<>> /\ Pending(g, p)[1] = finalize(p[Len(g) + 1])
           /\ Pending(Append(g, x), p) = Tail(Pending(g, p))
           /\ Len(Append(g, x)) <= Len(p)
<1>1. PICK a \in Nat, b \in Nat : a = Len(g) /\ b = Len(p) /\ a < b
  OBVIOUS
<1>2. PICK n \in Nat : n = b - a /\ n >= 1
  <2>1. b - a \in Nat /\ b - a >= 1
    BY <1>1
  <2> QED BY <2>1
<1>3. PICK h \in Seq(Bytes) : IsAppend(h, g, x)
  BY AppendAt
<1>4. h = Append(g, x) /\ Len(h) = a + 1
  BY <1>1, <1>3 DEF IsAppend
<1>5. PICK P : P = Pending(g, p)
  OBVIOUS
<1>6. P \in Seq(Bytes) /\ Len(P) = n /\ \A j \in 1 .. n : P[j] = finalize(p[a + j])
  <2>1. Len(g) \in Nat /\ Len(g) <= Len(p)
    BY <1>1
  <2> QED BY <1>1, <1>2, <1>5, <2>1, PendingIs
<1>7. PICK Q : Q = Pending(h, p)
  OBVIOUS
<1>8. /\ Q \in Seq(Bytes) /\ Len(Q) = n - 1 /\ Len(h) <= Len(p)
      /\ \A j \in 1 .. n - 1 : Q[j] = finalize(p[(a + 1) + j])
  <2>1. Len(h) \in Nat /\ Len(h) <= Len(p) /\ Len(p) - Len(h) = n - 1
    BY <1>1, <1>2, <1>4
  <2>2. /\ Q \in Seq(Bytes) /\ Len(Q) = Len(p) - Len(h)
        /\ \A j \in 1 .. Len(p) - Len(h) : Q[j] = finalize(p[Len(h) + j])
    BY <1>7, <2>1, PendingIs
  <2>3. Len(h) = a + 1
    BY <1>4
  <2> QED BY <2>1, <2>2, <2>3
<1>9. P # <<>> /\ P[1] = finalize(p[a + 1])
  <2>1. P # <<>>
    BY <1>2, <1>6
  <2>2. 1 \in 1 .. n
    BY <1>2
  <2>3. P[1] = finalize(p[a + 1])
    BY <1>6, <2>2
  <2> QED BY <2>1, <2>3
<1>10. PICK T \in Seq(Bytes) : IsTail(T, P)
  BY <1>6, <1>9, TailAt
<1>11. T = Tail(P) /\ Len(T) = n - 1 /\ \A i \in 1 .. n - 1 : T[i] = P[i + 1]
  BY <1>6, <1>10 DEF IsTail
<1>12. ASSUME NEW j \in 1 .. n - 1 PROVE Q[j] = T[j]
  <2>1. j + 1 \in 1 .. n /\ a + (j + 1) = (a + 1) + j
    BY <1>2
  <2>2. P[j + 1] = finalize(p[a + (j + 1)])
    BY <1>6, <2>1
  <2> QED BY <1>8, <1>11, <2>1, <2>2
<1>13. Same(Q, T, n - 1)
  BY <1>8, <1>11, <1>12 DEF Same
<1>14. Q = T
  BY <1>8, <1>13, SameElements
<1> QED BY <1>1, <1>4, <1>5, <1>7, <1>8, <1>9, <1>11, <1>14

IsStream(s, t, b, w, o, n) ==
    s = Stream(b, w, o, n) /\ s = b \o t /\ t = w \o SubSeq(o, n + 1, Len(o))

\* The stream is the buffer and the rest.
LEMMA StreamIs ==
    ASSUME NEW b \in Bytes, NEW w \in Bytes, NEW o \in Bytes, NEW n \in 0 .. Len(o)
    PROVE  \E t \in Bytes : \E s \in Bytes : IsStream(s, t, b, w, o, n)
<1>1. PICK r : r = SubSeq(o, n + 1, Len(o))
  OBVIOUS
<1>2. r \in Bytes
  <2>1. n \in Nat /\ n <= Len(o) /\ Len(o) \in Nat /\ Len(o) <= Len(o)
    BY DEF Bytes
  <2>2. PICK u \in Bytes : IsCut(u, o, n, Len(o))
    BY <2>1, CutAt DEF Bytes
  <2> QED BY <1>1, <2>2 DEF IsCut
<1>3. b \o w \in Bytes
  BY ConcatBytes
<1>4. w \o r \in Bytes
  BY <1>2, ConcatBytes
<1>5. (b \o w) \o r = b \o (w \o r)
  BY <1>2, ConcatAssoc, SMTT(40)
<1>6. (b \o w) \o r \in Bytes
  BY <1>2, <1>3, ConcatBytes
<1>7. IsStream((b \o w) \o r, w \o r, b, w, o, n)
  BY <1>1, <1>5 DEF IsStream, Stream
<1> QED BY <1>4, <1>6, <1>7

\* What the framer finds in the buffer: nothing when no message is to come,
\* the next message when it is complete, and nothing before that.
LEMMA FramerSees ==
    ASSUME WireTypes, OnTheWay
    PROVE  /\ Len(got) = Len(posted) => frame(buf_) = None /\ Len(buf_) = 0
           /\ Len(got) < Len(posted) /\ Len(buf_) < Len(First) => frame(buf_) = None
           /\ Len(got) < Len(posted) /\ ~(Len(buf_) < Len(First)) =>
                 frame(buf_) = [msg |-> First, size |-> Len(First)]
<1>2. buf_ \in Bytes /\ wire \in Bytes /\ out \in Bytes /\ sent \in 0 .. Len(out)
  BY DEF WireTypes
<1>1. PICK t \in Bytes : \E s \in Bytes : IsStream(s, t, buf_, wire, out, sent)
  BY <1>2, StreamIs
<1>3. PICK s \in Bytes : IsConcat(s, buf_, t)
  BY <1>2, ConcatAt DEF Bytes
<1>4. s = Stream(buf_, wire, out, sent)
  BY <1>1, <1>3 DEF IsConcat, IsStream
<1>5. PICK a \in Nat, b \in Nat : a = Len(buf_) /\ b = Len(t)
  BY <1>2 DEF Bytes
<1>6. Len(s) = a + b /\ \A i \in 1 .. a : s[i] = buf_[i]
  BY <1>3, <1>5 DEF IsConcat
<1>7. Joins(s, Pending(got, posted))
  BY <1>4 DEF OnTheWay
<1>8. got \in Seq(Bytes) /\ posted \in Seq(Messages) /\ Len(got) \in Nat /\ Len(posted) \in Nat
  BY DEF WireTypes
<1>9. ASSUME Len(got) = Len(posted) PROVE frame(buf_) = None /\ Len(buf_) = 0
  <2>1. PICK P : P = Pending(got, posted)
    OBVIOUS
  <2>2. P \in Seq(Bytes) /\ Len(P) = 0
    <3>1. Len(got) <= Len(posted) /\ Len(posted) - Len(got) = 0
      BY <1>8, <1>9
    <3> QED BY <1>8, <2>1, <3>1, PendingIs
  <2>3. P = <<>>
    BY <2>2, NoElements
  <2>4. Len(s) = 0
    BY <1>7, <2>1, <2>3, JoinsEmpty
  <2>5. a = 0
    BY <1>6, <2>4
  <2>6. buf_ = <<>>
    <3>1. Len(buf_) = 0
      BY <1>5, <2>5
    <3> QED BY <1>2, <3>1, NoElements DEF Bytes
  <2> QED BY <1>5, <2>5, <2>6, FrameNothing
<1>10. ASSUME Len(got) < Len(posted)
       PROVE  /\ a < Len(First) => frame(buf_) = None
              /\ ~(a < Len(First)) => frame(buf_) = [msg |-> First, size |-> Len(First)]
  <2>1. Pending(got, posted) # <<>> /\ Pending(got, posted)[1] = First
    BY <1>2, <1>8, <1>10, PendingShrinks DEF First
  <2>p. PICK P : P = Pending(got, posted)
    OBVIOUS
  <2>q. P[1] \in Bytes /\ Len(P[1]) <= Len(s) /\ \A i \in 1 .. Len(P[1]) : s[i] = P[1][i]
    <3>1. Joins(s, P) /\ P # <<>>
      BY <1>7, <2>1, <2>p
    <3> QED BY <3>1, JoinsFirst
  <2>2. PICK m \in Bytes : m = First /\ Len(m) <= Len(s) /\ \A i \in 1 .. Len(m) : s[i] = m[i]
    BY <2>1, <2>p, <2>q
  <2>3. posted[Len(got) + 1] \in Messages
    BY <1>8, <1>10
  <2>4. PICK n : \E L \in Nat : Shape(m, n, L) /\ Denotes(n, L)
    <3>1. PICK z \in Messages : First = finalize(z)
      BY <2>3 DEF First
    <3>2. \E n : \E L \in Nat : Shape(finalize(z), n, L) /\ Denotes(n, L)
      BY MessageShape
    <3>3. finalize(z) = m
      BY <2>2, <3>1
    <3> QED BY <3>2, <3>3
  <2>l. PICK L \in Nat : Shape(m, n, L) /\ Denotes(n, L)
    BY <2>4
  <2>5. PICK k \in Nat : k = Len(m)
    BY DEF Bytes
  <2>6. CASE a < k
    <3>1. \A i \in 1 .. a : i \in 1 .. k
      BY <2>6
    <3>2. Agree(buf_, m, Len(buf_))
      BY <1>5, <1>6, <2>2, <2>5, <3>1 DEF Agree
    <3>3. frame(buf_) = None
      BY <1>2, <1>5, <2>l, <2>5, <2>6, <3>2, FramePart
    <3> QED BY <2>2, <2>5, <2>6, <3>3
  <2>7. CASE ~(a < k)
    <3>1. (\A i \in 1 .. k : i \in 1 .. a) /\ k <= a
      BY <2>7
    <3>2. Agree(buf_, m, Len(m)) /\ Len(m) <= Len(buf_)
      BY <1>5, <1>6, <2>2, <2>5, <3>1 DEF Agree
    <3>3. frame(buf_) = [msg |-> m, size |-> Len(m)]
      BY <1>2, <2>l, <3>2, FrameWhole
    <3> QED BY <2>2, <2>5, <2>7, <3>3
  <2> QED BY <2>6, <2>7
<1> QED BY <1>5, <1>9, <1>10
-----------------------------------------------------------------------------
(* The steps of FixWire                                                    *)

\* At the start nothing is on the way.
LEMMA WireStart == WireInit => WireInv
<1> SUFFICES ASSUME WireInit PROVE WireInv
  OBVIOUS
<1>1. PICK e : e = <<>>
  OBVIOUS
<1>2. e \in Bytes /\ e \in Seq(Bytes) /\ e \in Seq(Messages) /\ Len(e) = 0
  BY <1>1 DEF Bytes
<1>3. /\ out = e /\ sent = 0 /\ wire = e /\ buf_ = e /\ rpc = "recv" /\ got = e /\ posted = e
  BY <1>1 DEF WireInit
<1>4. WireTypes
  BY <1>2, <1>3 DEF WireTypes
<1>5. Delivered
  BY <1>2, <1>3 DEF Delivered
<1>6. Waiting
  BY <1>2, <1>3 DEF Waiting
<1>7. OnTheWay
  <2>1. SubSeq(e, 0 + 1, Len(e)) = e
    BY <1>2, CutAll
  <2>2. e \o e = e
    BY <1>1, <1>2, ConcatNothing
  <2>3. Stream(buf_, wire, out, sent) = e
    BY <1>3, <2>1, <2>2 DEF Stream
  <2>4. PICK P : P = Pending(got, posted)
    OBVIOUS
  <2>5. P \in Seq(Bytes) /\ Len(P) = 0
    <3>1. Len(e) \in Nat /\ Len(e) <= Len(e) /\ Len(e) - Len(e) = 0
      BY <1>2
    <3> QED BY <1>2, <1>3, <2>4, <3>1, PendingIs
  <2>6. P = <<>>
    BY <2>5, NoElements
  <2> QED BY <1>1, <2>3, <2>4, <2>6, JoinsNone DEF OnTheWay
<1> QED BY <1>4, <1>5, <1>6, <1>7 DEF WireInv

\* A message is given to send_all: it comes behind all others.
LEMMA PostKeeps == ASSUME WireInv, NEW m \in Messages, Post(m) PROVE WireInv'
<1>1. WireTypes /\ Delivered /\ OnTheWay /\ Waiting
  BY DEF WireInv
<1>2. /\ sent = Len(out) /\ out' = finalize(m) /\ sent' = 0 /\ posted' = Append(posted, m)
      /\ wire' = wire /\ buf_' = buf_ /\ rpc' = rpc /\ got' = got
  BY DEF Post
<1>3. /\ out \in Bytes /\ wire \in Bytes /\ buf_ \in Bytes /\ rpc \in {"recv", "next"}
      /\ got \in Seq(Bytes) /\ posted \in Seq(Messages) /\ Len(got) <= Len(posted)
  BY <1>1 DEF WireTypes
<1>4. PICK f \in Bytes : f = finalize(m) /\ Len(f) \in Nat /\ Len(f) > 0
  BY MessageShape
<1>5. PICK a \in Nat, b \in Nat : a = Len(got) /\ b = Len(posted) /\ a <= b
  BY <1>3
<1>6. PICK p \in Seq(Messages) : IsAppend(p, posted, m)
  BY <1>3, AppendAt
<1>7. posted' = p /\ Len(p) = b + 1 /\ p[b + 1] = m /\ \A i \in 1 .. b : p[i] = posted[i]
  BY <1>2, <1>5, <1>6 DEF IsAppend
<1>8. WireTypes'
  <2>1. sent' \in 0 .. Len(out') /\ out' \in Bytes
    BY <1>2, <1>4
  <2>2. Len(got') <= Len(posted') /\ posted' \in Seq(Messages)
    BY <1>2, <1>5, <1>7
  <2> QED BY <1>2, <1>3, <2>1, <2>2 DEF WireTypes
<1>9. Delivered'
  <2>1. \A k \in 1 .. a : got[k] = finalize(posted[k])
    BY <1>1, <1>5 DEF Delivered
  <2>2. \A k \in 1 .. a : k \in 1 .. b
    BY <1>5
  <2>3. \A k \in 1 .. a : got[k] = finalize(p[k])
    BY <1>7, <2>1, <2>2
  <2> QED BY <1>2, <1>5, <1>7, <2>3 DEF Delivered
<1>10. OnTheWay'
  <2>1. Stream(buf_, wire, out, sent) = buf_ \o wire
    <3>1. SubSeq(out, Len(out) + 1, Len(out)) = <<>>
      BY <1>3, CutAll
    <3>2. buf_ \o wire \in Bytes
      BY <1>3, ConcatBytes
    <3>3. (buf_ \o wire) \o <<>> = buf_ \o wire
      BY <3>2, ConcatNothing
    <3> QED BY <1>2, <3>1, <3>3 DEF Stream
  <2>2. Stream(buf_', wire', out', sent') = (buf_ \o wire) \o f
    <3>1. SubSeq(f, 0 + 1, Len(f)) = f
      BY CutAll
    <3> QED BY <1>2, <1>4, <3>1 DEF Stream
  <2>3. Joins(buf_ \o wire, Pending(got, posted))
    BY <1>1, <2>1 DEF OnTheWay
  <2>4. Joins(f, <<f>>)
    BY JoinsOne
  <2>5. Joins((buf_ \o wire) \o f, Pending(got, posted) \o <<f>>)
    BY <2>3, <2>4, JoinsConcat
  <2>6. Pending(got', posted') = Pending(got, posted) \o <<f>>
    <3>1. Len(got) \in Nat
      BY <1>5
    <3> QED BY <1>2, <1>3, <1>4, <3>1, PendingGrows
  <2> QED BY <2>2, <2>5, <2>6 DEF OnTheWay
<1>11. Waiting'
  <2>1. CASE a < b
    <3>1. a + 1 \in 1 .. b
      BY <2>1
    <3>2. First' = First
      BY <1>2, <1>5, <1>7, <3>1 DEF First
    <3> QED BY <1>1, <1>2, <1>5, <2>1, <3>2 DEF Waiting
  <2>2. CASE ~(a < b)
    <3>1. a = b
      BY <1>5, <2>2
    <3>2. Len(buf_) = 0
      BY <1>1, <1>5, <3>1, FramerSees
    <3>3. First' = f
      BY <1>2, <1>4, <1>5, <1>7, <3>1 DEF First
    <3> QED BY <1>2, <1>4, <3>2, <3>3 DEF Waiting
  <2> QED BY <2>1, <2>2
<1> QED BY <1>8, <1>9, <1>10, <1>11 DEF WireInv

\* send moves bytes into the socket; the stream is the same.
LEMMA SendKeeps == ASSUME WireInv, Send PROVE WireInv'
<1>1. WireTypes /\ Delivered /\ OnTheWay /\ Waiting
  BY DEF WireInv
<1>2. PICK r \in 1 .. WireCap - Len(wire) :
         /\ r <= Len(out) - sent /\ wire' = wire \o SubSeq(out, sent + 1, sent + r)
         /\ sent' = sent + r
  BY DEF Send
<1>3. out' = out /\ buf_' = buf_ /\ rpc' = rpc /\ got' = got /\ posted' = posted
  BY DEF Send
<1>4. /\ out \in Bytes /\ wire \in Bytes /\ buf_ \in Bytes /\ sent \in 0 .. Len(out)
  BY <1>1 DEF WireTypes
<1>5. PICK N \in Nat : N = Len(out)
  BY <1>4 DEF Bytes
<1>6. r \in Int /\ r >= 1
  OBVIOUS
<1>7. PICK f \in Nat, e \in Nat : f = sent /\ e = sent + r /\ f <= e /\ e <= N
  <2>1. sent \in Nat /\ sent + r \in Nat /\ sent <= sent + r /\ sent + r <= N
    BY <1>2, <1>4, <1>5, <1>6
  <2> QED BY <2>1
<1>8. PICK c \in Bytes, d \in Bytes : /\ c = SubSeq(out, f + 1, e) /\ d = SubSeq(out, e + 1, Len(out))
                                     /\ c \o d = SubSeq(out, f + 1, Len(out))
  <2>1. e <= Len(out)
    BY <1>5, <1>7
  <2>2. /\ SubSeq(out, f + 1, e) \o SubSeq(out, e + 1, Len(out)) = SubSeq(out, f + 1, Len(out))
        /\ SubSeq(out, f + 1, e) \in Bytes /\ SubSeq(out, e + 1, Len(out)) \in Bytes
    BY <1>4, <1>7, <2>1, CutSplit
  <2> QED BY <2>2
<1>9. WireTypes'
  <2>1. wire' \in Bytes
    BY <1>2, <1>4, <1>7, <1>8, ConcatBytes
  <2>2. sent' \in 0 .. Len(out')
    BY <1>2, <1>3, <1>5, <1>7
  <2> QED BY <1>1, <1>3, <2>1, <2>2 DEF WireTypes
<1>10. Stream(buf_', wire', out', sent') = Stream(buf_, wire, out, sent)
  <2>1. Stream(buf_, wire, out, sent) = buf_ \o (wire \o (c \o d))
    <3>1. \E t \in Bytes : \E s \in Bytes : IsStream(s, t, buf_, wire, out, sent)
      BY <1>4, StreamIs
    <3> QED BY <1>7, <1>8, <3>1 DEF IsStream
  <2>2. Stream(buf_', wire', out', sent') = (buf_ \o (wire \o c)) \o d
    BY <1>2, <1>3, <1>7, <1>8 DEF Stream
  <2>3. wire \o c \in Bytes
    BY <1>4, ConcatBytes
  <2>4. (buf_ \o (wire \o c)) \o d = buf_ \o ((wire \o c) \o d)
    <3>1. PICK x \in Bytes : x = wire \o c
      BY <2>3
    <3>2. buf_ \in Bytes
      BY <1>4
    <3>3. (buf_ \o x) \o d = buf_ \o (x \o d)
      BY <3>2, ConcatAssoc, SMTT(40)
    <3> QED BY <3>1, <3>3
  <2>5. (wire \o c) \o d = wire \o (c \o d)
    BY <1>4, ConcatAssoc, SMTT(40)
  <2> QED BY <2>1, <2>2, <2>4, <2>5
<1>11. OnTheWay'
  BY <1>1, <1>3, <1>10 DEF OnTheWay
<1>12. Delivered' /\ Waiting'
  BY <1>1, <1>3 DEF Delivered, Waiting, First
<1> QED BY <1>9, <1>11, <1>12 DEF WireInv

\* recv moves bytes into the framer; the stream is the same.
LEMMA RecvKeeps == ASSUME WireInv, Recv PROVE WireInv'
<1>1. WireTypes /\ Delivered /\ OnTheWay /\ Waiting
  BY DEF WireInv
<1>2. PICK r \in 1 .. RbufSize :
         /\ r <= Len(wire) /\ buf_' = buf_ \o SubSeq(wire, 1, r)
         /\ wire' = SubSeq(wire, r + 1, Len(wire))
  BY DEF Recv
<1>3. rpc' = "next" /\ out' = out /\ sent' = sent /\ got' = got /\ posted' = posted
  BY DEF Recv
<1>4. out \in Bytes /\ wire \in Bytes /\ buf_ \in Bytes
  BY <1>1 DEF WireTypes
<1>5. PICK N \in Nat : N = Len(wire)
  BY <1>4 DEF Bytes
<1>6. PICK e \in Nat : e = r /\ e <= N /\ 0 <= e
  BY <1>2, <1>5
<1>7. PICK c \in Bytes, d \in Bytes : c = SubSeq(wire, 0 + 1, e) /\ d = SubSeq(wire, e + 1, Len(wire))
                                     /\ c \o d = SubSeq(wire, 0 + 1, Len(wire))
  <2>1. e <= Len(wire)
    BY <1>5, <1>6
  <2>2. /\ SubSeq(wire, 0 + 1, e) \o SubSeq(wire, e + 1, Len(wire)) = SubSeq(wire, 0 + 1, Len(wire))
        /\ SubSeq(wire, 0 + 1, e) \in Bytes /\ SubSeq(wire, e + 1, Len(wire)) \in Bytes
    BY <1>4, <1>6, <2>1, CutSplit
  <2> QED BY <2>2
<1>8. c \o d = wire /\ buf_' = buf_ \o c /\ wire' = d
  <2>1. SubSeq(wire, 0 + 1, Len(wire)) = wire
    BY <1>4, CutAll
  <2>2. 0 + 1 = 1
    OBVIOUS
  <2> QED BY <1>2, <1>6, <1>7, <2>1, <2>2
<1>9. WireTypes'
  <2>1. buf_' \in Bytes
    BY <1>4, <1>8, ConcatBytes
  <2> QED BY <1>1, <1>3, <1>8, <2>1 DEF WireTypes
<1>10. Stream(buf_', wire', out', sent') = Stream(buf_, wire, out, sent)
  <2>1. (buf_ \o c) \o d = buf_ \o (c \o d)
    BY <1>4, ConcatAssoc, SMTT(40)
  <2> QED BY <1>3, <1>8, <2>1 DEF Stream
<1>11. OnTheWay'
  BY <1>1, <1>3, <1>10 DEF OnTheWay
<1>12. Delivered' /\ Waiting'
  BY <1>1, <1>3 DEF Delivered, Waiting
<1> QED BY <1>9, <1>11, <1>12 DEF WireInv

\* The framer returns a message: the next one to come.
LEMMA TakeKeeps == ASSUME WireInv, TakeFrame PROVE WireInv'
<1>1. WireTypes /\ Delivered /\ OnTheWay /\ Waiting
  BY DEF WireInv
<1>2. /\ rpc = "next" /\ frame(buf_) # None /\ got' = Append(got, frame(buf_).msg)
      /\ buf_' = SubSeq(buf_, frame(buf_).size + 1, Len(buf_))
      /\ out' = out /\ sent' = sent /\ wire' = wire /\ rpc' = rpc /\ posted' = posted
  BY DEF TakeFrame
<1>3. /\ out \in Bytes /\ wire \in Bytes /\ buf_ \in Bytes /\ got \in Seq(Bytes)
      /\ posted \in Seq(Messages) /\ Len(got) <= Len(posted) /\ sent \in 0 .. Len(out)
  BY <1>1 DEF WireTypes
<1>4. PICK a \in Nat, b \in Nat : a = Len(got) /\ b = Len(posted) /\ a <= b
  BY <1>3
<1>5. a < b
  <2>1. a # b
    BY <1>1, <1>2, <1>4, FramerSees
  <2> QED BY <1>4, <2>1
<1>6. ~(Len(buf_) < Len(First)) /\ frame(buf_) = [msg |-> First, size |-> Len(First)]
  BY <1>1, <1>2, <1>4, <1>5, FramerSees
<1>7. PICK f \in Bytes : f = First /\ f = finalize(posted[a + 1]) /\ Len(f) \in Nat
  <2>1. posted[a + 1] \in Messages
    BY <1>3, <1>4, <1>5
  <2> QED BY <1>4, <2>1, MessageShape DEF First
<1>8. PICK k \in Nat : k = Len(f) /\ k <= Len(buf_)
  <2>1. Len(buf_) \in Nat
    BY <1>3 DEF Bytes
  <2> QED BY <1>6, <1>7, <2>1
<1>9. got' = Append(got, f) /\ buf_' = SubSeq(buf_, k + 1, Len(buf_))
  BY <1>2, <1>6, <1>7, <1>8
<1>10. PICK g \in Seq(Bytes) : IsAppend(g, got, f)
  BY <1>3, AppendAt
<1>11. got' = g /\ Len(g) = a + 1 /\ g[a + 1] = f /\ \A i \in 1 .. a : g[i] = got[i]
  BY <1>4, <1>9, <1>10 DEF IsAppend
<1>12. WireTypes'
  <2>1. buf_' \in Bytes
    <3>1. Len(buf_) \in Nat /\ Len(buf_) <= Len(buf_)
      BY <1>3 DEF Bytes
    <3>2. PICK u \in Bytes : IsCut(u, buf_, k, Len(buf_))
      BY <1>3, <1>8, <3>1, CutAt DEF Bytes
    <3> QED BY <1>9, <3>2 DEF IsCut
  <2>2. Len(got') <= Len(posted') /\ got' \in Seq(Bytes)
    BY <1>2, <1>4, <1>5, <1>11
  <2> QED BY <1>1, <1>2, <2>1, <2>2 DEF WireTypes
<1>13. Delivered'
  <2>1. \A i \in 1 .. a : got[i] = finalize(posted[i])
    BY <1>1, <1>4 DEF Delivered
  <2>2. \A i \in 1 .. a + 1 : i \in 1 .. a \/ i = a + 1
    OBVIOUS
  <2>3. \A i \in 1 .. a + 1 : g[i] = finalize(posted[i])
    BY <1>7, <1>11, <2>1, <2>2
  <2> QED BY <1>2, <1>11, <2>3 DEF Delivered
<1>14. OnTheWay'
  <2>1. PICK t \in Bytes : \E s \in Bytes : IsStream(s, t, buf_, wire, out, sent)
    BY <1>3, StreamIs
  <2>2. PICK s \in Bytes : s = Stream(buf_, wire, out, sent) /\ s = buf_ \o t
    BY <2>1 DEF IsStream
  <2>3. Stream(buf_', wire', out', sent') = SubSeq(buf_, k + 1, Len(buf_)) \o t
    <3>1. PICK c \in Bytes : c = SubSeq(buf_, k + 1, Len(buf_))
      BY <1>9, <1>12 DEF WireTypes
    <3>2. Stream(c, wire, out, sent) = c \o t
      <4>1. PICK u \in Bytes : \E x \in Bytes : IsStream(x, u, c, wire, out, sent)
        BY <1>3, StreamIs
      <4> QED BY <2>1, <4>1 DEF IsStream
    <3> QED BY <1>2, <1>9, <3>1, <3>2
  <2>4. SubSeq(s, k + 1, Len(s)) = SubSeq(buf_, k + 1, Len(buf_)) \o t
    <3>1. SubSeq(buf_ \o t, k + 1, Len(buf_ \o t)) = SubSeq(buf_, k + 1, Len(buf_)) \o t
      BY <1>3, <1>8, CutConcat
    <3> QED BY <2>2, <3>1
  <2>5. PICK P : P = Pending(got, posted)
    OBVIOUS
  <2>6. P # <<>> /\ P[1] = f /\ Pending(got', posted') = Tail(P)
    <3>1. got \in Seq(Bytes) /\ posted \in Seq(Messages) /\ Len(got) < Len(posted)
      BY <1>3, <1>4, <1>5
    <3>2. /\ Pending(got, posted) # <<>>
          /\ Pending(got, posted)[1] = finalize(posted[Len(got) + 1])
          /\ Pending(Append(got, f), posted) = Tail(Pending(got, posted))
      BY <3>1, PendingShrinks
    <3>3. posted' = posted /\ got' = Append(got, f)
      BY <1>2, <1>9
    <3>4. f = finalize(posted[Len(got) + 1])
      BY <1>4, <1>7
    <3> QED BY <2>5, <3>2, <3>3, <3>4
  <2>7. Joins(s, P)
    BY <1>1, <2>2, <2>5 DEF OnTheWay
  <2>8. Joins(SubSeq(s, Len(P[1]) + 1, Len(s)), Tail(P))
    BY <2>6, <2>7, JoinsFirst
  <2> QED BY <1>8, <2>3, <2>4, <2>6, <2>8 DEF OnTheWay
<1>15. Waiting'
  BY <1>2 DEF Waiting
<1> QED BY <1>12, <1>13, <1>14, <1>15 DEF WireInv

\* The framer returns nothing: the next message is not complete.
LEMMA NoFrameKeeps == ASSUME WireInv, NoFrame PROVE WireInv'
<1>1. WireTypes /\ Delivered /\ OnTheWay /\ Waiting
  BY DEF WireInv
<1>2. /\ frame(buf_) = None /\ rpc' = "recv"
      /\ out' = out /\ sent' = sent /\ wire' = wire /\ buf_' = buf_ /\ got' = got /\ posted' = posted
  BY DEF NoFrame
<1>3. WireTypes' /\ Delivered' /\ OnTheWay'
  BY <1>1, <1>2 DEF WireTypes, Delivered, OnTheWay
<1>4. ASSUME Len(got) < Len(posted) PROVE Len(buf_) < Len(First)
  <2>1. SUFFICES ASSUME ~(Len(buf_) < Len(First)) PROVE FALSE
    OBVIOUS
  <2>2. None = [msg |-> First, size |-> Len(First)]
    BY <1>1, <1>2, <1>4, <2>1, FramerSees
  <2>3. Len(First) = 0
    BY <2>2 DEF None
  <2>4. posted[Len(got) + 1] \in Messages
    BY <1>1, <1>4 DEF WireTypes
  <2>5. Len(First) > 0 /\ Len(First) \in Nat
    BY <2>4, MessageShape DEF First
  <2> QED BY <2>3, <2>5
<1>5. Waiting'
  BY <1>2, <1>4 DEF Waiting, First
<1> QED BY <1>3, <1>5 DEF WireInv
-----------------------------------------------------------------------------
(* The theorems of FixWire                                                 *)

\* Every step of the two ends keeps the invariant.
LEMMA WireStep == WireInv /\ [WireNext]_wireVars => WireInv'
<1> SUFFICES ASSUME WireInv, [WireNext]_wireVars PROVE WireInv'
  OBVIOUS
<1>1. ASSUME NEW m \in Messages, Post(m) PROVE WireInv'
  BY <1>1, PostKeeps
<1>2. CASE Send
  BY <1>2, SendKeeps
<1>3. CASE Recv
  BY <1>3, RecvKeeps
<1>4. CASE TakeFrame
  BY <1>4, TakeKeeps
<1>5. CASE NoFrame
  BY <1>5, NoFrameKeeps
<1>6. CASE UNCHANGED wireVars
  BY <1>6 DEF wireVars, WireInv, WireTypes, Delivered, OnTheWay, Waiting, First
<1> QED BY <1>1, <1>2, <1>3, <1>4, <1>5, <1>6 DEF WireNext, Receiver, Quiet

\* The invariant of the wire holds.
LEMMA WireInvariant == WireSpec => []WireInv
<1>1. WireInit => WireInv
  BY WireStart
<1>2. WireInv /\ [WireNext]_wireVars => WireInv'
  BY WireStep
<1> QED BY <1>1, <1>2, PTL DEF WireSpec

\* FixWire: whatever the messages, and however send_all, the socket buffers
\* and recv cut their bytes, the framer returns them whole and in order, and
\* get reads every field back with the value it was given.
THEOREM FramesAreTheMessages == WireSpec => []FramesAreMessages
<1>1. ASSUME WireInv PROVE FramesAreMessages
  <2>1. got \in Seq(Bytes) /\ posted \in Seq(Messages) /\ Len(got) <= Len(posted)
    BY <1>1 DEF WireInv, WireTypes
  <2>2. DOMAIN got = 1 .. Len(got)
    BY <2>1
  <2>3. ASSUME NEW k \in 1 .. Len(got)
        PROVE  /\ got[k] = finalize(posted[k])
               /\ \A f \in Range(posted[k]) : get(got[k], f[1]) = f[2]
    <3>1. got[k] = finalize(posted[k])
      BY <1>1 DEF WireInv, Delivered
    <3>2. posted[k] \in Messages
      <4>1. k \in 1 .. Len(posted)
        BY <2>1
      <4> QED BY <2>1, <4>1
    <3>3. \A f \in Range(posted[k]) : get(finalize(posted[k]), f[1]) = f[2]
      BY <3>2, MessageRead
    <3> QED BY <3>1, <3>3
  <2> QED BY <2>2, <2>3 DEF FramesAreMessages
<1>2. WireSpec => []WireInv
  BY WireInvariant
<1> QED BY <1>1, <1>2, PTL

\* FixWire: the framer holds nothing back.  When its loop returns to recv the
\* buffer holds less than the next message, and when all bytes were received
\* all messages were handled.
THEOREM NothingIsHeldBack == WireSpec => []NothingHeldBack
<1>1. ASSUME WireInv PROVE NothingHeldBack
  <2>1. SUFFICES ASSUME rpc = "recv"
                 PROVE  /\ Len(got) < Len(posted) =>
                              Len(buf_) < Len(finalize(posted[Len(got) + 1]))
                        /\ sent = Len(out) /\ wire = <<>> => Len(got) = Len(posted)
    BY DEF NothingHeldBack
  <2>2. WireTypes /\ OnTheWay /\ Waiting
    BY <1>1 DEF WireInv
  <2>3. Len(got) < Len(posted) => Len(buf_) < Len(First)
    BY <2>1, <2>2 DEF Waiting
  <2>4. ASSUME sent = Len(out), wire = <<>>, Len(got) # Len(posted) PROVE FALSE
    <3>1. /\ out \in Bytes /\ buf_ \in Bytes /\ got \in Seq(Bytes) /\ posted \in Seq(Messages)
          /\ Len(got) <= Len(posted)
      BY <2>2 DEF WireTypes
    <3>2. Len(got) < Len(posted)
      BY <2>4, <3>1
    <3>3. Stream(buf_, wire, out, sent) = buf_
      <4>1. SubSeq(out, Len(out) + 1, Len(out)) = <<>>
        BY <3>1, CutAll
      <4>2. buf_ \o <<>> = buf_
        BY <3>1, ConcatNothing
      <4> QED BY <2>4, <4>1, <4>2 DEF Stream
    <3>4. PICK P : P = Pending(got, posted)
      OBVIOUS
    <3>5. P # <<>> /\ P[1] = First
      BY <3>1, <3>2, <3>4, PendingShrinks DEF First
    <3>6. Joins(buf_, P)
      BY <2>2, <3>3, <3>4 DEF OnTheWay
    <3>7. P[1] \in Bytes /\ Len(P[1]) <= Len(buf_)
      BY <3>5, <3>6, JoinsFirst
    <3>8. Len(First) \in Nat /\ Len(buf_) \in Nat
      BY <3>1, <3>5, <3>7 DEF Bytes
    <3> QED BY <2>3, <3>2, <3>5, <3>7, <3>8
  <2> QED BY <2>3, <2>4 DEF First
<1>2. WireSpec => []WireInv
  BY WireInvariant
<1> QED BY <1>1, <1>2, PTL
-----------------------------------------------------------------------------
(* The two messages of an order                                            *)

\* The fields of a NewOrderSingle and of an ExecutionReport with these values.
Nos(v) == << <<35, v[1]>>, <<49, v[2]>>, <<56, v[3]>>, <<34, v[4]>>, <<11, v[5]>>,
             <<55, v[6]>>, <<54, v[7]>>, <<38, v[8]>>, <<40, v[9]>>, <<44, v[10]>> >>
Session(v) == << <<35, v[1]>>, <<49, v[2]>>, <<56, v[3]>>, <<34, v[4]>>, <<52, v[5]>> >>
Answer(v) == << <<37, v[1]>>, <<11, v[2]>>, <<17, v[3]>>, <<150, v[4]>>, <<39, v[5]>>,
                <<55, v[6]>>, <<54, v[7]>>, <<38, v[8]>>, <<32, v[9]>>, <<31, v[10]>> >>

\* The fields of a NewOrderSingle, one by one.
LEMMA NosFields ==
    ASSUME NEW v, Values(v, 10), NEW fs, fs = Nos(v)
    PROVE  /\ fs \in Fields /\ Len(fs) = 10 /\ \A j \in 1 .. 10 : fs[j][2] = v[j]
           /\ fs[1][1] = 35 /\ fs[2][1] = 49 /\ fs[3][1] = 56 /\ fs[4][1] = 34
           /\ fs[5][1] = 11 /\ fs[6][1] = 55 /\ fs[7][1] = 54 /\ fs[8][1] = 38
           /\ fs[9][1] = 40 /\ fs[10][1] = 44
<1>1. \A j \in 1 .. 10 : v[j] \in Bytes
  BY DEF Values, Value
<1>2. /\ v[1] \in Bytes /\ v[2] \in Bytes /\ v[3] \in Bytes /\ v[4] \in Bytes
      /\ v[5] \in Bytes /\ v[6] \in Bytes /\ v[7] \in Bytes /\ v[8] \in Bytes
      /\ v[9] \in Bytes /\ v[10] \in Bytes
  BY <1>1
<1>3. PICK F : F = Nat \X Bytes
  OBVIOUS
<1>4. PICK f1, f2, f3, f4, f5, f6, f7, f8, f9, f10 :
        /\ f1 = <<35, v[1]>> /\ f2 = <<49, v[2]>> /\ f3 = <<56, v[3]>>
        /\ f4 = <<34, v[4]>> /\ f5 = <<11, v[5]>> /\ f6 = <<55, v[6]>>
        /\ f7 = <<54, v[7]>> /\ f8 = <<38, v[8]>> /\ f9 = <<40, v[9]>>
        /\ f10 = <<44, v[10]>>
  OBVIOUS
<1>5. /\ f1 \in F /\ f2 \in F /\ f3 \in F /\ f4 \in F /\ f5 \in F /\ f6 \in F
      /\ f7 \in F /\ f8 \in F /\ f9 \in F /\ f10 \in F
  BY <1>2, <1>3, <1>4
<1>6. /\ f1[1] = 35 /\ f1[2] = v[1] /\ f2[1] = 49 /\ f2[2] = v[2]
      /\ f3[1] = 56 /\ f3[2] = v[3] /\ f4[1] = 34 /\ f4[2] = v[4]
      /\ f5[1] = 11 /\ f5[2] = v[5] /\ f6[1] = 55 /\ f6[2] = v[6]
      /\ f7[1] = 54 /\ f7[2] = v[7] /\ f8[1] = 38 /\ f8[2] = v[8]
      /\ f9[1] = 40 /\ f9[2] = v[9] /\ f10[1] = 44 /\ f10[2] = v[10]
  BY <1>4
<1>7. fs = <<f1, f2, f3, f4, f5, f6, f7, f8, f9, f10>>
  BY <1>4 DEF Nos
<1>8. fs \in Seq(F) /\ Len(fs) = 10
  BY <1>5, <1>7
<1>9. /\ fs[1] = f1 /\ fs[2] = f2 /\ fs[3] = f3 /\ fs[4] = f4 /\ fs[5] = f5
      /\ fs[6] = f6 /\ fs[7] = f7 /\ fs[8] = f8 /\ fs[9] = f9 /\ fs[10] = f10
  BY <1>7
<1>10. \A j \in 1 .. 10 : j \in {1, 2, 3, 4, 5, 6, 7, 8, 9, 10}
  OBVIOUS
<1>11. \A j \in 1 .. 10 : fs[j][2] = v[j]
  BY <1>6, <1>9, <1>10
<1> QED BY <1>3, <1>6, <1>8, <1>9, <1>11 DEF Fields

\* Those of the session.
LEMMA SessionList ==
    ASSUME NEW v, Values(v, 5), NEW fs, fs = Session(v)
    PROVE  /\ fs \in Fields /\ Len(fs) = 5 /\ \A j \in 1 .. 5 : fs[j][2] = v[j]
           /\ fs[1][1] = 35 /\ fs[2][1] = 49 /\ fs[3][1] = 56 /\ fs[4][1] = 34
           /\ fs[5][1] = 52
<1>1. \A j \in 1 .. 5 : v[j] \in Bytes
  BY DEF Values, Value
<1>2. /\ v[1] \in Bytes /\ v[2] \in Bytes /\ v[3] \in Bytes /\ v[4] \in Bytes
      /\ v[5] \in Bytes
  BY <1>1
<1>3. PICK F : F = Nat \X Bytes
  OBVIOUS
<1>4. PICK f1, f2, f3, f4, f5 :
        /\ f1 = <<35, v[1]>> /\ f2 = <<49, v[2]>> /\ f3 = <<56, v[3]>>
        /\ f4 = <<34, v[4]>> /\ f5 = <<52, v[5]>>
  OBVIOUS
<1>5. /\ f1 \in F /\ f2 \in F /\ f3 \in F /\ f4 \in F /\ f5 \in F
  BY <1>2, <1>3, <1>4
<1>6. /\ f1[1] = 35 /\ f1[2] = v[1] /\ f2[1] = 49 /\ f2[2] = v[2]
      /\ f3[1] = 56 /\ f3[2] = v[3] /\ f4[1] = 34 /\ f4[2] = v[4]
      /\ f5[1] = 52 /\ f5[2] = v[5]
  BY <1>4
<1>7. fs = <<f1, f2, f3, f4, f5>>
  BY <1>4 DEF Session
<1>8. fs \in Seq(F) /\ Len(fs) = 5
  BY <1>5, <1>7
<1>9. /\ fs[1] = f1 /\ fs[2] = f2 /\ fs[3] = f3 /\ fs[4] = f4 /\ fs[5] = f5
  BY <1>7
<1>10. \A j \in 1 .. 5 : j \in {1, 2, 3, 4, 5}
  OBVIOUS
<1>11. \A j \in 1 .. 5 : fs[j][2] = v[j]
  BY <1>6, <1>9, <1>10
<1> QED BY <1>3, <1>6, <1>8, <1>9, <1>11 DEF Fields

\* Those of the answer.
LEMMA AnswerFields ==
    ASSUME NEW v, Values(v, 10), NEW fs, fs = Answer(v)
    PROVE  /\ fs \in Fields /\ Len(fs) = 10 /\ \A j \in 1 .. 10 : fs[j][2] = v[j]
           /\ fs[1][1] = 37 /\ fs[2][1] = 11 /\ fs[3][1] = 17 /\ fs[4][1] = 150
           /\ fs[5][1] = 39 /\ fs[6][1] = 55 /\ fs[7][1] = 54 /\ fs[8][1] = 38
           /\ fs[9][1] = 32 /\ fs[10][1] = 31
<1>1. \A j \in 1 .. 10 : v[j] \in Bytes
  BY DEF Values, Value
<1>2. /\ v[1] \in Bytes /\ v[2] \in Bytes /\ v[3] \in Bytes /\ v[4] \in Bytes
      /\ v[5] \in Bytes /\ v[6] \in Bytes /\ v[7] \in Bytes /\ v[8] \in Bytes
      /\ v[9] \in Bytes /\ v[10] \in Bytes
  BY <1>1
<1>3. PICK F : F = Nat \X Bytes
  OBVIOUS
<1>4. PICK f1, f2, f3, f4, f5, f6, f7, f8, f9, f10 :
        /\ f1 = <<37, v[1]>> /\ f2 = <<11, v[2]>> /\ f3 = <<17, v[3]>>
        /\ f4 = <<150, v[4]>> /\ f5 = <<39, v[5]>> /\ f6 = <<55, v[6]>>
        /\ f7 = <<54, v[7]>> /\ f8 = <<38, v[8]>> /\ f9 = <<32, v[9]>>
        /\ f10 = <<31, v[10]>>
  OBVIOUS
<1>5. /\ f1 \in F /\ f2 \in F /\ f3 \in F /\ f4 \in F /\ f5 \in F /\ f6 \in F
      /\ f7 \in F /\ f8 \in F /\ f9 \in F /\ f10 \in F
  BY <1>2, <1>3, <1>4
<1>6. /\ f1[1] = 37 /\ f1[2] = v[1] /\ f2[1] = 11 /\ f2[2] = v[2]
      /\ f3[1] = 17 /\ f3[2] = v[3] /\ f4[1] = 150 /\ f4[2] = v[4]
      /\ f5[1] = 39 /\ f5[2] = v[5] /\ f6[1] = 55 /\ f6[2] = v[6]
      /\ f7[1] = 54 /\ f7[2] = v[7] /\ f8[1] = 38 /\ f8[2] = v[8]
      /\ f9[1] = 32 /\ f9[2] = v[9] /\ f10[1] = 31 /\ f10[2] = v[10]
  BY <1>4
<1>7. fs = <<f1, f2, f3, f4, f5, f6, f7, f8, f9, f10>>
  BY <1>4 DEF Answer
<1>8. fs \in Seq(F) /\ Len(fs) = 10
  BY <1>5, <1>7
<1>9. /\ fs[1] = f1 /\ fs[2] = f2 /\ fs[3] = f3 /\ fs[4] = f4 /\ fs[5] = f5
      /\ fs[6] = f6 /\ fs[7] = f7 /\ fs[8] = f8 /\ fs[9] = f9 /\ fs[10] = f10
  BY <1>7
<1>10. \A j \in 1 .. 10 : j \in {1, 2, 3, 4, 5, 6, 7, 8, 9, 10}
  OBVIOUS
<1>11. \A j \in 1 .. 10 : fs[j][2] = v[j]
  BY <1>6, <1>9, <1>10
<1> QED BY <1>3, <1>6, <1>8, <1>9, <1>11 DEF Fields

\* The NewOrderSingle is well made, and its fields are read back.
LEMMA NosWellMade ==
    ASSUME NEW v, Values(v, 10)
    PROVE  /\ WellMade(Nos(v))
           /\ get(finalize(Nos(v)), 11) = v[5] /\ get(finalize(Nos(v)), 55) = v[6]
           /\ get(finalize(Nos(v)), 54) = v[7] /\ get(finalize(Nos(v)), 38) = v[8]
           /\ get(finalize(Nos(v)), 44) = v[10]
<1>1. PICK fs : fs = Nos(v)
  OBVIOUS
<1>4. /\ fs \in Fields /\ Len(fs) = 10 /\ \A j \in 1 .. 10 : fs[j][2] = v[j]
      /\ fs[1][1] = 35 /\ fs[2][1] = 49 /\ fs[3][1] = 56 /\ fs[4][1] = 34 /\ fs[5][1] = 11
      /\ fs[6][1] = 55 /\ fs[7][1] = 54 /\ fs[8][1] = 38 /\ fs[9][1] = 40 /\ fs[10][1] = 44
  BY <1>1, NosFields
<1>5. fs \in Fields /\ Len(fs) = 10 /\ \A j \in 1 .. 10 : fs[j][2] = v[j]
  BY <1>4
<1>6. \A j \in 1 .. 10 : j \in {1, 2, 3, 4, 5, 6, 7, 8, 9, 10}
  OBVIOUS
<1>7. \A j \in 1 .. 10 : fs[j][1] \notin {8, 9, 10}
  BY <1>4, <1>6
<1>8. \A i, j \in 1 .. 10 : fs[i][1] = fs[j][1] => i = j
  BY <1>4, <1>6
<1>9. \A j \in 1 .. 10 : Clean(fs[j][2])
  BY <1>5 DEF Values, Value
<1>10. WellMade(fs)
  BY <1>5, <1>7, <1>8, <1>9 DEF WellMade
<1>11. \A j \in 1 .. Len(fs) : get(finalize(fs), fs[j][1]) = fs[j][2]
  BY <1>10, WellMadeRead
<1>12. \A j \in 1 .. 10 : get(finalize(fs), fs[j][1]) = v[j]
  BY <1>5, <1>11
<1>13. /\ get(finalize(fs), fs[5][1]) = v[5] /\ get(finalize(fs), fs[6][1]) = v[6]
       /\ get(finalize(fs), fs[7][1]) = v[7] /\ get(finalize(fs), fs[8][1]) = v[8]
       /\ get(finalize(fs), fs[10][1]) = v[10]
  BY <1>12
<1> QED BY <1>1, <1>4, <1>10, <1>13

\* So is the ExecutionReport.
LEMMA ReportWellMade ==
    ASSUME NEW u, Values(u, 5), NEW v, Values(v, 10), NEW m, m = finalize(Session(u) \o Answer(v))
    PROVE  /\ WellMade(Session(u) \o Answer(v))
           /\ get(m, 35) = u[1]
           /\ get(m, 11) = v[2] /\ get(m, 55) = v[6] /\ get(m, 54) = v[7]
           /\ get(m, 38) = v[8] /\ get(m, 32) = v[9] /\ get(m, 31) = v[10]
<1>1. PICK s, a : s = Session(u) /\ a = Answer(v)
  OBVIOUS
<1>3. /\ s \in Fields /\ Len(s) = 5 /\ \A j \in 1 .. 5 : s[j][2] = u[j]
      /\ s[1][1] = 35 /\ s[2][1] = 49 /\ s[3][1] = 56 /\ s[4][1] = 34 /\ s[5][1] = 52
  BY <1>1, SessionList
<1>4. /\ a \in Fields /\ Len(a) = 10 /\ \A j \in 1 .. 10 : a[j][2] = v[j]
      /\ a[1][1] = 37 /\ a[2][1] = 11 /\ a[3][1] = 17 /\ a[4][1] = 150 /\ a[5][1] = 39
      /\ a[6][1] = 55 /\ a[7][1] = 54 /\ a[8][1] = 38 /\ a[9][1] = 32 /\ a[10][1] = 31
  BY <1>1, AnswerFields
<1>5. s \in Fields /\ a \in Fields /\ Len(s) = 5 /\ Len(a) = 10
  BY <1>3, <1>4
<1>6. PICK fs \in Fields : IsConcat(fs, s, a)
  BY <1>5, ConcatAt DEF Fields
<1>7. /\ Len(fs) = 15 /\ \A i \in 1 .. 5 : fs[i] = s[i]
      /\ \A i \in 1 .. 10 : fs[5 + i] = a[i]
  <2>1. PICK x \in Nat, y \in Nat : x = 5 /\ y = 10
    OBVIOUS
  <2>2. Len(s) = x /\ Len(a) = y
    BY <1>5, <2>1
  <2>3. /\ Len(fs) = x + y /\ \A i \in 1 .. x : fs[i] = s[i]
        /\ \A i \in 1 .. y : fs[x + i] = a[i]
    BY <1>6, <2>2 DEF IsConcat
  <2>4. x + y = 15
    BY <2>1
  <2> QED BY <2>1, <2>3, <2>4
<1>8. fs[1] = s[1] /\ fs[2] = s[2] /\ fs[3] = s[3] /\ fs[4] = s[4] /\ fs[5] = s[5]
  BY <1>7
<1>9. /\ fs[6] = a[1] /\ fs[7] = a[2] /\ fs[8] = a[3] /\ fs[9] = a[4] /\ fs[10] = a[5]
      /\ fs[11] = a[6] /\ fs[12] = a[7] /\ fs[13] = a[8] /\ fs[14] = a[9] /\ fs[15] = a[10]
  <2>1. /\ fs[5 + 1] = a[1] /\ fs[5 + 2] = a[2] /\ fs[5 + 3] = a[3] /\ fs[5 + 4] = a[4]
        /\ fs[5 + 5] = a[5] /\ fs[5 + 6] = a[6] /\ fs[5 + 7] = a[7] /\ fs[5 + 8] = a[8]
        /\ fs[5 + 9] = a[9] /\ fs[5 + 10] = a[10]
    BY <1>7
  <2> QED BY <2>1
<1>10. /\ fs[1][1] = 35 /\ fs[2][1] = 49 /\ fs[3][1] = 56 /\ fs[4][1] = 34 /\ fs[5][1] = 52
  BY <1>3, <1>8
<1>11. /\ fs[6][1] = 37 /\ fs[7][1] = 11 /\ fs[8][1] = 17 /\ fs[9][1] = 150 /\ fs[10][1] = 39
       /\ fs[11][1] = 55 /\ fs[12][1] = 54 /\ fs[13][1] = 38 /\ fs[14][1] = 32 /\ fs[15][1] = 31
  BY <1>4, <1>9
<1>12. \A j \in 1 .. 15 : j \in {1, 2, 3, 4, 5, 6, 7, 8, 9, 10, 11, 12, 13, 14, 15}
  OBVIOUS
<1>13. \A j \in 1 .. 15 : fs[j][1] \notin {8, 9, 10}
  BY <1>10, <1>11, <1>12
<1>14. \A i, j \in 1 .. 15 : fs[i][1] = fs[j][1] => i = j
  BY <1>10, <1>11, <1>12
<1>15. ASSUME NEW j \in 1 .. 15 PROVE Clean(fs[j][2])
  <2>1. CASE j \in 1 .. 5
    <3>1. fs[j][2] = u[j]
      BY <1>3, <1>7, <2>1
    <3> QED BY <2>1, <3>1 DEF Values, Value
  <2>2. CASE j \notin 1 .. 5
    <3>1. PICK i \in 1 .. 10 : j = 5 + i
      <4>1. j - 5 \in 1 .. 10 /\ j = 5 + (j - 5)
        BY <2>2
      <4> QED BY <4>1
    <3>2. fs[j] = a[i]
      BY <1>7, <3>1
    <3>3. fs[j][2] = v[i]
      BY <1>4, <3>2
    <3> QED BY <3>3 DEF Values, Value
  <2> QED BY <2>1, <2>2
<1>16. WellMade(fs)
  BY <1>7, <1>13, <1>14, <1>15 DEF WellMade
<1>17. \A j \in 1 .. Len(fs) : get(finalize(fs), fs[j][1]) = fs[j][2]
  BY <1>16, WellMadeRead
<1>18. \A j \in 1 .. 15 : get(m, fs[j][1]) = fs[j][2]
  <2>1. m = finalize(fs)
    BY <1>1, <1>6 DEF IsConcat
  <2> QED BY <1>7, <1>17, <2>1
<1>19. /\ get(m, fs[1][1]) = fs[1][2] /\ get(m, fs[7][1]) = fs[7][2] /\ get(m, fs[11][1]) = fs[11][2]
       /\ get(m, fs[12][1]) = fs[12][2] /\ get(m, fs[13][1]) = fs[13][2]
       /\ get(m, fs[14][1]) = fs[14][2] /\ get(m, fs[15][1]) = fs[15][2]
  BY <1>18
<1>20. fs[1][2] = u[1]
  BY <1>3, <1>8
<1>21. /\ fs[7][2] = v[2] /\ fs[11][2] = v[6] /\ fs[12][2] = v[7]
       /\ fs[13][2] = v[8] /\ fs[14][2] = v[9] /\ fs[15][2] = v[10]
  BY <1>4, <1>9
<1>22. WellMade(Session(u) \o Answer(v))
  BY <1>1, <1>6, <1>16 DEF IsConcat
<1> QED BY <1>10, <1>11, <1>19, <1>20, <1>21, <1>22
-----------------------------------------------------------------------------
(* The texts of the code                                                   *)

\* An order as decide makes it.
Priced(o) ==
    /\ o.id \in Nat /\ o.id # 0 /\ o.sym \in 0 .. 5 /\ o.side \in {1, 2}
    /\ o.px \in base_price - 50 .. base_price + 50 /\ o.qty = order_qty
\* A report that names the order.
Carries(m, o) ==
    /\ get(m, 11) = to_chars[o.id] /\ get(m, 55) = kSymbols[o.sym + 1]
    /\ get(m, 54) = to_chars[o.side] /\ get(m, 38) = to_chars[o.qty]
    /\ get(m, 32) = to_chars[o.qty] /\ get(m, 31) = to_chars[o.px]
Composed(m) == \E fs : WellMade(fs) /\ m = finalize(fs)

\* Texts without a separator.
LEMMA Literal == ASSUME NEW s, s \in Seq(2 .. 255), Len(s) >= 1 PROVE Value(s)
<1>1. PICK S : S = 2 .. 255
  OBVIOUS
<1>2. s \in Seq(S)
  BY <1>1
<1>3. \A i \in 1 .. Len(s) : s[i] \in S
  BY <1>2
<1>4. \A x \in S : x \in Nat /\ x # 1
  BY <1>1
<1>5. Clean(s)
  BY <1>3, <1>4 DEF Clean, SOH
<1>6. s \in Bytes
  BY <1>2, <1>4 DEF Bytes
<1>7. s # <<>>
  BY <1>2
<1> QED BY <1>5, <1>6, <1>7 DEF Value

\* The texts of the code.
LEMMA Literals ==
    /\ Value(<<68>>) /\ Value(<<50>>) /\ Value(<<56>>)
    /\ Value(TRADER) /\ Value(EXCHANGE) /\ Value(Timestamp)
<1>1. PICK a, b, c : a = <<68>> /\ b = <<50>> /\ c = <<56>>
  OBVIOUS
<1>2. a \in Seq(2 .. 255) /\ b \in Seq(2 .. 255) /\ c \in Seq(2 .. 255)
  BY <1>1
<1>3. Len(a) >= 1 /\ Len(b) >= 1 /\ Len(c) >= 1
  BY <1>1
<1>4. Value(a) /\ Value(b) /\ Value(c)
  BY <1>2, <1>3, Literal
<1>5. TRADER \in Seq(2 .. 255) /\ Len(TRADER) >= 1
  BY DEF TRADER
<1>6. EXCHANGE \in Seq(2 .. 255) /\ Len(EXCHANGE) >= 1
  BY DEF EXCHANGE
<1>7. Timestamp \in Seq(2 .. 255) /\ Len(Timestamp) >= 1
  BY DEF Timestamp
<1>8. Value(TRADER) /\ Value(EXCHANGE) /\ Value(Timestamp)
  BY <1>5, <1>6, <1>7, Literal
<1> QED BY <1>1, <1>4, <1>8

\* Numbers.
LEMMA NumberText == ASSUME NEW n \in Nat PROVE Value(to_chars[n])
<1>1. PICK s : s = to_chars[n]
  OBVIOUS
<1>2. s \in Text /\ Len(s) >= 1
  BY <1>1, ToCharsType
<1>3. s # <<>>
  BY <1>2
<1> QED BY <1>1, <1>2, <1>3, CleanText, TextBytes DEF Value

\* The symbols.
LEMMA SymbolText == \A k \in 0 .. 5 : Value(kSymbols[k + 1])
<1>1. PICK a, b, c, d, e, f :
        /\ a = <<78, 73, 70, 84, 89>> /\ b = <<66, 65, 78, 75, 78, 73, 70, 84, 89>>
        /\ c = <<82, 69, 76, 73, 65, 78, 67, 69>> /\ d = <<84, 67, 83>>
        /\ e = <<73, 78, 70, 89>> /\ f = <<72, 68, 70, 67, 66, 65, 78, 75>>
  OBVIOUS
<1>2. a \in Seq(2 .. 255) /\ Len(a) >= 1
  BY <1>1
<1>3. b \in Seq(2 .. 255) /\ Len(b) >= 1
  BY <1>1
<1>4. c \in Seq(2 .. 255) /\ Len(c) >= 1
  BY <1>1
<1>5. d \in Seq(2 .. 255) /\ Len(d) >= 1
  BY <1>1
<1>6. e \in Seq(2 .. 255) /\ Len(e) >= 1
  BY <1>1
<1>7. f \in Seq(2 .. 255) /\ Len(f) >= 1
  BY <1>1
<1>8. Value(a) /\ Value(b) /\ Value(c) /\ Value(d) /\ Value(e) /\ Value(f)
  BY <1>2, <1>3, <1>4, <1>5, <1>6, <1>7, Literal
<1>9. PICK t : t = kSymbols
  OBVIOUS
<1>10. t = <<a, b, c, d, e, f>>
  BY <1>1, <1>9 DEF kSymbols
<1>11. t[1] = a /\ t[2] = b /\ t[3] = c /\ t[4] = d /\ t[5] = e /\ t[6] = f
  BY <1>10
<1>12. ASSUME NEW k \in 0 .. 5 PROVE k + 1 \in {1, 2, 3, 4, 5, 6}
  OBVIOUS
<1> QED BY <1>8, <1>9, <1>11, <1>12

\* There are six.
LEMMA SixSymbols == kNumSymbols = 6
BY DEF kNumSymbols, kSymbols

\* The NewOrderSingle of an order names it.
LEMMA NosNames ==
    ASSUME NEW o, Priced(o)
    PROVE  /\ Composed(encode_nos(o))
           /\ get(encode_nos(o), 11) = to_chars[o.id]
           /\ get(encode_nos(o), 55) = kSymbols[o.sym + 1]
           /\ get(encode_nos(o), 54) = to_chars[o.side]
           /\ get(encode_nos(o), 38) = to_chars[o.qty]
           /\ get(encode_nos(o), 44) = to_chars[o.px]
<1>1. o.id \in Nat /\ o.sym \in 0 .. 5 /\ o.side \in Nat /\ o.qty \in Nat /\ o.px \in Nat
  BY DEF Priced, base_price, order_qty
<1>2. PICK w1, w2, w3, w4, w6, w7, w8, w9, w10 :
        /\ w1 = <<68>> /\ w2 = TRADER /\ w3 = EXCHANGE /\ w4 = to_chars[o.id]
        /\ w6 = kSymbols[o.sym + 1] /\ w7 = to_chars[o.side]
        /\ w8 = to_chars[o.qty] /\ w9 = <<50>> /\ w10 = to_chars[o.px]
  OBVIOUS
<1>3. /\ Value(w1) /\ Value(w2) /\ Value(w3) /\ Value(w4) /\ Value(w6) /\ Value(w7)
      /\ Value(w8) /\ Value(w9) /\ Value(w10)
  BY <1>1, <1>2, Literals, NumberText, SymbolText
<1>4. PICK v : v = <<w1, w2, w3, w4, w4, w6, w7, w8, w9, w10>>
  OBVIOUS
<1>5. /\ v[1] = w1 /\ v[2] = w2 /\ v[3] = w3 /\ v[4] = w4 /\ v[5] = w4
      /\ v[6] = w6 /\ v[7] = w7 /\ v[8] = w8 /\ v[9] = w9 /\ v[10] = w10
  BY <1>4
<1>6. \A j \in 1 .. 10 : j \in {1, 2, 3, 4, 5, 6, 7, 8, 9, 10}
  OBVIOUS
<1>7. Values(v, 10)
  BY <1>3, <1>5, <1>6 DEF Values
<1>8. PICK m : m = encode_nos(o)
  OBVIOUS
<1>9. m = finalize(Nos(v))
  BY <1>2, <1>5, <1>8 DEF encode_nos, Nos
<1>10. /\ WellMade(Nos(v)) /\ get(m, 11) = v[5] /\ get(m, 55) = v[6] /\ get(m, 54) = v[7]
       /\ get(m, 38) = v[8] /\ get(m, 44) = v[10]
  BY <1>7, <1>9, NosWellMade
<1>11. Composed(m)
  BY <1>9, <1>10 DEF Composed
<1> QED BY <1>2, <1>5, <1>8, <1>10, <1>11
-----------------------------------------------------------------------------
(* The steps of OrderEncoding                                              *)

\* What holds of the order, its two texts and what the gateway read.
EncodingInv ==
    /\ seq \in Nat /\ clordid = seq + 1 /\ exSeq \in Nat
    /\ stage \in {"tick", "exchange", "fill"}
    /\ order = NoOrder \/ Priced(order)
    /\ nos = <<>> \/ Composed(nos)
    /\ report = <<>> \/ Composed(report)
    /\ stage # "tick" => Priced(order)
    /\ stage = "exchange" => nos = encode_nos(order)
    /\ stage = "fill" => Carries(report, order)
    /\ stage = "tick" /\ filled # 0 =>
          Priced(order) /\ filled = order.id /\ Carries(report, order)

\* Decide makes an order with a price within the band, and its text.
LEMMA DecideKeeps ==
    ASSUME EncodingInv, Decide
    PROVE  EncodingInv'
<1>1. seq \in Nat /\ clordid = seq + 1
  BY DEF EncodingInv
<1>2. PICK k \in 0 .. 5 : k = seq % kNumSymbols
  BY <1>1, SixSymbols
<1>3. PICK r \in 0 .. 19 : r = seq % 20
  BY <1>1
<1>4. PICK p \in 9950 .. 10050 : p = base_price + (r - 10) * 5
  BY DEF base_price
<1>5. ((p - 5) + (p + 5)) \div 2 = p
  OBVIOUS
<1>6. order' = [id |-> clordid, sym |-> k, side |-> IF clordid % 2 = 1 THEN 1 ELSE 2,
                px |-> p, qty |-> order_qty]
  <2>1. PICK b \in Int, a \in Int : b = p - 5 /\ a = p + 5
    OBVIOUS
  <2>2. (b + a) \div 2 = p
    BY <1>5, <2>1
  <2>3. order' = decide([sym |-> k, bid |-> b, ask |-> a], clordid)
    BY <1>2, <1>3, <1>4, <2>1 DEF Decide
  <2> QED BY <2>2, <2>3 DEF decide
<1>7. Priced(order')
  <2>1. /\ order'.id = clordid /\ order'.sym = k /\ order'.px = p /\ order'.qty = order_qty
        /\ order'.side = IF clordid % 2 = 1 THEN 1 ELSE 2
    BY <1>6
  <2>2. clordid \in Nat /\ clordid # 0
    BY <1>1
  <2>3. order'.side \in {1, 2}
    BY <2>1
  <2>4. p \in base_price - 50 .. base_price + 50
    BY DEF base_price
  <2> QED BY <2>1, <2>2, <2>3, <2>4 DEF Priced
<1>8. nos' = encode_nos(order') /\ Composed(nos')
  <2>1. nos' = encode_nos(order')
    BY DEF Decide
  <2> QED BY <1>7, <2>1, NosNames
<1>9. seq' \in Nat /\ clordid' = seq' + 1 /\ exSeq' \in Nat /\ stage' = "exchange" /\ report' = report
  BY <1>1 DEF EncodingInv, Decide
<1>10. report' = <<>> \/ Composed(report')
  BY <1>9 DEF EncodingInv
<1> QED BY <1>7, <1>8, <1>9, <1>10 DEF EncodingInv

\* A text that is there is not replaced.
LEMMA OrText == ASSUME NEW s, Value(s), NEW d PROVE Or(s, d) = s
BY DEF Or, Value

\* The exchange's report is the order's.
LEMMA FillCarries ==
    ASSUME EncodingInv, Fill
    PROVE  Composed(report') /\ Carries(report', order)
<1>1. PICK o : o = order
  OBVIOUS
<1>2. Priced(o) /\ nos = encode_nos(o) /\ exSeq \in Nat /\ exSeq' \in Nat
  BY <1>1 DEF EncodingInv, Fill
<1>3. o.id \in Nat /\ o.sym \in 0 .. 5 /\ o.side \in Nat /\ o.qty \in Nat /\ o.px \in Nat
  BY <1>2 DEF Priced, base_price, order_qty
<1>4. PICK i, y, e, q, p :
        /\ i = to_chars[o.id] /\ y = kSymbols[o.sym + 1] /\ e = to_chars[o.side]
        /\ q = to_chars[o.qty] /\ p = to_chars[o.px]
  OBVIOUS
<1>5. Value(i) /\ Value(y) /\ Value(e) /\ Value(q) /\ Value(p)
  BY <1>3, <1>4, NumberText, SymbolText
<1>6. /\ get(nos, 11) = i /\ get(nos, 55) = y /\ get(nos, 54) = e /\ get(nos, 38) = q
      /\ get(nos, 44) = p
  BY <1>2, <1>4, NosNames
<1>7. PICK s1, s2, s3, s4, s5, x, z :
        /\ s1 = <<56>> /\ s2 = EXCHANGE /\ s3 = TRADER /\ s4 = to_chars[exSeq] /\ s5 = Timestamp
        /\ x = to_chars[exSeq'] /\ z = <<50>>
  OBVIOUS
<1>8. Value(s1) /\ Value(s2) /\ Value(s3) /\ Value(s4) /\ Value(s5) /\ Value(x) /\ Value(z)
  BY <1>2, <1>7, Literals, NumberText
<1>9. PICK u, v : u = <<s1, s2, s3, s4, s5>> /\ v = <<x, i, x, z, z, y, e, q, q, p>>
  OBVIOUS
<1>10. u[1] = s1 /\ u[2] = s2 /\ u[3] = s3 /\ u[4] = s4 /\ u[5] = s5
  BY <1>9
<1>11. /\ v[1] = x /\ v[2] = i /\ v[3] = x /\ v[4] = z /\ v[5] = z
       /\ v[6] = y /\ v[7] = e /\ v[8] = q /\ v[9] = q /\ v[10] = p
  BY <1>9
<1>12. Values(u, 5)
  <2>1. \A j \in 1 .. 5 : j \in {1, 2, 3, 4, 5}
    OBVIOUS
  <2> QED BY <1>8, <1>10, <2>1 DEF Values
<1>13. Values(v, 10)
  <2>1. \A j \in 1 .. 10 : j \in {1, 2, 3, 4, 5, 6, 7, 8, 9, 10}
    OBVIOUS
  <2> QED BY <1>5, <1>8, <1>11, <2>1 DEF Values
<1>14. SessionFields(<<56>>) = Session(u)
  BY <1>7, <1>10 DEF SessionFields, Session
<1>15. /\ Or(get(nos, 55), kSymbols[1]) = y /\ Or(get(nos, 54), <<49>>) = e
       /\ Or(get(nos, 38), <<49>>) = q /\ Or(get(nos, 44), <<48>>) = p
  BY <1>5, <1>6, OrText
<1>16. report' = finalize(Session(u) \o << <<37, x>>, <<11, i>>, <<17, x>>, <<150, z>>, <<39, z>>,
                                           <<55, y>>, <<54, e>>, <<38, q>>, <<32, q>>, <<31, p>> >>)
  BY <1>6, <1>7, <1>14, <1>15 DEF Fill
<1>17. report' = finalize(Session(u) \o Answer(v))
  BY <1>11, <1>16 DEF Answer
<1>18. /\ WellMade(Session(u) \o Answer(v))
       /\ get(report', 11) = v[2] /\ get(report', 55) = v[6] /\ get(report', 54) = v[7]
       /\ get(report', 38) = v[8] /\ get(report', 32) = v[9] /\ get(report', 31) = v[10]
  BY <1>12, <1>13, <1>17, ReportWellMade
<1>19. Composed(report')
  BY <1>17, <1>18 DEF Composed
<1>20. Carries(report', o)
  BY <1>4, <1>11, <1>18 DEF Carries
<1> QED BY <1>1, <1>19, <1>20

\* Fill.
LEMMA FillKeeps ==
    ASSUME EncodingInv, Fill
    PROVE  EncodingInv'
<1>1. Composed(report') /\ Carries(report', order)
  BY FillCarries
<1>2. order' = order /\ nos' = nos /\ seq' = seq /\ clordid' = clordid /\ stage' = "fill"
  BY DEF Fill
<1>3. exSeq' \in Nat
  BY DEF EncodingInv, Fill
<1>4. stage = "exchange" /\ Priced(order)
  BY DEF EncodingInv, Fill
<1> QED BY <1>1, <1>2, <1>3, <1>4 DEF EncodingInv

\* Match reads the order's id.
LEMMA MatchKeeps ==
    ASSUME EncodingInv, Match
    PROVE  EncodingInv'
<1>1. Priced(order) /\ Carries(report, order)
  BY DEF EncodingInv, Match
<1>2. order.id \in Nat /\ get(report, 11) = to_chars[order.id]
  BY <1>1 DEF Priced, Carries
<1>3. filled' = order.id
  <2>1. from_chars(to_chars[order.id], 0) = order.id
    BY <1>2, CharsRoundTrip
  <2> QED BY <1>2, <2>1 DEF Match, get_int
<1>4. /\ order' = order /\ nos' = nos /\ report' = report /\ seq' = seq /\ clordid' = clordid
      /\ exSeq' = exSeq /\ stage' = "tick"
  BY DEF Match
<1> QED BY <1>1, <1>3, <1>4 DEF EncodingInv

\* The invariant.
LEMMA EncodingInvariant == Spec => []EncodingInv
<1>1. Init => EncodingInv
  BY EncodingAssumption DEF Init, EncodingInv
<1>2. EncodingInv /\ [Next]_vars => EncodingInv'
  <2>1. ASSUME EncodingInv, UNCHANGED vars PROVE EncodingInv'
    BY <2>1 DEF EncodingInv, vars
  <2> QED BY <2>1, DecideKeeps, FillKeeps, MatchKeeps DEF Next, Over
<1> QED BY <1>1, <1>2, PTL DEF Spec

\* OrderEncoding: whatever the id, the symbol, the side and the price, what
\* encode_nos wrote, the exchange copied into its ExecutionReport and the
\* gateway read is the order that decide made, at the tick's mid. The theorem
\* is about the texts; of the code it is true while they fit (OrderFits).
THEOREM OrderIsUnchanged == Spec => []OrderSurvives
<1>1. ASSUME EncodingInv PROVE OrderSurvives
  <2>1. ASSUME order # NoOrder PROVE order.px \in base_price - 50 .. base_price + 50
    BY <1>1, <2>1 DEF EncodingInv, Priced
  <2>2. ASSUME stage = "tick", filled # 0
        PROVE  /\ filled = order.id
               /\ get(report, 55) = kSymbols[order.sym + 1]
               /\ get_int(report, 54) = order.side
               /\ get_int(report, 38) = order.qty /\ get_int(report, 32) = order.qty
               /\ get_int(report, 31) = order.px
    <3>1. Priced(order) /\ filled = order.id /\ Carries(report, order)
      BY <1>1, <2>2 DEF EncodingInv
    <3>2. order.side \in Nat /\ order.qty \in Nat /\ order.px \in Nat
      BY <3>1 DEF Priced, base_price, order_qty
    <3>3. /\ from_chars(to_chars[order.side], 0) = order.side
          /\ from_chars(to_chars[order.qty], 0) = order.qty
          /\ from_chars(to_chars[order.px], 0) = order.px
      BY <3>2, CharsRoundTrip
    <3> QED BY <3>1, <3>3 DEF Carries, get_int
  <2> QED BY <2>1, <2>2 DEF OrderSurvives
<1> QED BY <1>1, EncodingInvariant, PTL

\* OrderEncoding: the NewOrderSingle and the ExecutionReport are well formed
\* for every order and every sequence number: the framer takes each as one
\* message, and BodyLength and CheckSum are those of its bytes.
THEOREM MessagesAreWellFormed == Spec => []WellFormed
<1>1. ASSUME EncodingInv PROVE WellFormed
  <2>1. \A m : Composed(m) => Accepted(m)
    BY WellMadeAccepted DEF Composed
  <2>2. \A m \in {nos, report} \ {<<>>} : Accepted(m)
    BY <1>1, <2>1 DEF EncodingInv
  <2> QED BY <2>2 DEF WellFormed, Accepted
<1> QED BY <1>1, EncodingInvariant, PTL
=============================================================================

------------------------ MODULE MetricsServer_proofs -------------------------
(***************************************************************************)
(* The session of the engine with the exchange, and the unit around it:    *)
(* whatever is killed, stopped, started or probed, do_logon discards       *)
(* nothing, an engine that trades is the client being served, and the      *)
(* metrics thread lives exactly as long as the pipeline.                   *)
(***************************************************************************)
EXTENDS MetricsServer, TLAPS
-----------------------------------------------------------------------------
(* The line of connections                                                 *)

\* The engine's open connections in a line
MineIn(l) == {i \in DOMAIN l : l[i].who = "engine" /\ l[i].open}
NewConnection(w) == [who |-> w, msgs |-> <<>>, open |-> TRUE]

\* A process that ends has no open connection left.
LEMMA LineClosed ==
    ASSUME NEW l \in Seq(Connection)
    PROVE  Closed(l) \in Seq(Connection) /\ Len(Closed(l)) = Len(l) /\ MineIn(Closed(l)) = {}
<1>1. Len(l) \in Nat /\ DOMAIN l = 1..Len(l) /\ \A i \in 1..Len(l) : l[i] \in Connection
  OBVIOUS
<1> DEFINE C(i) == IF l[i].who = "engine" THEN [l[i] EXCEPT !.open = FALSE] ELSE l[i]
<1>2. Closed(l) = [i \in 1..Len(l) |-> C(i)]
  BY <1>1 DEF Closed
<1>3. \A i \in 1..Len(l) : C(i) \in Connection
  BY <1>1 DEF Connection
<1>4. \A i \in 1..Len(l) : C(i).who = "engine" => C(i).open = FALSE
  BY <1>1 DEF Connection
<1> HIDE DEF C
<1>5. Closed(l) \in Seq(Connection) /\ Len(Closed(l)) = Len(l)
  BY <1>1, <1>2, <1>3
<1>6. MineIn(Closed(l)) = {}
  BY <1>1, <1>2, <1>4 DEF MineIn
<1> QED BY <1>5, <1>6

\* A new client comes last.
LEMMA LineJoined ==
    ASSUME NEW l \in Seq(Connection), NEW w \in {"engine", "probe"}
    PROVE  LET m == Append(l, NewConnection(w))
           IN  /\ m \in Seq(Connection) /\ Len(m) = Len(l) + 1
               /\ w = "probe" => MineIn(m) = MineIn(l)
               /\ w = "engine" => MineIn(m) = MineIn(l) \cup {Len(l) + 1}
               /\ \A i \in 1..Len(l) : m[i] = l[i]
               /\ m[Len(l) + 1].msgs = <<>>
<1> DEFINE e == NewConnection(w)
           m == Append(l, e)
<1>1. Len(l) \in Nat /\ DOMAIN l = 1..Len(l)
  OBVIOUS
<1>2. e \in Connection /\ e.who = w /\ e.open = TRUE /\ e.msgs = <<>>
  BY DEF NewConnection, Connection
<1> HIDE DEF e
<1>3. /\ m \in Seq(Connection) /\ Len(m) = Len(l) + 1 /\ DOMAIN m = 1..Len(l) + 1
      /\ \A i \in 1..Len(l) : m[i] = l[i]
      /\ m[Len(l) + 1] = e
  BY <1>1, <1>2
<1>4. w = "probe" => MineIn(m) = MineIn(l)
  BY <1>1, <1>2, <1>3 DEF MineIn
<1>5. w = "engine" => MineIn(m) = MineIn(l) \cup {Len(l) + 1}
  BY <1>1, <1>2, <1>3 DEF MineIn
<1> QED BY <1>2, <1>3, <1>4, <1>5 DEF e

\* The client that was served leaves, and the others move up.
LEMMA LineLeft ==
    ASSUME NEW l \in Seq(Connection), l # <<>>
    PROVE  /\ Tail(l) \in Seq(Connection) /\ Len(Tail(l)) = Len(l) - 1
           /\ \A i \in MineIn(Tail(l)) : i + 1 \in MineIn(l) /\ i \in Nat /\ i >= 1 /\ Tail(l)[i] = l[i + 1]
<1>1. Len(l) \in Nat /\ DOMAIN l = 1..Len(l)
  OBVIOUS
<1>2. Tail(l) \in Seq(Connection) /\ Len(Tail(l)) = Len(l) - 1 /\ DOMAIN Tail(l) = 1..Len(l) - 1
  BY <1>1
<1>3. \A i \in 1..Len(l) - 1 : Tail(l)[i] = l[i + 1] /\ i + 1 \in 1..Len(l)
  BY <1>1
<1> QED BY <1>1, <1>2, <1>3 DEF MineIn

\* One connection of the line changes, in a way that leaves it whose it was.
LEMMA LineChanged ==
    ASSUME NEW l \in Seq(Connection), NEW k \in DOMAIN l, NEW e \in Connection,
           e.who = l[k].who, e.who = "engine" => (e.open = l[k].open)
    PROVE  LET m == [l EXCEPT ![k] = e]
           IN  /\ m \in Seq(Connection) /\ Len(m) = Len(l) /\ MineIn(m) = MineIn(l)
               /\ \A i \in DOMAIN l : i # k => m[i] = l[i]
               /\ m[k] = e
<1> DEFINE m == [l EXCEPT ![k] = e]
<1>1. Len(l) \in Nat /\ DOMAIN l = 1..Len(l)
  OBVIOUS
<1>2. m \in Seq(Connection) /\ Len(m) = Len(l) /\ DOMAIN m = DOMAIN l
  BY <1>1
<1>3. m[k] = e /\ \A i \in DOMAIN l : i # k => m[i] = l[i]
  OBVIOUS
<1> HIDE DEF m
<1>4. MineIn(m) = MineIn(l)
  BY <1>2, <1>3 DEF MineIn
<1> QED BY <1>2, <1>3, <1>4 DEF m

\* The engine sends on its connection, if it has one.
LEMMA LineSent ==
    ASSUME line \in Seq(Connection), NEW x \in {"logon", "order"}, Send(x)
    PROVE  /\ line' \in Seq(Connection) /\ Len(line') = Len(line) /\ Mine' = Mine
           /\ \A i \in Mine : line'[i].msgs = Append(line[i].msgs, x)
<1>1. Len(line) \in Nat /\ DOMAIN line = 1..Len(line)
  OBVIOUS
<1> DEFINE S(i) == [line[i] EXCEPT !.msgs = Append(@, x)]
<1>2. \A i \in 1..Len(line) : /\ S(i) \in Connection /\ S(i).who = line[i].who
                              /\ S(i).open = line[i].open /\ S(i).msgs = Append(line[i].msgs, x)
  <2> TAKE i \in 1..Len(line)
  <2>1. PICK c \in Connection : c = line[i]
    BY <1>1
  <2>2. c.msgs \in Seq({"logon", "order"})
    BY DEF Connection
  <2>3. Append(c.msgs, x) \in Seq({"logon", "order"})
    BY <2>2
  <2>4. PICK n : n = Append(c.msgs, x) /\ n \in Seq({"logon", "order"})
    BY <2>3
  <2>5. S(i) = [c EXCEPT !.msgs = n]
    BY <2>1, <2>4
  <2> QED BY <2>1, <2>4, <2>5 DEF Connection
<1>3. line' = [i \in 1..Len(line) |-> IF i \in Mine THEN S(i) ELSE line[i]]
  BY <1>1 DEF Send
<1> HIDE DEF S
<1>4. line' \in Seq(Connection) /\ Len(line') = Len(line) /\ DOMAIN line' = 1..Len(line)
  BY <1>1, <1>2, <1>3
<1>5. \A i \in 1..Len(line) : line'[i].who = line[i].who /\ line'[i].open = line[i].open
  BY <1>2, <1>3
<1>6. Mine' = Mine
  BY <1>1, <1>4, <1>5 DEF Mine
<1>7. \A i \in Mine : line'[i].msgs = Append(line[i].msgs, x)
  BY <1>1, <1>2, <1>3 DEF Mine
<1> QED BY <1>4, <1>6, <1>7
-----------------------------------------------------------------------------
(* The session                                                             *)

\* What the engine has sent and not yet seen answered, at each stage of its
\* main: nothing before the logon; then the logon or its answer, the answer
\* only from a handler that serves the engine; then orders and fills only.
\* The exchange stops only after the engine.
SessionInv ==
    /\ TypeOK
    /\ \A i, j \in Mine : i = j
    /\ ~exRun => en = "stopped"
    /\ en \in {"down", "connect", "stopped"} => Mine = {} /\ inbox = <<>>
    /\ en = "hello" => inbox = <<>> /\ \A i \in Mine : line[i].msgs = <<>>
    /\ en \in {"test", "recv"} =>
          \/ inbox = <<>> /\ \A i \in Mine : line[i].msgs = <<"logon">>
          \/ inbox = <<"ack">> /\ \A i \in Mine : i = 1 /\ Serving /\ line[i].msgs = <<>>
    /\ en \in {"trade", "deaf"} =>
          /\ inbox \in Seq({"fill"})
          /\ \A i \in Mine : i = 1 /\ Serving /\ line[i].msgs \in Seq({"order"})
    /\ leftover = <<>>

\* Nothing has started.
LEMMA SessionStart == Init => SessionInv
<1> SUFFICES ASSUME Init PROVE SessionInv
  OBVIOUS
<1>1. TypeOK
  BY SessionAssumption DEF Init, TypeOK, Serving
<1>2. Mine = {}
  BY DEF Init, Mine
<1> QED BY <1>1, <1>2 DEF Init, SessionInv

\* The end of the engine's process: whatever it had is gone.
LEMMA EngineEnds ==
    ASSUME SessionInv, EnEnd, en # "stopped",
           UNCHANGED <<enWanted, leftover, exVars>>, enKills' \in 0..MaxKills,
           UNCHANGED <<exKills, stops, probes>>
    PROVE  SessionInv'
<1>1. line \in Seq(Connection) /\ Len(line) <= Backlog + 1 /\ (Serving => line # <<>>)
  BY DEF SessionInv, TypeOK
<1>2. line' \in Seq(Connection) /\ Len(line') = Len(line) /\ Mine' = {}
  BY <1>1, LineClosed DEF EnEnd, Mine, MineIn
<1>3. line # <<>> => line' # <<>>
  BY <1>1, <1>2
<1>4. /\ en' \in {"down", "stopped"} /\ enRun' = TRUE /\ inbox' = <<>> /\ leftover' = <<>>
      /\ ex' = ex /\ exRun' = exRun /\ exRun
  BY DEF EnEnd, exVars, SessionInv
<1>5. TypeOK'
  BY <1>1, <1>2, <1>3, <1>4 DEF SessionInv, TypeOK, Serving
<1> QED BY <1>2, <1>4, <1>5 DEF SessionInv

\* The steps that leave the line as it is.
LEMMA StepsBesideTheLine ==
    ASSUME SessionInv, \/ EnStart \/ ExRestart \/ ExStart \/ EnStop \/ UnitStart \/ EnTest
                       \/ EnDeaf \/ ExListen \/ ExAccept \/ UNCHANGED vars
    PROVE  SessionInv'
<1> USE DEF enVars, exVars, bounds
<1>0. line' = line /\ inbox' = inbox /\ leftover' = leftover
  BY DEF EnStart, ExRestart, ExStart, EnStop, UnitStart, EnTest, EnDeaf, ExListen, ExAccept, vars
<1>1. Mine' = Mine
  BY <1>0 DEF Mine
<1>2. CASE EnStart
  <2>1. en = "down" /\ en' = "connect" /\ UNCHANGED <<enWanted, enRun, ex, exRun, enKills, exKills, stops, probes>>
    BY <1>2 DEF EnStart
  <2> QED BY <1>0, <1>1, <2>1 DEF SessionInv, TypeOK, Serving
<1>3. CASE ExStart \/ ExListen
  <2>1. /\ ex' \in {"listen", "accept"}
        /\ UNCHANGED <<en, enWanted, enRun, exRun, enKills, exKills, stops, probes>>
        /\ ex \notin {"test", "recv"}
    BY <1>3 DEF ExStart, ExListen
  <2> QED BY <1>0, <1>1, <2>1 DEF SessionInv, TypeOK, Serving
<1>4. CASE EnStop
  <2>1. /\ enWanted' = FALSE /\ enRun' \in BOOLEAN /\ en' = (IF EnUp THEN en ELSE "stopped")
        /\ stops < MaxStops /\ stops' = stops + 1
        /\ UNCHANGED <<ex, exRun, enKills, exKills, probes>>
    BY <1>4 DEF EnStop
  <2>2. stops' \in 0..MaxStops
    BY <2>1, SessionAssumption DEF SessionInv, TypeOK
  <2>3. en' = en \/ (en \in {"down", "stopped"} /\ en' = "stopped")
    BY <2>1 DEF EnUp
  <2>4. TypeOK'
    BY <1>0, <2>1, <2>2, <2>3 DEF SessionInv, TypeOK, Serving
  <2> QED BY <1>0, <1>1, <2>1, <2>3, <2>4 DEF SessionInv, Serving
<1>5. CASE UnitStart
  <2>1. /\ en = "stopped" /\ en' = "down" /\ enWanted' = TRUE /\ enRun' = enRun /\ exRun' = TRUE
        /\ exRun \/ ex = "stopped"
        /\ ex' = (IF exRun THEN ex ELSE "down")
        /\ UNCHANGED <<enKills, exKills, stops, probes>>
    BY <1>5 DEF UnitStart
  <2>2. ex' = ex \/ ex' = "down"
    BY <2>1
  <2> QED BY <1>0, <1>1, <2>1, <2>2 DEF SessionInv, TypeOK, Serving
<1>6. CASE EnTest
  <2>1. en = "test" /\ en' = "recv" /\ UNCHANGED <<enWanted, enRun, ex, exRun, enKills, exKills, stops, probes>>
    BY <1>6 DEF EnTest
  <2> QED BY <1>0, <1>1, <2>1 DEF SessionInv, TypeOK, Serving
<1>7. CASE EnDeaf
  <2>1. en = "trade" /\ en' = "deaf" /\ UNCHANGED <<enWanted, enRun, ex, exRun, enKills, exKills, stops, probes>>
    BY <1>7 DEF EnDeaf
  <2> QED BY <1>0, <1>1, <2>1 DEF SessionInv, TypeOK, Serving
<1>8. CASE ExAccept
  <2>1. /\ ex = "accept" /\ ex' = "test" /\ line # <<>>
        /\ UNCHANGED <<en, enWanted, enRun, exRun, enKills, exKills, stops, probes>>
    BY <1>8 DEF ExAccept
  <2> QED BY <1>0, <1>1, <2>1 DEF SessionInv, TypeOK, Serving
<1>9. CASE ExRestart
  <2>1. enRun' = FALSE /\ UNCHANGED <<en, enWanted, ex, exRun, enKills, exKills, stops, probes>>
    BY <1>9 DEF ExRestart
  <2>2. TypeOK'
    BY <1>0, <2>1 DEF SessionInv, TypeOK, Serving
  <2>3. Serving' = Serving
    BY <2>1 DEF Serving
  <2> QED BY <1>0, <1>1, <2>1, <2>2, <2>3 DEF SessionInv
<1>10. CASE UNCHANGED vars
  BY <1>10 DEF vars, SessionInv, TypeOK, Serving, Mine
<1> QED BY <1>2, <1>3, <1>4, <1>5, <1>6, <1>7, <1>8, <1>9, <1>10

\* Every way in which the engine's process ends.
LEMMA EngineStops ==
    ASSUME SessionInv,
           EnKill \/ EnRefused \/ EnHelloFails \/ EnTestFails \/ EnLogonFails \/ EnExit
    PROVE  SessionInv'
<1> USE DEF exVars, bounds
<1>1. EnEnd /\ UNCHANGED <<enWanted, leftover, ex, exRun, exKills, stops, probes>>
  BY DEF EnKill, EnRefused, EnHelloFails, EnTestFails, EnLogonFails, EnExit
<1>2. en # "stopped"
  BY DEF EnKill, EnUp, EnRefused, EnHelloFails, EnTestFails, EnLogonFails, EnExit
<1>3. enKills' = enKills \/ (enKills < MaxKills /\ enKills' = enKills + 1)
  BY DEF EnKill, EnRefused, EnHelloFails, EnTestFails, EnLogonFails, EnExit
<1>4. enKills' \in 0..MaxKills
  BY <1>3, SessionAssumption DEF SessionInv, TypeOK
<1> QED BY <1>1, <1>2, <1>4, EngineEnds

\* connect, the logon and the orders.
LEMMA EngineSends ==
    ASSUME SessionInv, EnConnect \/ EnHello \/ EnOrder
    PROVE  SessionInv'
<1> USE DEF enVars, exVars, bounds
<1>0. line \in Seq(Connection) /\ Len(line) \in Nat /\ Len(line) <= Backlog + 1 /\ Backlog \in Nat
  BY SessionAssumption DEF SessionInv, TypeOK
<1>1. CASE EnConnect
  <2>1. /\ en = "connect" /\ en' = "hello" /\ Len(line) <= Backlog
        /\ line' = Append(line, NewConnection("engine"))
        /\ UNCHANGED <<enWanted, enRun, inbox, leftover, ex, exRun, enKills, exKills, stops, probes>>
    BY <1>1 DEF EnConnect, NewConnection
  <2>2. Mine = {} /\ inbox = <<>> /\ exRun
    BY <2>1 DEF SessionInv
  <2>3. /\ line' \in Seq(Connection) /\ Len(line') = Len(line) + 1
        /\ Mine' = {Len(line) + 1} /\ line'[Len(line) + 1].msgs = <<>>
    <3>1. MineIn(line) = {}
      BY <2>2 DEF Mine, MineIn
    <3>2. MineIn(line') = {Len(line) + 1}
      BY <1>0, <2>1, <3>1, LineJoined
    <3> QED BY <1>0, <2>1, <3>2, LineJoined DEF Mine, MineIn
  <2>4. Len(line') <= Backlog + 1 /\ line' # <<>>
    BY <1>0, <2>1, <2>3
  <2>5. TypeOK'
    BY <2>1, <2>3, <2>4 DEF SessionInv, TypeOK, Serving
  <2> QED BY <2>1, <2>2, <2>3, <2>5 DEF SessionInv
<1>2. CASE EnHello
  <2>1. /\ en = "hello" /\ en' = "test" /\ Send("logon")
        /\ UNCHANGED <<enWanted, enRun, inbox, leftover, ex, exRun, enKills, exKills, stops, probes>>
    BY <1>2 DEF EnHello
  <2>2. inbox = <<>> /\ \A i \in Mine : line[i].msgs = <<>>
    BY <2>1 DEF SessionInv
  <2>3. /\ line' \in Seq(Connection) /\ Len(line') = Len(line) /\ Mine' = Mine
        /\ \A i \in Mine : line'[i].msgs = Append(line[i].msgs, "logon")
    BY <1>0, <2>1, LineSent
  <2>4. Append(<<>>, "logon") = <<"logon">>
    OBVIOUS
  <2>5. \A i \in Mine' : line'[i].msgs = <<"logon">>
    BY <2>2, <2>3, <2>4
  <2>6. Serving => line' # <<>>
    BY <1>0, <2>3 DEF SessionInv, TypeOK
  <2>7. TypeOK'
    BY <2>1, <2>3, <2>6 DEF SessionInv, TypeOK, Serving
  <2> QED BY <2>1, <2>2, <2>3, <2>5, <2>7 DEF SessionInv
<1>3. CASE EnOrder
  <2>1. /\ en = "trade" /\ Send("order")
        /\ UNCHANGED <<en, enWanted, enRun, inbox, leftover, ex, exRun, enKills, exKills, stops, probes>>
    BY <1>3 DEF EnOrder
  <2>2. inbox \in Seq({"fill"}) /\ \A i \in Mine : i = 1 /\ Serving /\ line[i].msgs \in Seq({"order"})
    BY <2>1 DEF SessionInv
  <2>3. /\ line' \in Seq(Connection) /\ Len(line') = Len(line) /\ Mine' = Mine
        /\ \A i \in Mine : line'[i].msgs = Append(line[i].msgs, "order")
    BY <1>0, <2>1, LineSent
  <2>4. \A m \in Seq({"order"}) : Append(m, "order") \in Seq({"order"})
    OBVIOUS
  <2>5. \A i \in Mine' : line'[i].msgs \in Seq({"order"})
    BY <2>2, <2>3, <2>4
  <2>6. Serving => line' # <<>>
    BY <1>0, <2>3 DEF SessionInv, TypeOK
  <2>7. TypeOK'
    BY <2>1, <2>3, <2>6 DEF SessionInv, TypeOK, Serving
  <2> QED BY <2>1, <2>2, <2>3, <2>5, <2>7 DEF SessionInv, Serving
<1> QED BY <1>1, <1>2, <1>3

\* The answer to the logon is alone in what recv returned, so nothing is
\* left in the framer that is destroyed; later recvs return fills.
LEMMA EngineReceives ==
    ASSUME SessionInv, EnLogon \/ EnFill
    PROVE  SessionInv'
<1> USE DEF enVars, exVars, bounds
<1>1. CASE EnLogon
  <2>0. PICK k \in 1..Len(inbox) : \E a \in 1..k :
           /\ leftover' = SubSeq(inbox, a + 1, k)
           /\ inbox' = SubSeq(inbox, k + 1, Len(inbox))
    BY <1>1 DEF EnLogon
  <2>1. PICK a \in 1..k : /\ leftover' = SubSeq(inbox, a + 1, k)
                          /\ inbox' = SubSeq(inbox, k + 1, Len(inbox))
    BY <2>0
  <2>2. /\ en = "recv" /\ en' = "trade"
        /\ UNCHANGED <<enWanted, enRun, ex, exRun, line, enKills, exKills, stops, probes>>
    BY <1>1 DEF EnLogon
  <2>3. inbox # <<>>
    BY <2>1
  <2>4. inbox = <<"ack">> /\ \A i \in Mine : i = 1 /\ Serving /\ line[i].msgs = <<>>
    BY <2>2, <2>3 DEF SessionInv
  <2>5. k = 1 /\ a = 1 /\ Len(inbox) = 1
    BY <2>1, <2>4
  <2>6. leftover' = <<>> /\ inbox' = <<>>
    BY <2>1, <2>4, <2>5
  <2>7. Mine' = Mine
    BY <2>2 DEF Mine
  <2>8. TypeOK'
    BY <2>2, <2>6 DEF SessionInv, TypeOK, Serving
  <2>9. \A i \in Mine' : i = 1 /\ Serving' /\ line'[i].msgs \in Seq({"order"})
    <3>1. <<>> \in Seq({"order"})
      OBVIOUS
    <3> QED BY <2>2, <2>4, <2>7, <3>1 DEF Serving
  <2> QED BY <2>2, <2>6, <2>7, <2>8, <2>9 DEF SessionInv
<1>2. CASE EnFill
  <2>1. PICK k \in 1..Len(inbox) : inbox' = SubSeq(inbox, k + 1, Len(inbox))
    BY <1>2 DEF EnFill
  <2>2. en = "trade" /\ UNCHANGED <<en, enWanted, enRun, leftover, ex, exRun, line, enKills, exKills, stops, probes>>
    BY <1>2 DEF EnFill
  <2>3. inbox \in Seq({"fill"})
    BY <2>2 DEF SessionInv
  <2>4. inbox' \in Seq({"fill"})
    BY <2>1, <2>3
  <2>5. inbox' \in Seq({"ack", "fill"})
    BY <2>4
  <2>6. Mine' = Mine
    BY <2>2 DEF Mine
  <2>7. TypeOK'
    BY <2>2, <2>5 DEF SessionInv, TypeOK, Serving
  <2> QED BY <2>2, <2>4, <2>6, <2>7 DEF SessionInv, Serving
<1> QED BY <1>1, <1>2
\* The exchange answers: the logon with an ack, an order with a fill, and
\* nothing to a client that is gone.
LEMMA ExchangeAnswers ==
    ASSUME SessionInv, ExRecv
    PROVE  SessionInv'
<1> USE DEF enVars, exVars, bounds
<1>0. line \in Seq(Connection) /\ Len(line) \in Nat /\ line # <<>> /\ ex = "recv"
  BY DEF SessionInv, TypeOK, ExRecv, Serving
<1>1. /\ Head(line) = line[1] /\ 1 \in DOMAIN line
      /\ line[1] \in Connection /\ line[1].msgs \in Seq({"logon", "order"})
  <2>1. Head(line) = line[1] /\ 1 \in DOMAIN line /\ line[1] \in Connection
    BY <1>0
  <2>2. line[1].msgs \in Seq({"logon", "order"})
    BY <2>1 DEF Connection
  <2> QED BY <2>1, <2>2
<1>2. PICK msgs \in Seq({"logon", "order"}) : msgs = line[1].msgs
  BY <1>1
<1>3. PICK k \in 1..Len(msgs) :
         /\ line' = [line EXCEPT ![1].msgs = SubSeq(msgs, k + 1, Len(msgs))]
         /\ inbox' = IF 1 \in Mine
                     THEN inbox \o [i \in DOMAIN SubSeq(msgs, 1, k) |-> Reply(SubSeq(msgs, 1, k)[i])]
                     ELSE inbox
  BY <1>1, <1>2 DEF ExRecv
<1>4. /\ ex' = "test" /\ msgs # <<>>
      /\ UNCHANGED <<en, enWanted, enRun, leftover, exRun, enKills, exKills, stops, probes>>
  BY <1>1, <1>2 DEF ExRecv
<1>5. PICK rest : rest = SubSeq(msgs, k + 1, Len(msgs))
  OBVIOUS
<1>6. PICK got : got = SubSeq(msgs, 1, k)
  OBVIOUS
<1>7. /\ rest \in Seq({"logon", "order"}) /\ got \in Seq({"logon", "order"})
      /\ Len(got) = k /\ k \in Nat /\ k >= 1 /\ DOMAIN got = 1..k
      /\ \A i \in 1..k : got[i] = msgs[i]
      /\ msgs \in Seq({"order"}) => rest \in Seq({"order"})
  BY <1>5, <1>6
<1>8. /\ line' \in Seq(Connection) /\ Len(line') = Len(line) /\ Mine' = Mine
      /\ \A i \in DOMAIN line : i # 1 => line'[i] = line[i]
      /\ line'[1].msgs = rest
  <2>1. PICK c : c = [line[1] EXCEPT !.msgs = rest]
    OBVIOUS
  <2>2. c \in Connection /\ c.who = line[1].who /\ c.open = line[1].open /\ c.msgs = rest
    BY <1>1, <1>7, <2>1 DEF Connection
  <2>3. line' = [line EXCEPT ![1] = c]
    BY <1>3, <1>5, <2>1
  <2>4. /\ line' \in Seq(Connection) /\ Len(line') = Len(line) /\ MineIn(line') = MineIn(line)
        /\ \A i \in DOMAIN line : i # 1 => line'[i] = line[i]
        /\ line'[1] = c
    <3>1. c.who = "engine" => (c.open = line[1].open)
      BY <2>2
    <3>2. /\ [line EXCEPT ![1] = c] \in Seq(Connection)
          /\ Len([line EXCEPT ![1] = c]) = Len(line)
          /\ MineIn([line EXCEPT ![1] = c]) = MineIn(line)
          /\ \A i \in DOMAIN line : i # 1 => [line EXCEPT ![1] = c][i] = line[i]
          /\ [line EXCEPT ![1] = c][1] = c
      BY <1>0, <1>1, <2>2, <3>1, LineChanged
    <3> QED BY <2>3, <3>2
  <2> QED BY <2>2, <2>4 DEF Mine, MineIn
<1>9. Serving /\ Serving' /\ line' # <<>>
  BY <1>0, <1>4, <1>8 DEF Serving
<1>10. CASE 1 \notin Mine
  <2>1. inbox' = inbox
    BY <1>3, <1>10
  <2>2. TypeOK'
    BY <1>4, <1>8, <1>9, <2>1 DEF SessionInv, TypeOK
  <2>3. \A i \in Mine : line'[i] = line[i]
    BY <1>8, <1>10 DEF Mine
  <2> QED BY <1>4, <1>8, <1>9, <2>1, <2>2, <2>3 DEF SessionInv
<1>11. CASE 1 \in Mine
  <2>1. Mine' = {1}
    BY <1>8, <1>11 DEF SessionInv
  <2>2. inbox' = inbox \o [i \in 1..k |-> Reply(got[i])]
    BY <1>3, <1>6, <1>7, <1>11
  <2>3. en \in {"test", "recv", "trade", "deaf"}
    BY <1>2, <1>4, <1>11 DEF SessionInv, TypeOK
  <2>4. CASE en \in {"test", "recv"}
    <3>1. inbox = <<>> /\ msgs = <<"logon">>
      BY <1>2, <1>4, <1>11, <2>4 DEF SessionInv
    <3>2. k = 1 /\ rest = <<>> /\ got[1] = "logon"
      BY <1>5, <1>7, <3>1
    <3>3. [i \in 1..k |-> Reply(got[i])] = <<"ack">>
      BY <3>2 DEF Reply
    <3>4. inbox' = <<"ack">>
      BY <2>2, <3>1, <3>3
    <3>5. TypeOK'
      BY <1>4, <1>8, <1>9, <3>4 DEF SessionInv, TypeOK
    <3> QED BY <1>4, <1>8, <1>9, <2>1, <2>4, <3>2, <3>4, <3>5 DEF SessionInv
  <2>5. CASE en \in {"trade", "deaf"}
    <3>1. inbox \in Seq({"fill"}) /\ msgs \in Seq({"order"})
      BY <1>2, <1>11, <2>5 DEF SessionInv
    <3>2. \A i \in 1..k : got[i] = "order"
      BY <1>7, <3>1
    <3>3. [i \in 1..k |-> Reply(got[i])] \in Seq({"fill"})
      BY <1>7, <3>2 DEF Reply
    <3>4. inbox' \in Seq({"fill"})
      BY <2>2, <3>1, <3>3
    <3>5. inbox' \in Seq({"ack", "fill"})
      BY <3>4
    <3>6. TypeOK'
      BY <1>4, <1>8, <1>9, <3>5 DEF SessionInv, TypeOK
    <3>7. rest \in Seq({"order"})
      BY <1>7, <3>1
    <3> QED BY <1>4, <1>8, <1>9, <2>1, <2>5, <3>4, <3>6, <3>7 DEF SessionInv
  <2> QED BY <2>3, <2>4, <2>5
<1> QED BY <1>10, <1>11

\* A client leaves the front of the line: not one that was answered and is
\* still there, because the handler serves it to its end.
LEMMA ExchangeHangsUp ==
    ASSUME SessionInv, ExTest \/ ExPeerClosed
    PROVE  SessionInv'
<1> USE DEF enVars, exVars, bounds
<1>0. /\ line \in Seq(Connection) /\ Len(line) \in Nat /\ line # <<>> /\ Len(line) <= Backlog + 1
      /\ Backlog \in Nat /\ Serving
  BY SessionAssumption DEF SessionInv, TypeOK, ExTest, ExPeerClosed, Serving
<1>1. UNCHANGED <<en, enWanted, enRun, inbox, leftover, exRun, enKills, exKills, stops, probes>>
  BY DEF ExTest, ExPeerClosed
<1>2. CASE ex' = "recv" /\ line' = line
  <2>1. Mine' = Mine
    BY <1>2 DEF Mine
  <2>2. TypeOK'
    BY <1>0, <1>1, <1>2 DEF SessionInv, TypeOK
  <2> QED BY <1>0, <1>1, <1>2, <2>1, <2>2 DEF SessionInv, Serving
<1>3. CASE Hangup /\ (~exRun \/ ~Head(line).open)
  <2>1. 1 \notin Mine
    <3>1. CASE ~exRun
      BY <3>1 DEF SessionInv
    <3>2. CASE ~Head(line).open
      BY <1>0, <3>2 DEF Mine
    <3> QED BY <1>3, <3>1, <3>2
  <2>2. /\ line' \in Seq(Connection) /\ Len(line') = Len(line) - 1
        /\ \A i \in Mine' : i + 1 \in Mine /\ i \in Nat /\ i >= 1 /\ line'[i] = line[i + 1]
    BY <1>0, <1>3, LineLeft DEF Hangup, Mine, MineIn
  <2>3. Len(line') <= Backlog + 1 /\ ex' = "accept"
    BY <1>0, <1>3, <2>2 DEF Hangup
  <2>4. TypeOK'
    BY <1>1, <2>2, <2>3 DEF SessionInv, TypeOK, Serving
  <2>5. \A i, j \in Mine' : i = j
    BY <2>2 DEF SessionInv
  <2>6. \A i \in Mine' : i + 1 # 1
    BY <2>2
  <2>7. en \in {"test", "recv"} =>
          \/ inbox = <<>> /\ \A i \in Mine' : line'[i].msgs = <<"logon">>
          \/ inbox = <<"ack">> /\ Mine' = {}
    BY <2>2, <2>6 DEF SessionInv
  <2>8. en \in {"trade", "deaf"} => inbox \in Seq({"fill"}) /\ Mine' = {}
    BY <2>2, <2>6 DEF SessionInv
  <2>9. /\ en \in {"down", "connect", "stopped"} => Mine' = {} /\ inbox = <<>>
        /\ en = "hello" => inbox = <<>> /\ \A i \in Mine' : line'[i].msgs = <<>>
    BY <2>2 DEF SessionInv
  <2> QED BY <1>1, <2>4, <2>5, <2>7, <2>8, <2>9 DEF SessionInv
<1> QED BY <1>2, <1>3 DEF ExTest, ExPeerClosed

\* The exchange's process ends, or stops listening.
LEMMA ExchangeStops ==
    ASSUME SessionInv, ExKill \/ ExListenFails \/ ExStop \/ ExExit
    PROVE  SessionInv'
<1> USE DEF enVars, exVars, bounds
<1>0. line \in Seq(Connection) /\ Len(line) \in Nat /\ Backlog \in Nat /\ Backlog >= 1
  BY SessionAssumption DEF SessionInv, TypeOK
<1>1. CASE ExKill \/ ExListenFails \/ ExExit
  <2>1. /\ line' = <<>> /\ ex' \in {"down", "stopped"}
        /\ UNCHANGED <<en, enWanted, enRun, inbox, leftover, exRun, enKills, stops, probes>>
        /\ exKills' = exKills \/ (exKills < MaxKills /\ exKills' = exKills + 1)
    BY <1>1 DEF ExKill, ExListenFails, ExFail, ExExit
  <2>2. Mine' = {}
    BY <2>1 DEF Mine
  <2>3. exKills' \in 0..MaxKills
    BY <2>1, SessionAssumption DEF SessionInv, TypeOK
  <2>4. line' \in Seq(Connection) /\ Len(line') <= Backlog + 1
    BY <1>0, <2>1
  <2>5. TypeOK'
    BY <2>1, <2>3, <2>4 DEF SessionInv, TypeOK, Serving
  <2>6. en \in {"test", "recv"} => inbox = <<>> \/ inbox = <<"ack">>
    BY DEF SessionInv
  <2> QED BY <2>1, <2>2, <2>5, <2>6 DEF SessionInv
<1>2. CASE ExStop
  <2>1. /\ en = "stopped" /\ exRun' = FALSE /\ ex' = (IF ExUp THEN ex ELSE "stopped")
        /\ line' = IF Serving THEN <<Head(line)>> ELSE <<>>
        /\ UNCHANGED <<en, enWanted, enRun, inbox, leftover, enKills, exKills, stops, probes>>
    BY <1>2 DEF ExStop
  <2>2. Mine = {} /\ inbox = <<>>
    BY <2>1 DEF SessionInv
  <2>3. CASE Serving
    <3>1. line # <<>> /\ Head(line) = line[1] /\ 1 \in DOMAIN line /\ line[1] \in Connection
      BY <1>0, <2>3 DEF SessionInv, TypeOK
    <3>2. line' = <<line[1]>>
      BY <2>1, <2>3, <3>1
    <3>3. /\ line' \in Seq(Connection) /\ Len(line') = 1 /\ line' # <<>>
          /\ DOMAIN line' = {1} /\ line'[1] = line[1]
      BY <3>1, <3>2
    <3>4. Mine' = {}
      BY <2>2, <3>1, <3>3 DEF Mine
    <3>5. TypeOK'
      <4>1. ex' = ex /\ Len(line') <= Backlog + 1
        BY <1>0, <2>1, <2>3, <3>3 DEF Serving, ExUp
      <4> QED BY <2>1, <3>3, <4>1 DEF SessionInv, TypeOK
    <3> QED BY <2>1, <2>2, <3>4, <3>5 DEF SessionInv
  <2>4. CASE ~Serving
    <3>1. line' = <<>>
      BY <2>1, <2>4
    <3>2. Mine' = {}
      BY <3>1 DEF Mine
    <3>3. ex' \notin {"test", "recv"}
      BY <2>1, <2>4 DEF Serving
    <3>4. line' \in Seq(Connection) /\ Len(line') <= Backlog + 1
      BY <1>0, <3>1
    <3>5. TypeOK'
      BY <2>1, <3>3, <3>4 DEF SessionInv, TypeOK, Serving
    <3> QED BY <2>1, <2>2, <3>2, <3>5 DEF SessionInv
  <2> QED BY <2>3, <2>4
<1> QED BY <1>1, <1>2

\* nc comes and goes.
LEMMA ProbeComes ==
    ASSUME SessionInv, Probe \/ ProbeClose
    PROVE  SessionInv'
<1> USE DEF enVars, exVars, bounds
<1>0. /\ line \in Seq(Connection) /\ Len(line) \in Nat /\ Len(line) <= Backlog + 1
      /\ Backlog \in Nat /\ DOMAIN line = 1..Len(line)
  BY SessionAssumption DEF SessionInv, TypeOK
<1>1. /\ line' \in Seq(Connection) /\ Len(line') <= Backlog + 1 /\ Mine' = Mine
      /\ \A i \in Mine : line'[i] = line[i]
      /\ line # <<>> => line' # <<>>
      /\ probes' \in 0..MaxProbes
      /\ UNCHANGED <<en, enWanted, enRun, inbox, leftover, ex, exRun, enKills, exKills, stops>>
  <2>1. CASE Probe
    <3>1. /\ Len(line) <= Backlog /\ line' = Append(line, NewConnection("probe"))
          /\ probes < MaxProbes /\ probes' = probes + 1
          /\ UNCHANGED <<en, enWanted, enRun, inbox, leftover, ex, exRun, enKills, exKills, stops>>
      BY <2>1 DEF Probe, NewConnection
    <3>2. probes' \in 0..MaxProbes
      BY <3>1, SessionAssumption DEF SessionInv, TypeOK
    <3>3. /\ line' \in Seq(Connection) /\ Len(line') = Len(line) + 1 /\ MineIn(line') = MineIn(line)
          /\ \A i \in 1..Len(line) : line'[i] = line[i]
      BY <1>0, <3>1, LineJoined
    <3>4. Len(line') <= Backlog + 1 /\ line' # <<>>
      BY <1>0, <3>1, <3>3
    <3> QED BY <1>0, <3>1, <3>2, <3>3, <3>4 DEF Mine, MineIn
  <2>2. CASE ProbeClose
    <3>1. PICK k \in DOMAIN line : line[k].who = "probe" /\ line' = [line EXCEPT ![k].open = FALSE]
      BY <2>2 DEF ProbeClose
    <3>2. UNCHANGED <<en, enWanted, enRun, inbox, leftover, ex, exRun, enKills, exKills, stops, probes>>
      BY <2>2 DEF ProbeClose
    <3>3. PICK c : c = [line[k] EXCEPT !.open = FALSE]
      OBVIOUS
    <3>4. c \in Connection /\ c.who = line[k].who /\ c.who # "engine"
      <4>1. line[k] \in Connection
        BY <1>0, <3>1
      <4> QED BY <3>1, <3>3, <4>1 DEF Connection
    <3>5. line' = [line EXCEPT ![k] = c]
      BY <3>1, <3>3
    <3>6. /\ line' \in Seq(Connection) /\ Len(line') = Len(line) /\ MineIn(line') = MineIn(line)
          /\ \A i \in DOMAIN line : i # k => line'[i] = line[i]
      <4>1. c.who = "engine" => (c.open = line[k].open)
        BY <3>4
      <4>2. /\ [line EXCEPT ![k] = c] \in Seq(Connection)
            /\ Len([line EXCEPT ![k] = c]) = Len(line)
            /\ MineIn([line EXCEPT ![k] = c]) = MineIn(line)
            /\ \A i \in DOMAIN line : i # k => [line EXCEPT ![k] = c][i] = line[i]
        <5>1. line \in Seq(Connection) /\ k \in DOMAIN line /\ c \in Connection /\ c.who = line[k].who
          BY <1>0, <3>1, <3>4
        <5> QED BY <4>1, <5>1, LineChanged, SMTT(30)
      <4> QED BY <3>5, <4>2
    <3>7. k \notin Mine
      BY <3>1 DEF Mine
    <3>8. line # <<>> => line' # <<>>
      BY <1>0, <3>6
    <3>9. probes' \in 0..MaxProbes
      BY <3>2 DEF SessionInv, TypeOK
    <3> QED BY <1>0, <3>2, <3>6, <3>7, <3>8, <3>9 DEF Mine, MineIn
  <2> QED BY <2>1, <2>2
<1>2. TypeOK'
  BY <1>1 DEF SessionInv, TypeOK, Serving
<1> QED BY <1>1, <1>2 DEF SessionInv, Serving

\* Every step of the session.
LEMMA SessionStep == SessionInv /\ [Next]_vars => SessionInv'
BY StepsBesideTheLine, EngineStops, EngineSends, EngineReceives, ExchangeAnswers,
   ExchangeHangsUp, ExchangeStops, ProbeComes
DEF Next, EnStep, ExStep, Systemd, Outside

\* The invariant for every behaviour of the session alone.
THEOREM SessionInvariant == Spec => []SessionInv
BY SessionStart, SessionStep, PTL DEF Spec
-----------------------------------------------------------------------------
(* The unit                                                                *)

\* The metrics thread and its clients, as UnitTypeOK has them
MetricsInv ==
    /\ mx \in {"off", "listen", "done", "test", "accept", "recv", "reply"}
    /\ page \in Seq(Visit) /\ Len(page) <= Backlog + 1
    /\ mx # "off" <=> en \in {"trade", "deaf"}
    /\ mx \in {"recv", "reply"} => page # <<>>
    /\ page # <<>> => MxListens

\* The unit's steps are the session's, or beside it.
LEMMA UnitSteps == [UnitNext]_unitVars => [Next]_vars
BY DEF UnitNext, Pipeline, UnitLogon, UnitExit, Exchange, Units, Others, UnitKill, MxStep,
       Clients, unitVars, Next, EnStep, Outside

\* Only the logon, the exit and a kill begin or end the pipeline.
LEMMA PipelineKept ==
    ASSUME \/ EnConnect \/ EnRefused \/ EnHello \/ EnHelloFails \/ EnTest \/ EnTestFails
           \/ EnLogonFails \/ EnDeaf \/ EnFill \/ ExStep \/ Systemd
           \/ EnOrder \/ ExKill \/ ExListenFails \/ EnStop \/ ExStop \/ UnitStart \/ Probe \/ ProbeClose
    PROVE  en' \in {"trade", "deaf"} <=> en \in {"trade", "deaf"}
<1> USE DEF enVars, exVars, bounds
<1>1. CASE EnConnect \/ EnHello \/ EnTest \/ EnDeaf \/ EnFill \/ EnOrder
  BY <1>1 DEF EnConnect, EnHello, EnTest, EnDeaf, EnFill, EnOrder
<1>2. CASE EnRefused \/ EnHelloFails \/ EnTestFails \/ EnLogonFails
  BY <1>2 DEF EnRefused, EnHelloFails, EnTestFails, EnLogonFails, EnEnd
<1>3. CASE ExStep \/ ExKill \/ ExListenFails \/ ExStop \/ Probe \/ ProbeClose
  BY <1>3 DEF ExStep, ExListen, ExAccept, ExTest, ExRecv, ExPeerClosed, ExExit, ExKill,
              ExListenFails, ExFail, ExStop, Probe, ProbeClose
<1>4. CASE Systemd \/ EnStop \/ UnitStart
  BY <1>4 DEF Systemd, EnStart, ExRestart, ExStart, EnStop, EnUp, UnitStart
<1> QED BY <1>1, <1>2, <1>3, <1>4

\* Nobody is there yet.
LEMMA MetricsStart == UnitInit => MetricsInv
BY SessionAssumption DEF UnitInit, Init, MetricsInv, MxListens

\* The steps of the unit.
LEMMA MetricsStep == MetricsInv /\ [UnitNext]_unitVars => MetricsInv'
<1> SUFFICES ASSUME MetricsInv, [UnitNext]_unitVars PROVE MetricsInv'
  OBVIOUS
<1> USE DEF mxVars
<1>0. Backlog \in Nat /\ page \in Seq(Visit) /\ Len(page) \in Nat /\ Len(page) <= Backlog + 1
  BY SessionAssumption DEF MetricsInv
<1>e. <<>> \in Seq(Visit) /\ Len(<<>>) = 0
  OBVIOUS
<1>1. CASE UnitLogon
  <2>1. en = "recv" /\ en' = "trade" /\ mx' = "listen" /\ page' = page
    BY <1>1 DEF UnitLogon, EnLogon
  <2> QED BY <2>1 DEF MetricsInv, MxListens
<1>2. CASE UnitExit
  <2>1. mx = "done" /\ en' \in {"down", "stopped"} /\ mx' = "off" /\ page' = page
    BY <1>2 DEF UnitExit, EnExit, EnEnd
  <2> QED BY <2>1 DEF MetricsInv, MxListens
<1>3. CASE UnitKill
  <2>1. en' \in {"down", "stopped"} /\ mx' = "off" /\ page' = <<>>
    BY <1>3 DEF UnitKill, EnKill, EnEnd
  <2> QED BY <1>0, <1>e, <2>1 DEF MetricsInv
<1>4. CASE /\ \/ EnConnect \/ EnRefused \/ EnHello \/ EnHelloFails \/ EnTest \/ EnTestFails
              \/ EnLogonFails \/ EnDeaf \/ EnFill \/ ExStep \/ Systemd
              \/ EnOrder \/ ExKill \/ ExListenFails \/ EnStop \/ ExStop \/ UnitStart \/ Probe \/ ProbeClose
           /\ UNCHANGED mxVars
  <2>1. (en' \in {"trade", "deaf"} <=> en \in {"trade", "deaf"}) /\ mx' = mx /\ page' = page
    BY <1>4, PipelineKept
  <2> QED BY <2>1 DEF MetricsInv, MxListens
<1>5. CASE MxStep
  <2>1. en' = en
    BY <1>5 DEF MxStep, vars, enVars
  <2>2. CASE MxListen \/ MxTest \/ MxAccept \/ MxRecv \/ MxRecvTimeout
    <3>1. /\ mx # "off" /\ mx' # "off"
          /\ mx' \in {"test", "done", "accept", "recv", "reply"}
          /\ page' = page \/ page' = <<>>
          /\ mx' \in {"recv", "reply"} => page' # <<>>
          /\ page' # <<>> => MxListens'
      BY <2>2 DEF MxListen, MxTest, MxAccept, MxRecv, MxRecvTimeout, MetricsInv, MxListens
    <3>2. page' \in Seq(Visit) /\ Len(page') <= Backlog + 1
      <4>1. CASE page' = page
        BY <1>0, <4>1
      <4>2. CASE page' = <<>>
        BY <1>0, <1>e, <4>2
      <4> QED BY <3>1, <4>1, <4>2
    <3> QED BY <2>1, <3>1, <3>2 DEF MetricsInv
  <2>3. CASE MxReply
    <3>1. mx = "reply" /\ mx' = "test" /\ page' = Tail(page) /\ page # <<>>
      BY <2>3 DEF MxReply, MetricsInv
    <3>2. Tail(page) \in Seq(Visit) /\ Len(Tail(page)) = Len(page) - 1
      BY <1>0, <3>1
    <3>3. page' \in Seq(Visit) /\ Len(page') <= Backlog + 1
      BY <1>0, <3>1, <3>2
    <3> QED BY <2>1, <3>1, <3>3 DEF MetricsInv, MxListens
  <2> QED BY <1>5, <2>2, <2>3 DEF MxStep
<1>6. CASE Clients
  <2>1. en' = en /\ mx' = mx
    BY <1>6 DEF Clients, vars, enVars, Visits, GivesUp
  <2>2. PICK c \in Client : Visits(c) \/ GivesUp(c)
    BY <1>6 DEF Clients
  <2>3. CASE Visits(c)
    <3>1. MxListens /\ Len(page) <= Backlog /\ page' = Append(page, [who |-> c, open |-> TRUE])
      BY <2>3 DEF Visits
    <3>2. [who |-> c, open |-> TRUE] \in Visit
      BY DEF Visit
    <3>3. page' \in Seq(Visit) /\ Len(page') <= Backlog + 1 /\ page' # <<>>
      BY <1>0, <3>1, <3>2
    <3> QED BY <2>1, <3>1, <3>3 DEF MetricsInv, MxListens
  <2>4. CASE GivesUp(c)
    <3> DEFINE G(i) == [page[i] EXCEPT !.open = @ /\ page[i].who # c]
    <3>1. DOMAIN page = 1..Len(page) /\ \A i \in 1..Len(page) : page[i] \in Visit
      BY <1>0
    <3>2. page' = [i \in 1..Len(page) |-> G(i)]
      BY <2>4, <3>1 DEF GivesUp
    <3>3. \A i \in 1..Len(page) : G(i) \in Visit
      <4> TAKE i \in 1..Len(page)
      <4>1. PICK v \in Visit : v = page[i]
        BY <3>1
      <4>2. PICK b \in BOOLEAN : b = (v.open /\ v.who # c)
        OBVIOUS
      <4>3. G(i) = [v EXCEPT !.open = b]
        BY <4>1, <4>2
      <4> QED BY <4>1, <4>2, <4>3 DEF Visit
    <3> HIDE DEF G
    <3>4. page' \in Seq(Visit) /\ Len(page') = Len(page)
      BY <1>0, <3>2, <3>3
    <3>5. page # <<>> <=> page' # <<>>
      BY <1>0, <3>4
    <3> QED BY <1>0, <2>1, <3>4, <3>5 DEF MetricsInv, MxListens
  <2> QED BY <2>2, <2>3, <2>4
<1>7. CASE UNCHANGED unitVars
  BY <1>7 DEF unitVars, vars, enVars, MetricsInv, MxListens
<1> QED
  BY <1>1, <1>2, <1>3, <1>4, <1>5, <1>6, <1>7 DEF UnitNext, Pipeline, Exchange, Units, Others

\* Both parts hold throughout.
LEMMA UnitInvariant == UnitSpec => [](SessionInv /\ MetricsInv)
<1>1. UnitInit => SessionInv /\ MetricsInv
  BY SessionStart, MetricsStart DEF UnitInit
<1> QED BY <1>1, SessionStep, UnitSteps, MetricsStep, PTL DEF UnitSpec

\* The types of the unit's state; the exchange never serves nobody, nor the
\* metrics thread, which lives exactly while the pipeline does.
THEOREM UnitTypeCorrect == UnitSpec => []UnitTypeOK
<1>1. SessionInv /\ MetricsInv => UnitTypeOK
  BY DEF SessionInv, MetricsInv, UnitTypeOK, MxListens
<1> QED BY <1>1, UnitInvariant, PTL

\* do_logon's framer never holds anything behind the answer when it is
\* destroyed, whatever recv returned at once.
THEOREM NothingIsDiscarded == UnitSpec => []NothingDiscarded
<1>1. SessionInv => NothingDiscarded
  BY DEF SessionInv, NothingDiscarded
<1> QED BY <1>1, UnitInvariant, PTL

\* The engine that trades is the client that the exchange serves.
THEOREM TradingIsServed == UnitSpec => []ServedWhenTrading
<1>1. SessionInv => ServedWhenTrading
  BY DEF SessionInv, ServedWhenTrading, Trading, Connected
<1> QED BY <1>1, UnitInvariant, PTL
=============================================================================

------------------------ MODULE TradingEngine_proofs -------------------------
(***************************************************************************)
(* The safety of the pipeline, for every size of the rings, the socket     *)
(* buffers, pending[] and the batches: gateway and exchange never block on *)
(* one another, nothing that was sent is lost, duplicated or reordered on  *)
(* its round trip, a fill finds its own tick, and the counters, histograms *)
(* and the log say what happened.                                          *)
(***************************************************************************)
EXTENDS TradingEngine, TLAPS

(* The shape of the data that travels: what the provers need to know about *)
(* the elements of the queues to reason about their lengths.               *)
OrderShape == [id : Nat, t0 : Nat]
ReportShape == [id : Nat, oid : Nat]

Shapes ==
    /\ seq \in Nat /\ clordid \in Nat /\ exSeq \in Nat
    /\ order \in OrderShape /\ nos \in OrderShape
    /\ ring1 \in Seq(Nat) /\ ring2 \in Seq(OrderShape) /\ ring3 \in Seq(Nat)
    /\ rx \in Seq(ReportShape) /\ fills \in Nat /\ orders \in Nat
    /\ wireOut \in Seq(Nat) /\ exRx \in Seq(Nat) /\ wireIn \in Seq(ReportShape)

\* The sizes of the rings, the buffers, the pool and the batches.
LEMMA ConstantTypes ==
    /\ MaxTicks \in Nat /\ Warmup \in Nat /\ PoolSize \in Nat
    /\ RingCap \in Nat /\ PendingCap \in Nat
    /\ OutCap \in Nat /\ InCap \in Nat /\ ExBatch \in Nat /\ GwBatch \in Nat
    /\ OutCap >= 1 /\ PendingCap >= 1 /\ InCap > ExBatch
<1>1. MaxTicks \in Nat /\ Warmup \in Nat /\ PoolSize \in Nat
  BY EngineAssumption
<1>2. RingCap \in Nat /\ PendingCap \in Nat /\ PendingCap >= 1
  BY EngineAssumption
<1>3. OutCap \in Nat /\ InCap \in Nat /\ ExBatch \in Nat /\ GwBatch \in Nat /\ OutCap >= 1
  BY EngineAssumption
<1> QED BY <1>1, <1>2, <1>3, BufferAssumption

\* The counters count, and the queues have lengths.
LEMMA ShapeTypes ==
    ASSUME Shapes
    PROVE  /\ seq \in Nat /\ clordid \in Nat /\ fills \in Nat /\ orders \in Nat
           /\ nos.id \in Nat /\ order.id \in Nat
           /\ ring1 \in Seq(Nat) /\ Len(ring1) \in Nat /\ Len(ring2) \in Nat
           /\ Len(ring3) \in Nat /\ Len(rx) \in Nat /\ Len(wireIn) \in Nat
<1>1. /\ seq \in Nat /\ clordid \in Nat /\ fills \in Nat /\ orders \in Nat
      /\ ring1 \in Seq(Nat) /\ ring3 \in Seq(Nat) /\ ring2 \in Seq(OrderShape)
      /\ rx \in Seq(ReportShape) /\ wireIn \in Seq(ReportShape)
  BY DEF Shapes
<1>2. nos.id \in Nat /\ order.id \in Nat
  BY DEF Shapes, OrderShape
<1>3. /\ Len(ring1) \in Nat /\ Len(ring2) \in Nat /\ Len(ring3) \in Nat
      /\ Len(rx) \in Nat /\ Len(wireIn) \in Nat
  BY <1>1
<1> QED BY <1>1, <1>2, <1>3

\* recv splits what is buffered in two.
LEMMA Cut ==
    ASSUME NEW S, NEW s \in Seq(S), NEW n \in Nat, n >= 1, n <= Len(s)
    PROVE  /\ SubSeq(s, 1, n) \in Seq(S) /\ Len(SubSeq(s, 1, n)) = n
           /\ SubSeq(s, n + 1, Len(s)) \in Seq(S)
           /\ Len(SubSeq(s, n + 1, Len(s))) = Len(s) - n
OBVIOUS

\* A pop takes the first element.
LEMMA Behead ==
    ASSUME NEW S, NEW s \in Seq(S), s # << >>
    PROVE  /\ Head(s) \in S /\ Tail(s) \in Seq(S)
           /\ Len(s) \in Nat /\ Len(Tail(s)) = Len(s) - 1
OBVIOUS

\* A push or a send appends one element.
LEMMA Extend ==
    ASSUME NEW S, NEW s \in Seq(S), NEW e \in S
    PROVE  /\ Append(s, e) \in Seq(S)
           /\ Len(s) \in Nat /\ Len(Append(s, e)) = Len(s) + 1
OBVIOUS

\* The empty pipeline is well shaped.
LEMMA ShapesInit == Init => Shapes
BY DEF Init, Shapes, NoOrder, OrderShape

\* Every step of a thread keeps the shape of what it passes on.
LEMMA ShapesStep == Shapes /\ [Next]_vars => Shapes'
<1> SUFFICES ASSUME Shapes, [Next]_vars PROVE Shapes'
  OBVIOUS
<1> USE DEF Shapes, mdVars, stVars, txVars, rxVars, lgVars, exVars, wires, rings,
            notMd, notSt, notGw, notLg, notEx
<1>1. CASE EngSigterm
  BY <1>1 DEF EngSigterm
<1>2. CASE MarketData
  <2>1. ring1' \in Seq(Nat) /\ seq' \in Nat
    <3>1. seq + 1 \in Nat /\ Append(ring1, seq + 1) \in Seq(Nat)
      BY Extend
    <3> QED BY <1>2, <3>1 DEF MarketData, MdTick, MdPush, MdGiveUp, MdExit
  <2> QED BY <1>2, <2>1 DEF MarketData, MdTick, MdPush, MdGiveUp, MdExit
<1>3. CASE StPop
  <2>1. ring1' \in Seq(Nat) /\ Head(ring1) \in Nat
    BY <1>3, Behead DEF StPop
  <2>2. order' \in OrderShape
    BY <1>3, <2>1 DEF StPop, OrderShape
  <2> QED BY <1>3, <2>1, <2>2 DEF StPop
<1>4. CASE StPush \/ StGiveUp \/ StExit \/ StTest \/ StRetry
  <2>1. ring2' \in Seq(OrderShape)
    BY <1>4, Extend DEF StPush, StGiveUp, StExit, StTest, StRetry, StNext
  <2>2. CASE StPush
    BY <2>1, <2>2 DEF StPush, StNext
  <2>3. CASE StGiveUp
    BY <2>1, <2>3 DEF StGiveUp, StNext
  <2>4. CASE StExit \/ StTest \/ StRetry
    BY <2>1, <2>4 DEF StExit, StTest, StRetry
  <2> QED BY <1>4, <2>2, <2>3, <2>4
<1>5. CASE GwPop
  <2>1. ring2' \in Seq(OrderShape) /\ nos' \in OrderShape
    BY <1>5, Behead DEF GwPop
  <2> QED BY <1>5, <2>1 DEF GwPop
<1>6. CASE GwSend
  <2>1. nos.id \in Nat
    BY DEF OrderShape
  <2>2. wireOut' \in Seq(Nat)
    BY <1>6, <2>1, Extend DEF GwSend
  <2> QED BY <1>6, <2>2 DEF GwSend
<1>7. CASE GwRecv
  <2>1. PICK n \in 1 .. GwBatch :
           /\ n <= Len(wireIn)
           /\ rx' = SubSeq(wireIn, 1, n)
           /\ wireIn' = SubSeq(wireIn, n + 1, Len(wireIn))
    BY <1>7 DEF GwRecv
  <2>2. n \in Nat /\ n >= 1
    BY ConstantTypes
  <2>3. rx' \in Seq(ReportShape) /\ wireIn' \in Seq(ReportShape)
    BY <2>1, <2>2, Cut
  <2> QED BY <1>7, <2>3 DEF GwRecv
<1>8. CASE GwTest \/ GwIdle \/ GwNothing \/ GwPeerClosed \/ GwParsed \/ GwExit
  BY <1>8 DEF GwTest, GwIdle, GwNothing, GwPeerClosed, GwParsed, GwExit
<1>14. CASE GwLog
  <2>1. nos.id \in Nat
    BY DEF OrderShape
  <2>2. ring3' \in Seq(Nat)
    BY <1>14, <2>1, Extend DEF GwLog
  <2> QED BY <1>14, <2>2 DEF GwLog
<1>15. CASE GwParse
  <2>1. rx' \in Seq(ReportShape) /\ fills' \in Nat
    BY <1>15, Behead DEF GwParse
  <2> QED BY <1>15, <2>1 DEF GwParse
<1>9. CASE Logger \/ MxExit \/ EngClose
  <2>1. ring3' \in Seq(Nat)
    BY <1>9, Behead DEF Logger, LgPop, LgExit, MxExit, EngClose
  <2> QED BY <1>9, <2>1 DEF Logger, LgPop, LgExit, MxExit, EngClose
<1>10. CASE ExSigterm \/ ExTest \/ ExPeerClosed \/ ExReplied
  BY <1>10 DEF ExSigterm, ExTest, ExPeerClosed, ExReplied
<1>11. CASE ExRecv
  <2>1. PICK n \in 1 .. ExBatch :
           /\ n <= Len(wireOut)
           /\ exRx' = SubSeq(wireOut, 1, n)
           /\ wireOut' = SubSeq(wireOut, n + 1, Len(wireOut))
    BY <1>11 DEF ExRecv
  <2>2. n \in Nat /\ n >= 1
    BY ConstantTypes
  <2>3. exRx' \in Seq(Nat) /\ wireOut' \in Seq(Nat)
    BY <2>1, <2>2, Cut
  <2> QED BY <1>11, <2>3 DEF ExRecv
<1>12. CASE ExReply
  <2>0. Head(exRx) \in Nat /\ Tail(exRx) \in Seq(Nat)
    BY <1>12, Behead DEF ExReply
  <2>1. [id |-> Head(exRx), oid |-> exSeq + 1] \in ReportShape
    BY <2>0 DEF ReportShape
  <2>2. wireIn' \in Seq(ReportShape)
    BY <1>12, <2>1, Extend DEF ExReply
  <2>3. exRx' \in Seq(Nat) /\ exSeq' \in Nat
    BY <1>12, <2>0 DEF ExReply
  <2> QED BY <1>12, <2>2, <2>3 DEF ExReply
<1>13. CASE UNCHANGED vars \/ Over
  BY <1>13 DEF vars, Over
<1> QED
  BY <1>1, <1>2, <1>3, <1>4, <1>5, <1>6, <1>7, <1>8, <1>9, <1>10, <1>11, <1>12,
     <1>13, <1>14, <1>15 DEF Next, Strategy, Gateway, Exchange
-----------------------------------------------------------------------------
(* The flow invariant                                                      *)

\* Nothing is outstanding after the logon.
LEMMA FlowInit == Init => FlowInv
BY ConstantTypes DEF Init, FlowInv, OutstandingBounded, Outstanding

\* Lengths are natural numbers.
LEMMA Lengths ==
    ASSUME Shapes
    PROVE  Len(wireOut) \in Nat /\ Len(exRx) \in Nat /\ Len(wireIn) \in Nat
BY DEF Shapes

\* A step that touches neither the connection nor the gateway's position.
LEMMA FlowQuiet ==
    ASSUME FlowInv, UNCHANGED <<wires, exRx, exPc, gwPc>>
    PROVE  FlowInv'
BY DEF FlowInv, OutstandingBounded, Outstanding, wires

\* Every step preserves the flow invariant; the step that needs it is the
\* gateway's recv, which always follows a send.
LEMMA FlowStep == Shapes /\ FlowInv /\ [Next]_vars => FlowInv'
<1> SUFFICES ASSUME Shapes, FlowInv, [Next]_vars PROVE FlowInv'
  OBVIOUS
<1> USE DEF mdVars, stVars, txVars, rxVars, lgVars, exVars, wires, rings,
            notMd, notSt, notGw, notLg, notEx
<1>0. Len(wireOut) \in Nat /\ Len(exRx) \in Nat /\ Len(wireIn) \in Nat
  BY Lengths
<1>1. CASE EngSigterm \/ MarketData \/ Strategy \/ Logger \/ MxExit \/ EngClose
          \/ ExSigterm
  <2>1. UNCHANGED <<wires, exRx, exPc, gwPc>>
    BY <1>1 DEF EngSigterm, MarketData, MdTick, MdPush, MdGiveUp, MdExit, Strategy,
                StTest, StRetry, StPop, StPush, StGiveUp, StNext, StExit, Logger, LgPop, LgExit,
                MxExit, EngClose, ExSigterm
  <2> QED BY <2>1, FlowQuiet
<1>2. CASE GwTest \/ GwPop \/ GwIdle \/ GwLog \/ GwParse \/ GwParsed \/ GwExit
  <2>1. UNCHANGED <<wires, exRx, exPc>>
    BY <1>2 DEF GwTest, GwPop, GwIdle, GwLog, GwParse, GwParsed, GwExit
  <2>2. gwPc \in {"log", "recv"} => gwPc' \in {"log", "recv"}
    BY <1>2 DEF GwTest, GwPop, GwIdle, GwLog, GwParse, GwParsed, GwExit
  <2> QED
    BY <1>0, <2>1, <2>2, ConstantTypes DEF FlowInv, OutstandingBounded, Outstanding
<1>3. CASE GwSend
  <2>1. gwPc = "send" /\ gwPc' = "log" /\ UNCHANGED <<wireIn, exRx, exPc>>
    BY <1>3 DEF GwSend
  <2>2. \/ Len(wireOut') = Len(wireOut) /\ Len(wireOut') <= OutCap
        \/ Len(wireOut') = Len(wireOut) + 1 /\ Len(wireOut') <= OutCap
    <3>1. nos.id \in Nat /\ wireOut \in Seq(Nat)
      BY DEF Shapes, OrderShape
    <3>2. Len(Append(wireOut, nos.id)) = Len(wireOut) + 1
      BY <3>1, Extend
    <3> QED BY <1>0, <1>3, <3>2, ConstantTypes DEF GwSend, FlowInv
  <2> QED
    BY <1>0, <2>1, <2>2, ConstantTypes DEF FlowInv, OutstandingBounded, Outstanding
<1>4. CASE GwRecv
  <2>1. PICK n \in 1 .. GwBatch :
           n <= Len(wireIn) /\ wireIn' = SubSeq(wireIn, n + 1, Len(wireIn))
    BY <1>4 DEF GwRecv
  <2>2. n \in Nat /\ n >= 1
    BY ConstantTypes
  <2>3. Len(wireIn') = Len(wireIn) - n
    BY <2>1, <2>2, Cut DEF Shapes
  <2>4. gwPc = "recv" /\ gwPc' = "parse" /\ UNCHANGED <<wireOut, exRx, exPc>>
    BY <1>4 DEF GwRecv
  <2> QED
    BY <1>0, <2>2, <2>3, <2>4, ConstantTypes
       DEF FlowInv, OutstandingBounded, Outstanding
<1>5. CASE GwNothing \/ GwPeerClosed
  <2>1. /\ Len(wireIn) = 0 /\ gwPc' \notin {"log", "recv"}
        /\ UNCHANGED <<wireOut, wireIn, exRx, exPc>>
    BY <1>5 DEF GwNothing, GwPeerClosed
  <2> QED
    BY <1>0, <2>1, ConstantTypes DEF FlowInv, OutstandingBounded, Outstanding
<1>6. CASE ExTest \/ ExPeerClosed
  <2>1. exPc # "reply" /\ UNCHANGED <<wireOut, wireIn, exRx, gwPc>>
    BY <1>6 DEF ExTest, ExPeerClosed
  <2> QED BY <2>1 DEF FlowInv, OutstandingBounded, Outstanding
<1>7. CASE ExRecv
  <2>1. PICK n \in 1 .. ExBatch :
           /\ n <= Len(wireOut)
           /\ exRx' = SubSeq(wireOut, 1, n)
           /\ wireOut' = SubSeq(wireOut, n + 1, Len(wireOut))
    BY <1>7 DEF ExRecv
  <2>2. n \in Nat /\ n >= 1 /\ n <= ExBatch
    BY ConstantTypes
  <2>3. Len(exRx') = n /\ Len(wireOut') = Len(wireOut) - n
    BY <2>1, <2>2, Cut DEF Shapes
  <2>4. exPc' = "reply" /\ Len(exRx) = 0 /\ UNCHANGED <<wireIn, gwPc>>
    BY <1>7 DEF ExRecv, FlowInv
  <2> QED
    BY <1>0, <2>2, <2>3, <2>4, ConstantTypes
       DEF FlowInv, OutstandingBounded, Outstanding
<1>8. CASE ExReply
  <2>1. exPc = "reply" /\ exPc' = exPc /\ UNCHANGED <<wireOut, gwPc>>
    BY <1>8 DEF ExReply
  <2>2. Len(exRx') = Len(exRx) - 1 /\ Head(exRx) \in Nat
    BY <1>8, Behead DEF ExReply, Shapes
  <2>3. Len(wireIn') = Len(wireIn) \/ Len(wireIn') = Len(wireIn) + 1
    <3>1. [id |-> Head(exRx), oid |-> exSeq + 1] \in ReportShape
      BY <2>2 DEF Shapes, ReportShape
    <3> QED BY <1>8, <3>1, Extend DEF ExReply, Shapes
  <2> QED
    BY <1>0, <2>1, <2>2, <2>3, ConstantTypes
       DEF FlowInv, OutstandingBounded, Outstanding
<1>9. CASE ExReplied
  <2>1. exRx = << >> /\ UNCHANGED <<wireOut, wireIn, exRx, gwPc>>
    BY <1>9 DEF ExReplied
  <2> QED BY <2>1 DEF FlowInv, OutstandingBounded, Outstanding
<1>10. CASE UNCHANGED vars \/ Over
  <2>1. UNCHANGED <<wires, exRx, exPc, gwPc>>
    BY <1>10 DEF vars, Over
  <2> QED BY <2>1, FlowQuiet
<1> QED
  BY <1>1, <1>2, <1>3, <1>4, <1>5, <1>6, <1>7, <1>8, <1>9, <1>10
     DEF Next, Gateway, Exchange

\* What is outstanding between gateway and exchange never exceeds the
\* buffer towards the exchange, one batch and one order (run_gateway sends
\* one order per turn and reads in every turn).
THEOREM FlowInvariant == Spec => []FlowInv
BY ShapesInit, ShapesStep, FlowInit, FlowStep, PTL DEF Spec

\* With that bound, the buffer back to the engine cannot be full while the
\* gateway waits to send.
LEMMA FlowFree == Shapes /\ FlowInv => NoMutualBlock
<1> SUFFICES ASSUME Shapes, FlowInv, gwPc = "send", Len(wireOut) = OutCap,
                    exRx # << >>, Len(wireIn) = InCap
             PROVE  FALSE
  BY DEF NoMutualBlock
<1>1. Len(exRx) >= 1
  BY Behead, Lengths DEF Shapes
<1> QED
  BY <1>1, Lengths, ConstantTypes DEF FlowInv, OutstandingBounded, Outstanding

\* send_all in run_gateway and send_all in the exchange's handler never
\* wait on one another, for every size of buffers and batches with
\* InCap > ExBatch.
THEOREM NeverBothBlocked == Spec => []NoMutualBlock
BY ShapesInit, ShapesStep, FlowInit, FlowStep, FlowFree, PTL DEF Spec
-----------------------------------------------------------------------------
(* Order on the way from the market data to the gateway                    *)

\* Ticks that the strategy has popped from ring1
TicksTaken == clordid - 1 + (IF stPc = "push" THEN 1 ELSE 0)

\* ring1 holds the ticks behind those, in order; only a shutdown may make
\* the market-data thread drop one, and then it is the last.
TicksInOrder ==
    /\ \A i \in 1 .. Len(ring1) : ring1[i] = TicksTaken + i
    /\ TicksTaken + Len(ring1) <= seq
    /\ running \/ mdPc = "push" => seq = TicksTaken + Len(ring1)
    /\ seq <= MaxTicks /\ (mdPc = "push" => seq < MaxTicks)
    /\ clordid >= 1
    /\ stPc = "push" => order.id = clordid
    /\ order.t0 = order.id /\ order.id <= TicksTaken

\* ring2 holds the orders behind the last one that the gateway popped; the
\* strategy drops an order at shutdown only, and makes none after it.
OrdersInOrder ==
    /\ \A i \in 1 .. Len(ring2) : ring2[i].id = nos.id + i /\ ring2[i].t0 = nos.id + i
    /\ nos.t0 = nos.id
    /\ nos.id + Len(ring2) < clordid
    /\ running \/ stPc \in {"pop", "push"} => nos.id + Len(ring2) = clordid - 1

\* Appending the successor of what a queue ends with keeps it in order.
LEMMA InOrderAppend ==
    ASSUME NEW s \in Seq(Nat), NEW k \in Nat,
           \A i \in 1 .. Len(s) : s[i] = k + i
    PROVE  \A i \in 1 .. Len(Append(s, k + Len(s) + 1)) :
              Append(s, k + Len(s) + 1)[i] = k + i
OBVIOUS

\* So does taking the first element, which is the next number.
LEMMA InOrderTail ==
    ASSUME NEW s \in Seq(Nat), NEW k \in Nat, s # << >>,
           \A i \in 1 .. Len(s) : s[i] = k + i
    PROVE  /\ Head(s) = k + 1
           /\ \A i \in 1 .. Len(Tail(s)) : Tail(s)[i] = k + 1 + i
OBVIOUS

\* The empty pipeline is in order.
LEMMA TicksInit == Init => TicksInOrder
BY ConstantTypes DEF Init, TicksInOrder, TicksTaken, NoOrder

\* Every step of a thread keeps the ticks in order.
LEMMA TicksStep == Shapes /\ TicksInOrder /\ [Next]_vars => TicksInOrder'
<1> SUFFICES ASSUME Shapes, TicksInOrder, [Next]_vars PROVE TicksInOrder'
  OBVIOUS
<1> USE DEF mdVars, stVars, txVars, rxVars, lgVars, exVars, wires, rings,
            notMd, notSt, notGw, notLg, notEx
<1>0. /\ seq \in Nat /\ clordid \in Nat /\ Len(ring1) \in Nat /\ ring1 \in Seq(Nat)
      /\ TicksTaken \in Nat /\ MaxTicks \in Nat
  <2>1. clordid >= 1
    BY DEF TicksInOrder
  <2>2. TicksTaken \in Nat
    BY <2>1, ShapeTypes DEF TicksTaken
  <2> QED BY <2>2, ShapeTypes, ConstantTypes
<1>1. CASE MdTick
  BY <1>0, <1>1 DEF MdTick, TicksInOrder, TicksTaken
<1>2. CASE MdPush
  <2>1. seq = TicksTaken + Len(ring1) /\ seq < MaxTicks
    BY <1>2 DEF MdPush, TicksInOrder
  <2>2. /\ ring1' = Append(ring1, TicksTaken + Len(ring1) + 1) /\ Len(ring1') = Len(ring1) + 1
    BY <1>0, <1>2, <2>1, Extend DEF MdPush
  <2>3. TicksTaken' = TicksTaken
    BY <1>2 DEF MdPush, TicksTaken
  <2>4. \A i \in 1 .. Len(ring1') : ring1'[i] = TicksTaken + i
    BY <1>0, <2>2, InOrderAppend DEF TicksInOrder
  <2>5. seq' = seq + 1 /\ mdPc' = "loop" /\ UNCHANGED <<stPc, clordid, order>>
    BY <1>2 DEF MdPush
  <2> QED BY <1>0, <2>1, <2>2, <2>3, <2>4, <2>5 DEF TicksInOrder
<1>3. CASE MdGiveUp
  <2>1. TicksTaken' = TicksTaken
    BY <1>3 DEF MdGiveUp, TicksTaken
  <2> QED BY <1>0, <1>3, <2>1 DEF MdGiveUp, TicksInOrder
<1>4. CASE StPop
  <2>1. /\ Head(ring1) = TicksTaken + 1 /\ ring1' = Tail(ring1)
        /\ \A i \in 1 .. Len(ring1') : ring1'[i] = TicksTaken + 1 + i
        /\ Len(ring1') = Len(ring1) - 1
    BY <1>0, <1>4, InOrderTail, Behead DEF StPop, TicksInOrder
  <2>2. TicksTaken = clordid - 1 /\ TicksTaken' = clordid
    BY <1>0, <1>4 DEF StPop, TicksTaken
  <2>3. order'.id = clordid /\ order'.t0 = Head(ring1)
    BY <1>4 DEF StPop
  <2>4. UNCHANGED <<running, mdPc, seq, clordid>>
    BY <1>4 DEF StPop
  <2> QED BY <1>0, <2>1, <2>2, <2>3, <2>4 DEF TicksInOrder
<1>5. CASE StPush \/ StGiveUp
  <2>1. /\ stPc = "push" /\ stPc' = "loop" /\ clordid' = clordid + 1
        /\ UNCHANGED <<running, mdPc, seq, ring1, order>>
    BY <1>5 DEF StPush, StGiveUp, StNext
  <2>2. TicksTaken' = TicksTaken
    BY <1>0, <2>1 DEF TicksTaken
  <2> QED BY <1>0, <2>1, <2>2 DEF TicksInOrder
<1>6. CASE EngSigterm
  BY <1>6 DEF EngSigterm, TicksInOrder, TicksTaken
<1>7. CASE MdExit
  BY <1>7 DEF MdExit, TicksInOrder, TicksTaken
<1>8. CASE StTest \/ StRetry \/ StExit
  <2>1. /\ stPc # "push" /\ stPc' # "push"
        /\ UNCHANGED <<running, mdPc, seq, ring1, clordid, order>>
    BY <1>8 DEF StTest, StRetry, StExit
  <2> QED BY <2>1 DEF TicksInOrder, TicksTaken
<1>9. CASE Gateway \/ Logger \/ MxExit \/ EngClose \/ ExSigterm \/ Exchange \/ Over \/ UNCHANGED vars
  <2>1. UNCHANGED <<running, mdVars, stVars, ring1>>
    BY <1>9 DEF Gateway, GwTest, GwPop, GwIdle, GwSend, GwLog, GwRecv, GwNothing, GwPeerClosed,
                GwParse, GwParsed, GwExit, Logger, LgPop, LgExit, MxExit, EngClose, ExSigterm,
                Exchange, ExTest, ExRecv, ExPeerClosed, ExReply, ExReplied, Over, vars
  <2> QED BY <2>1 DEF TicksInOrder, TicksTaken
<1> QED
  BY <1>1, <1>2, <1>3, <1>4, <1>5, <1>6, <1>7, <1>8, <1>9 DEF Next, MarketData, Strategy

\* The empty pipeline is in order.
LEMMA OrdersInit == Init => OrdersInOrder
BY DEF Init, OrdersInOrder, NoOrder

\* Every step of a thread keeps the orders in order.
LEMMA OrdersStep == Shapes /\ TicksInOrder /\ OrdersInOrder /\ [Next]_vars => OrdersInOrder'
<1> SUFFICES ASSUME Shapes, TicksInOrder, OrdersInOrder, [Next]_vars PROVE OrdersInOrder'
  OBVIOUS
<1> USE DEF mdVars, stVars, txVars, rxVars, lgVars, exVars, wires, rings,
            notMd, notSt, notGw, notLg, notEx
<1>0. /\ clordid \in Nat /\ ring2 \in Seq(OrderShape) /\ Len(ring2) \in Nat
      /\ order \in OrderShape /\ nos \in OrderShape /\ nos.id \in Nat
  BY DEF Shapes, OrderShape
<1>1. CASE StPush
  <2>1. /\ ring2' = Append(ring2, order) /\ clordid' = clordid + 1 /\ stPc' = "loop"
        /\ UNCHANGED nos /\ stPc = "push"
    BY <1>1 DEF StPush, StNext
  <2>2. Len(ring2') = Len(ring2) + 1
    BY <1>0, <2>1, Extend
  <2>3. order.id = nos.id + Len(ring2) + 1 /\ order.t0 = order.id
    BY <1>0, <2>1 DEF OrdersInOrder, TicksInOrder
  <2>4. ASSUME NEW i \in 1 .. Len(ring2')
        PROVE  ring2'[i].id = nos.id + i /\ ring2'[i].t0 = nos.id + i
    <3>1. CASE i \in 1 .. Len(ring2)
      <4>1. ring2'[i] = ring2[i]
        BY <1>0, <2>1, <3>1
      <4> QED BY <3>1, <4>1 DEF OrdersInOrder
    <3>2. CASE i = Len(ring2) + 1
      <4>1. ring2'[i] = order
        BY <1>0, <2>1, <3>2
      <4> QED BY <1>0, <2>3, <3>2, <4>1
    <3> QED BY <1>0, <2>2, <3>1, <3>2
  <2>5. nos.id + Len(ring2) = clordid - 1
    BY <2>1 DEF OrdersInOrder
  <2>6. nos'.id + Len(ring2') < clordid' /\ nos'.id + Len(ring2') = clordid' - 1
    BY <1>0, <2>1, <2>2, <2>5
  <2>7. \A i \in 1 .. Len(ring2') : ring2'[i].id = nos'.id + i /\ ring2'[i].t0 = nos'.id + i
    BY <2>1, <2>4
  <2> QED BY <2>1, <2>6, <2>7 DEF OrdersInOrder
<1>2. CASE StGiveUp
  <2>1. /\ UNCHANGED <<running, ring2, nos>> /\ clordid' = clordid + 1 /\ stPc' = "loop" /\ ~running
    BY <1>2 DEF StGiveUp, StNext
  <2> QED BY <1>0, <2>1 DEF OrdersInOrder
<1>3. CASE StTest
  BY <1>3 DEF StTest, OrdersInOrder
<1>4. CASE StPop
  BY <1>4 DEF StPop, OrdersInOrder
<1>5. CASE StRetry \/ StExit
  BY <1>5 DEF StRetry, StExit, OrdersInOrder
<1>6. CASE EngSigterm
  BY <1>6 DEF EngSigterm, OrdersInOrder
<1>7. CASE GwPop
  <2>1. /\ ring2 # << >> /\ ring2' = Tail(ring2) /\ nos' = Head(ring2)
        /\ UNCHANGED <<running, stPc, clordid>>
    BY <1>7 DEF GwPop
  <2>2. Len(ring2') = Len(ring2) - 1 /\ Len(ring2) >= 1 /\ Head(ring2) = ring2[1]
    BY <1>0, <2>1, Behead
  <2>3. nos'.id = nos.id + 1 /\ nos'.t0 = nos.id + 1
    BY <1>0, <2>1, <2>2 DEF OrdersInOrder
  <2>4. \A i \in 1 .. Len(ring2') : ring2'[i] = ring2[i + 1] /\ i + 1 \in 1 .. Len(ring2)
    <3>1. \A i \in 1 .. Len(Tail(ring2)) : Tail(ring2)[i] = ring2[i + 1]
      BY <1>0, <2>1
    <3> QED BY <1>0, <2>1, <2>2, <3>1
  <2>5. ASSUME NEW i \in 1 .. Len(ring2')
        PROVE  ring2'[i].id = nos'.id + i /\ ring2'[i].t0 = nos'.id + i
    <3>1. ring2'[i].id = nos.id + (i + 1) /\ ring2'[i].t0 = nos.id + (i + 1)
      BY <2>4 DEF OrdersInOrder
    <3>2. i \in Nat /\ nos.id \in Nat
      BY <1>0, <2>2
    <3>3. nos.id + (i + 1) = nos.id + 1 + i
      BY <3>2
    <3> QED BY <2>3, <3>1, <3>3
  <2> QED BY <1>0, <2>1, <2>2, <2>3, <2>5 DEF OrdersInOrder
<1>8. CASE \/ MarketData \/ GwTest \/ GwIdle \/ GwSend \/ GwLog \/ GwRecv \/ GwNothing \/ GwPeerClosed
           \/ GwParse \/ GwParsed \/ GwExit \/ Logger \/ MxExit \/ EngClose \/ ExSigterm
           \/ Exchange \/ Over \/ UNCHANGED vars
  <2>1. UNCHANGED <<running, stVars, ring2, nos>>
    BY <1>8 DEF MarketData, MdTick, MdPush, MdGiveUp, MdExit,
                GwTest, GwIdle, GwSend, GwLog, GwRecv, GwNothing, GwPeerClosed,
                GwParse, GwParsed, GwExit, Logger, LgPop, LgExit, MxExit, EngClose, ExSigterm,
                Exchange, ExTest, ExRecv, ExPeerClosed, ExReply, ExReplied, Over, vars
  <2> QED BY <2>1 DEF OrdersInOrder
<1> QED
  BY <1>1, <1>2, <1>3, <1>4, <1>5, <1>6, <1>7, <1>8 DEF Next, Strategy, Gateway
-----------------------------------------------------------------------------
(* Where the threads are                                                   *)

Places ==
    /\ running \in BOOLEAN /\ engUp \in BOOLEAN
    /\ exRun \in BOOLEAN /\ exUp \in BOOLEAN /\ ctx \in BOOLEAN
    /\ mdPc \in {"loop", "push", "done"}
    /\ stPc \in {"loop", "pop", "push", "done"}
    /\ gwPc \in {"loop", "pop", "send", "log", "recv", "parse", "done"}
    /\ lgPc \in {"loop", "done"} /\ mxPc \in {"loop", "done"}
    /\ exPc \in {"test", "recv", "reply", "done"}

\* A connection lasts as long as its program, and what was read is there
\* only where the code is about to handle it.
PlaceInv ==
    /\ exUp <=> exPc # "done"
    /\ ~engUp => gwPc = "done"
    /\ rx # <<>> => gwPc = "parse"
    /\ exRx # <<>> => exPc = "reply"

\* A context is out of the pool exactly while an order is being pushed.
ContextKept ==
    /\ ctx => stPc = "push" /\ free + 1 = PoolSize
    /\ ~ctx => free = PoolSize
    /\ free \in Nat

\* All threads start at the top of their loops.
LEMMA PlacesInit == Init => Places /\ PlaceInv /\ ContextKept
<1> SUFFICES ASSUME Init PROVE Places /\ PlaceInv /\ ContextKept
  OBVIOUS
<1>1. Places
  BY DEF Init, Places
<1>2. PlaceInv
  BY DEF Init, PlaceInv
<1>3. ContextKept
  BY ConstantTypes DEF Init, ContextKept
<1> QED BY <1>1, <1>2, <1>3

\* Every step leads from one place to another.
LEMMA PlacesStep == Places /\ PlaceInv /\ [Next]_vars => Places' /\ PlaceInv'
<1> SUFFICES ASSUME Places, PlaceInv, [Next]_vars PROVE Places' /\ PlaceInv'
  OBVIOUS
<1> USE DEF mdVars, stVars, txVars, rxVars, lgVars, exVars, wires, rings,
            notMd, notSt, notGw, notLg, notEx, Places, PlaceInv
<1>1. CASE EngSigterm
  <2>1. running' \in BOOLEAN
    BY <1>1, Zenon DEF EngSigterm
  <2>2. UNCHANGED <<mdPc, stPc, ctx, gwPc, rx, lgPc, mxPc, engUp, exRun, exPc, exRx, exUp>>
    BY <1>1 DEF EngSigterm
  <2> QED BY <2>1, <2>2
<1>2. CASE MarketData
  BY <1>2 DEF MarketData, MdTick, MdPush, MdGiveUp, MdExit
<1>3. CASE StTest \/ StRetry \/ StExit
  BY <1>3 DEF StTest, StRetry, StExit
<1>4. CASE StPop
  <2>1. ctx' \in BOOLEAN
    BY <1>4 DEF StPop
  <2> QED BY <1>4, <2>1 DEF StPop
<1>5. CASE StPush \/ StGiveUp
  <2>1. /\ ctx' = FALSE /\ stPc' = "loop"
        /\ UNCHANGED <<running, mdPc, gwPc, lgPc, mxPc, engUp, exVars, rx>>
    BY <1>5 DEF StPush, StGiveUp, StNext
  <2> QED BY <2>1
<1>6. CASE GwTest \/ GwPop \/ GwIdle \/ GwSend \/ GwLog \/ GwNothing \/ GwPeerClosed \/ GwExit
  BY <1>6 DEF GwTest, GwPop, GwIdle, GwSend, GwLog, GwNothing, GwPeerClosed, GwExit
<1>7. CASE GwRecv \/ GwParse \/ GwParsed
  <2>1. /\ gwPc' \in {"parse", "loop"} /\ gwPc # "done"
        /\ rx' # << >> => gwPc' = "parse"
        /\ UNCHANGED <<running, mdVars, stVars, lgVars, engUp, exVars>>
    BY <1>7 DEF GwRecv, GwParse, GwParsed
  <2> QED BY <2>1
<1>8. CASE Logger \/ MxExit
  BY <1>8 DEF Logger, LgPop, LgExit, MxExit
<1>9. CASE EngClose
  BY <1>9 DEF EngClose, Joined
<1>10. CASE ExSigterm
  <2>1. exRun' \in BOOLEAN
    BY <1>10, Zenon DEF ExSigterm
  <2>2. UNCHANGED <<running, mdPc, stPc, ctx, gwPc, rx, lgPc, mxPc, engUp, exPc, exRx, exUp>>
    BY <1>10 DEF ExSigterm
  <2> QED BY <2>1, <2>2
<1>13. CASE ExTest
  <2>1. /\ exPc = "test" /\ UNCHANGED <<running, mdVars, stVars, gwPc, rx, lgVars, engUp, exRun, exRx>>
        /\ exPc' = (IF exRun THEN "recv" ELSE "done") /\ exUp' = exRun
    BY <1>13 DEF ExTest
  <2>2. exRun \in BOOLEAN /\ exRx = << >>
    BY <2>1
  <2>3. (exUp' <=> exPc' # "done") /\ exUp' \in BOOLEAN /\ exPc' \in {"recv", "done"}
    <3>1. CASE exRun = TRUE
      BY <2>1, <3>1
    <3>2. CASE exRun = FALSE
      BY <2>1, <3>2
    <3> QED BY <2>2, <3>1, <3>2
  <2> QED BY <2>1, <2>2, <2>3, Zenon
<1>14. CASE ExPeerClosed \/ ExReplied
  BY <1>14 DEF ExPeerClosed, ExReplied
<1>11. CASE ExRecv \/ ExReply
  <2>1. /\ exPc' = "reply" /\ exPc \in {"recv", "reply"}
        /\ UNCHANGED <<running, mdVars, stVars, gwPc, rx, lgVars, engUp, exRun, exUp>>
    BY <1>11 DEF ExRecv, ExReply
  <2> QED BY <2>1
<1>12. CASE UNCHANGED vars \/ Over
  BY <1>12 DEF vars, Over
<1> QED
  BY <1>1, <1>2, <1>3, <1>4, <1>5, <1>6, <1>7, <1>8, <1>9, <1>10, <1>11, <1>12, <1>13, <1>14
     DEF Next, Strategy, Gateway, Exchange

\* acquire and release of the strategy's context are paired.
LEMMA ContextStep == ContextKept /\ [Next]_vars => ContextKept'
<1> SUFFICES ASSUME ContextKept, [Next]_vars PROVE ContextKept'
  OBVIOUS
<1> USE DEF mdVars, stVars, txVars, rxVars, lgVars, exVars, wires, rings,
            notMd, notSt, notGw, notLg, notEx
<1>1. CASE StTest \/ StRetry \/ StExit
  BY <1>1 DEF StTest, StRetry, StExit, ContextKept
<1>2. CASE StPop
  <2>1. ~ctx /\ free = PoolSize /\ free \in Nat
    BY <1>2 DEF StPop, ContextKept
  <2>2. /\ ctx' = (free > 0) /\ free' = (IF free > 0 THEN free - 1 ELSE free)
        /\ stPc' = "push"
    BY <1>2 DEF StPop
  <2>3. CASE free > 0
    <3>1. ctx' = TRUE
      BY <2>2, <2>3
    <3> QED BY <2>1, <2>2, <2>3, <3>1 DEF ContextKept
  <2>4. CASE ~(free > 0)
    <3>1. ~ctx'
      BY <2>2, <2>4
    <3> QED BY <2>1, <2>2, <2>4, <3>1 DEF ContextKept
  <2> QED BY <2>3, <2>4
<1>3. CASE StPush \/ StGiveUp
  <2>1. free' = (IF ctx THEN free + 1 ELSE free) /\ ctx' = FALSE
    BY <1>3 DEF StPush, StGiveUp, StNext
  <2> QED BY <2>1 DEF ContextKept
<1>4. CASE \/ EngSigterm \/ MarketData \/ Gateway \/ Logger \/ MxExit \/ EngClose
           \/ ExSigterm \/ Exchange \/ Over \/ UNCHANGED vars
  <2>1. UNCHANGED stVars
    BY <1>4 DEF EngSigterm, MarketData, MdTick, MdPush, MdGiveUp, MdExit,
                Gateway, GwTest, GwPop, GwIdle, GwSend, GwLog, GwRecv, GwNothing, GwPeerClosed,
                GwParse, GwParsed, GwExit, Logger, LgPop, LgExit, MxExit, EngClose, ExSigterm,
                Exchange, ExTest, ExRecv, ExPeerClosed, ExReply, ExReplied, Over, vars
  <2> QED BY <2>1 DEF ContextKept
<1> QED BY <1>1, <1>2, <1>3, <1>4 DEF Next, Strategy
-----------------------------------------------------------------------------
(* The gateway's counters                                                  *)

\* Orders that send_all has taken
OrdersSent == IF gwPc = "send" THEN nos.id - 1 ELSE nos.id
Beyond(n) == IF n > Warmup THEN n - Warmup ELSE 0

\* The id of the last order popped counts the orders, so each histogram
\* has a sample for every order or fill beyond the warm-up.
Counted == /\ orders = OrdersSent
           /\ t2t = Beyond(nos.id) /\ rtt = Beyond(fills)

\* Nothing is counted at the start.
LEMMA CountedInit == Init => Counted
BY ConstantTypes DEF Init, Counted, OrdersSent, Beyond, NoOrder

\* Every step keeps the counters together.
LEMMA CountedStep == Shapes /\ OrdersInOrder /\ Counted /\ [Next]_vars => Counted'
<1> SUFFICES ASSUME Shapes, OrdersInOrder, Counted, [Next]_vars PROVE Counted'
  OBVIOUS
<1> USE DEF mdVars, stVars, txVars, rxVars, lgVars, exVars, wires, rings,
            notMd, notSt, notGw, notLg, notEx
<1>0. nos.id \in Nat /\ fills \in Nat /\ orders \in Nat /\ Warmup \in Nat
  BY ShapeTypes, ConstantTypes
<1>1. CASE GwPop
  <2>1. /\ gwPc = "pop" /\ gwPc' = "send" /\ UNCHANGED <<orders, fills, rtt>>
        /\ t2t' = IF orders >= Warmup THEN t2t + 1 ELSE t2t
        /\ nos' = Head(ring2) /\ ring2 # << >>
    BY <1>1 DEF GwPop
  <2>2. nos'.id = nos.id + 1
    <3>1. Head(ring2) = ring2[1] /\ 1 \in 1 .. Len(ring2)
      BY <2>1, Behead DEF Shapes
    <3> QED BY <2>1, <3>1 DEF OrdersInOrder
  <2>3. orders = nos.id
    BY <2>1 DEF Counted, OrdersSent
  <2> QED BY <1>0, <2>1, <2>2, <2>3 DEF Counted, OrdersSent, Beyond
<1>2. CASE GwSend
  BY <1>0, <1>2 DEF GwSend, Counted, OrdersSent
<1>3. CASE GwParse
  BY <1>0, <1>3 DEF GwParse, Counted, OrdersSent, Beyond
<1>4. CASE \/ GwTest \/ GwIdle \/ GwLog \/ GwRecv \/ GwNothing \/ GwPeerClosed
           \/ GwParsed \/ GwExit
  <2>1. gwPc # "send" /\ gwPc' # "send" /\ UNCHANGED <<nos, orders, fills, t2t, rtt>>
    BY <1>4 DEF GwTest, GwIdle, GwLog, GwRecv, GwNothing, GwPeerClosed, GwParsed, GwExit
  <2> QED BY <2>1 DEF Counted, OrdersSent
<1>5. CASE \/ EngSigterm \/ MarketData \/ Strategy \/ Logger \/ MxExit \/ EngClose
           \/ ExSigterm \/ Exchange \/ Over \/ UNCHANGED vars
  <2>1. UNCHANGED <<gwPc, nos, orders, fills, t2t, rtt>>
    BY <1>5 DEF EngSigterm, MarketData, MdTick, MdPush, MdGiveUp, MdExit, Strategy,
                StTest, StRetry, StPop, StPush, StGiveUp, StNext, StExit, Logger, LgPop, LgExit,
                MxExit, EngClose, ExSigterm, Exchange, ExTest, ExRecv, ExPeerClosed, ExReply,
                ExReplied, Over, vars
  <2> QED BY <2>1 DEF Counted, OrdersSent
<1> QED
  BY <1>1, <1>2, <1>3, <1>4, <1>5 DEF Next, Gateway
-----------------------------------------------------------------------------
(* The log                                                                 *)

\* A logger that has ended left an empty ring behind while g_running was
\* down, and the gateway passes GwLog at most once more.
LastEvent ==
    lgPc = "done" =>
        /\ ~running
        /\ ring3 # <<>> => ring3 = <<nos.id>> /\ gwPc \notin {"pop", "send", "log"}

\* The logger starts in its loop.
LEMMA LastEventInit == Init => LastEvent
BY DEF Init, LastEvent

\* Every step keeps the log's last event the gateway's last order.
LEMMA LastEventStep == Shapes /\ LastEvent /\ [Next]_vars => LastEvent'
<1> SUFFICES ASSUME Shapes, LastEvent, [Next]_vars PROVE LastEvent'
  OBVIOUS
<1> USE DEF mdVars, stVars, txVars, rxVars, lgVars, exVars, wires, rings,
            notMd, notSt, notGw, notLg, notEx
<1>1. CASE GwLog
  <2>1. /\ gwPc = "log" /\ gwPc' = "recv" /\ UNCHANGED <<lgPc, running, nos>>
        /\ ring3' = IF Len(ring3) < RingCap THEN Append(ring3, nos.id) ELSE ring3
    BY <1>1 DEF GwLog
  <2>2. Append(<< >>, nos.id) = <<nos.id>>
    OBVIOUS
  <2> QED BY <2>1, <2>2 DEF LastEvent
<1>2. CASE GwTest
  BY <1>2 DEF GwTest, LastEvent
<1>3. CASE GwPop \/ GwIdle
  BY <1>3 DEF GwPop, GwIdle, LastEvent
<1>4. CASE GwSend
  BY <1>4 DEF GwSend, LastEvent
<1>5. CASE GwRecv \/ GwNothing \/ GwPeerClosed \/ GwParse \/ GwParsed \/ GwExit
  <2>1. /\ UNCHANGED <<running, lgPc, ring3, nos>>
        /\ gwPc' \in {"parse", "loop", "done"}
    BY <1>5 DEF GwRecv, GwNothing, GwPeerClosed, GwParse, GwParsed, GwExit
  <2> QED BY <2>1 DEF LastEvent
<1>6. CASE LgPop
  BY <1>6 DEF LgPop, LastEvent
<1>7. CASE LgExit
  BY <1>7 DEF LgExit, LastEvent
<1>8. CASE \/ EngSigterm \/ MarketData \/ Strategy \/ MxExit \/ EngClose
           \/ ExSigterm \/ Exchange \/ Over \/ UNCHANGED vars
  <2>1. UNCHANGED <<gwPc, nos, lgPc, ring3>> /\ (running' => running)
    BY <1>8 DEF EngSigterm, MarketData, MdTick, MdPush, MdGiveUp, MdExit, Strategy,
                StTest, StRetry, StPop, StPush, StGiveUp, StNext, StExit,
                MxExit, EngClose, ExSigterm, Exchange, ExTest, ExRecv, ExPeerClosed, ExReply,
                ExReplied, Over, vars
  <2> QED BY <2>1 DEF LastEvent
<1> QED
  BY <1>1, <1>2, <1>3, <1>4, <1>5, <1>6, <1>7, <1>8 DEF Next, Gateway, Logger
-----------------------------------------------------------------------------
(* Order on the connection                                                 *)

\* Fills that the gateway has read, and orders that the exchange answered
Received == fills + Len(rx)
Answered == Received + Len(wireIn)

\* What comes back are the fills behind the last one counted.
FillsInOrder ==
    /\ \A i \in 1 .. Len(rx) : rx[i].id = fills + i
    /\ \A i \in 1 .. Len(wireIn) : /\ wireIn[i].id = Received + i
                                   /\ wireIn[i].oid = Received + i + 2
    /\ Answered <= OrdersSent

\* While the connection lasts, all that was sent is on it.
NothingDropped ==
    exUp /\ engUp =>
        /\ Answered + Len(exRx) + Len(wireOut) = OrdersSent
        /\ exSeq = Answered + 2
        /\ \A i \in 1 .. Len(exRx) : exRx[i] = Answered + i
        /\ \A i \in 1 .. Len(wireOut) : wireOut[i] = Answered + Len(exRx) + i

\* The elements of the two parts of a buffer.
LEMMA CutElements ==
    ASSUME NEW S, NEW s \in Seq(S), NEW n \in Nat, n >= 1, n <= Len(s)
    PROVE  /\ \A i \in 1 .. n : SubSeq(s, 1, n)[i] = s[i] /\ i \in 1 .. Len(s)
           /\ \A i \in 1 .. Len(s) - n :
                 SubSeq(s, n + 1, Len(s))[i] = s[n + i] /\ n + i \in 1 .. Len(s)
OBVIOUS

\* The elements behind the first.
LEMMA BeheadElements ==
    ASSUME NEW S, NEW s \in Seq(S), s # << >>
    PROVE  /\ Head(s) = s[1] /\ 1 \in 1 .. Len(s)
           /\ \A i \in 1 .. Len(s) - 1 : Tail(s)[i] = s[i + 1] /\ i + 1 \in 1 .. Len(s)
OBVIOUS

\* The elements of an extended queue.
LEMMA ExtendElements ==
    ASSUME NEW S, NEW s \in Seq(S), NEW e \in S
    PROVE  /\ \A i \in 1 .. Len(s) : Append(s, e)[i] = s[i]
           /\ Append(s, e)[Len(s) + 1] = e
OBVIOUS

\* Nothing is under way after the logon, whose answer had number 1.
LEMMA FillsInit == Init => FillsInOrder /\ NothingDropped
BY DEF Init, FillsInOrder, NothingDropped, Answered, Received, OrdersSent, NoOrder

\* What the steps below know of the types.
LEMMA ConnectionTypes ==
    ASSUME Shapes
    PROVE  /\ fills \in Nat /\ Len(rx) \in Nat /\ Len(wireIn) \in Nat /\ Len(exRx) \in Nat
           /\ Len(wireOut) \in Nat /\ nos.id \in Nat /\ exSeq \in Nat
           /\ Received \in Nat /\ Answered \in Nat /\ OrdersSent \in Int
           /\ rx \in Seq(ReportShape) /\ wireIn \in Seq(ReportShape)
           /\ exRx \in Seq(Nat) /\ wireOut \in Seq(Nat)
BY DEF Shapes, Received, Answered, OrdersSent, OrderShape

\* The next order of ring2 has the next id.
LEMMA NextOrder ==
    ASSUME Shapes, OrdersInOrder, ring2 # << >>
    PROVE  Head(ring2).id = nos.id + 1 /\ Head(ring2).t0 = nos.id + 1
<1>1. Head(ring2) = ring2[1] /\ 1 \in 1 .. Len(ring2)
  BY BeheadElements DEF Shapes
<1> QED BY <1>1 DEF OrdersInOrder

\* Every step keeps the fills in order and loses nothing.
LEMMA FillsStep ==
    Shapes /\ PlaceInv /\ OrdersInOrder /\ FillsInOrder /\ NothingDropped /\ [Next]_vars
      => FillsInOrder' /\ NothingDropped'
<1> SUFFICES ASSUME Shapes, PlaceInv, OrdersInOrder, FillsInOrder, NothingDropped, [Next]_vars
             PROVE  FillsInOrder' /\ NothingDropped'
  OBVIOUS
<1> USE DEF mdVars, stVars, txVars, rxVars, lgVars, exVars, wires, rings,
            notMd, notSt, notGw, notLg, notEx
<1>0. /\ fills \in Nat /\ Len(rx) \in Nat /\ Len(wireIn) \in Nat /\ Len(exRx) \in Nat
      /\ Len(wireOut) \in Nat /\ nos.id \in Nat /\ exSeq \in Nat
      /\ Received \in Nat /\ Answered \in Nat /\ OrdersSent \in Int
      /\ rx \in Seq(ReportShape) /\ wireIn \in Seq(ReportShape)
      /\ exRx \in Seq(Nat) /\ wireOut \in Seq(Nat)
  BY ConnectionTypes
<1>n. /\ fills \in Nat /\ Len(rx) \in Nat /\ Len(wireIn) \in Nat /\ Len(exRx) \in Nat
      /\ Len(wireOut) \in Nat /\ nos.id \in Nat /\ exSeq \in Nat
      /\ Received \in Nat /\ Answered \in Nat /\ OrdersSent \in Int
  BY ConnectionTypes
<1>1. CASE GwPop
  <2>1. gwPc = "pop" /\ gwPc' = "send" /\ nos'.id = nos.id + 1
    BY <1>1, NextOrder DEF GwPop
  <2>2. UNCHANGED <<fills, rx, wireIn, wireOut, exRx, exSeq, exUp, engUp>>
    BY <1>1 DEF GwPop
  <2>3. OrdersSent' = OrdersSent /\ Answered' = Answered /\ Received' = Received
    BY <1>0, <2>1, <2>2 DEF OrdersSent, Answered, Received
  <2> QED BY <2>2, <2>3 DEF FillsInOrder, NothingDropped
<1>2. CASE GwSend
  <2>1. gwPc = "send" /\ gwPc' = "log" /\ engUp /\ OrdersSent = nos.id - 1
    BY <1>2 DEF GwSend, PlaceInv, OrdersSent
  <2>2. UNCHANGED <<fills, rx, wireIn, nos, exRx, exSeq, exUp, engUp>>
    BY <1>2 DEF GwSend
  <2>3. OrdersSent' = OrdersSent + 1 /\ Answered' = Answered /\ Received' = Received
    BY <1>0, <2>1, <2>2 DEF OrdersSent, Answered, Received
  <2>4. FillsInOrder'
    BY <1>0, <2>2, <2>3 DEF FillsInOrder
  <2>5. CASE exUp
    <3>1. wireOut' = Append(wireOut, nos.id) /\ Len(wireOut') = Len(wireOut) + 1
      BY <1>0, <1>2, <2>5, Extend DEF GwSend
    <3>2. nos.id = Answered + Len(exRx) + Len(wireOut) + 1
      <4>1. Answered + Len(exRx) + Len(wireOut) = OrdersSent
        BY <2>1, <2>5 DEF NothingDropped
      <4> QED BY <1>n, <2>1, <4>1
    <3>3. ASSUME NEW i \in 1 .. Len(wireOut')
          PROVE  wireOut'[i] = Answered + Len(exRx) + i
      <4>1. CASE i \in 1 .. Len(wireOut)
        BY <1>0, <2>1, <2>5, <3>1, <4>1, ExtendElements DEF NothingDropped
      <4>2. CASE i = Len(wireOut) + 1
        BY <1>0, <3>1, <3>2, <4>2, ExtendElements
      <4> QED BY <1>0, <3>1, <4>1, <4>2
    <3>4. Answered' + Len(exRx') + Len(wireOut') = OrdersSent'
      BY <1>n, <2>1, <2>2, <2>3, <3>1, <3>2
    <3>5. exSeq = Answered + 2 /\ \A i \in 1 .. Len(exRx) : exRx[i] = Answered + i
      BY <2>1, <2>5 DEF NothingDropped
    <3> QED BY <2>2, <2>3, <2>4, <3>3, <3>4, <3>5 DEF NothingDropped
  <2>6. CASE ~exUp
    BY <2>2, <2>4, <2>6 DEF NothingDropped
  <2> QED BY <2>5, <2>6
<1>3. CASE GwRecv
  <2>1. PICK n \in 1 .. GwBatch :
           /\ n <= Len(wireIn)
           /\ rx' = SubSeq(wireIn, 1, n)
           /\ wireIn' = SubSeq(wireIn, n + 1, Len(wireIn))
    BY <1>3 DEF GwRecv
  <2>2. n \in Nat /\ n >= 1
    BY ConstantTypes
  <2>3. Len(rx) = 0 /\ Received = fills
    <3>1. rx = << >>
      BY <1>3 DEF GwRecv, PlaceInv
    <3> QED BY <1>0, <3>1 DEF Received
  <2>4. Len(rx') = n /\ Len(wireIn') = Len(wireIn) - n
    BY <1>0, <2>1, <2>2, Cut
  <2>5. /\ UNCHANGED <<fills, wireOut, nos, exRx, exSeq, exUp, engUp>>
        /\ gwPc # "send" /\ gwPc' # "send"
    BY <1>3 DEF GwRecv
  <2>6. /\ Received' = fills + n /\ Answered' = Answered /\ OrdersSent' = OrdersSent
    BY <1>0, <2>2, <2>3, <2>4, <2>5 DEF Received, Answered, OrdersSent
  <2>7. \A i \in 1 .. Len(rx') : rx'[i].id = fills + i
    BY <1>0, <2>1, <2>2, <2>3, <2>4, CutElements DEF FillsInOrder
  <2>8. ASSUME NEW i \in 1 .. Len(wireIn')
        PROVE  wireIn'[i].id = Received' + i /\ wireIn'[i].oid = Received' + i + 2
    <3>1. wireIn'[i] = wireIn[n + i] /\ n + i \in 1 .. Len(wireIn)
      BY <1>0, <2>1, <2>2, <2>4, CutElements
    <3>2. wireIn'[i].id = fills + (n + i) /\ wireIn'[i].oid = fills + (n + i) + 2
      BY <2>3, <3>1 DEF FillsInOrder
    <3> QED BY <1>0, <2>2, <2>4, <2>6, <3>2
  <2> QED BY <2>5, <2>6, <2>7, <2>8 DEF FillsInOrder, NothingDropped
<1>4. CASE GwParse
  <2>1. /\ rx # << >> /\ rx' = Tail(rx) /\ fills' = fills + 1
        /\ UNCHANGED <<wireOut, wireIn, nos, gwPc, exRx, exSeq, exUp, engUp>>
    BY <1>4 DEF GwParse
  <2>2. Len(rx') = Len(rx) - 1
    BY <1>0, <2>1, Behead
  <2>3. Received' = Received /\ Answered' = Answered /\ OrdersSent' = OrdersSent
    BY <1>0, <2>1, <2>2 DEF Received, Answered, OrdersSent
  <2>4. ASSUME NEW i \in 1 .. Len(rx')
        PROVE  rx'[i].id = fills' + i
    <3>1. rx'[i] = rx[i + 1] /\ i + 1 \in 1 .. Len(rx)
      BY <1>0, <2>1, <2>2, BeheadElements
    <3>2. rx'[i].id = fills + (i + 1)
      BY <3>1 DEF FillsInOrder
    <3> QED BY <1>0, <2>1, <2>2, <3>2
  <2> QED BY <2>1, <2>3, <2>4 DEF FillsInOrder, NothingDropped
<1>5. CASE GwTest \/ GwIdle \/ GwLog \/ GwNothing \/ GwPeerClosed \/ GwParsed \/ GwExit
  <2>1. /\ gwPc # "send" /\ gwPc' # "send"
        /\ UNCHANGED <<fills, rx, wireIn, wireOut, nos, exRx, exSeq, exUp, engUp>>
    BY <1>5 DEF GwTest, GwIdle, GwLog, GwNothing, GwPeerClosed, GwParsed, GwExit
  <2> QED BY <2>1 DEF FillsInOrder, NothingDropped, Received, Answered, OrdersSent
<1>6. CASE ExRecv
  <2>1. PICK n \in 1 .. ExBatch :
           /\ n <= Len(wireOut)
           /\ exRx' = SubSeq(wireOut, 1, n)
           /\ wireOut' = SubSeq(wireOut, n + 1, Len(wireOut))
    BY <1>6 DEF ExRecv
  <2>2. n \in Nat /\ n >= 1
    BY ConstantTypes
  <2>3. Len(exRx) = 0
    BY <1>0, <1>6 DEF ExRecv, PlaceInv
  <2>4. Len(exRx') = n /\ Len(wireOut') = Len(wireOut) - n
    BY <1>0, <2>1, <2>2, Cut
  <2>5. UNCHANGED <<fills, rx, wireIn, nos, gwPc, exSeq, exUp, engUp>>
    BY <1>6 DEF ExRecv
  <2>6. Received' = Received /\ Answered' = Answered /\ OrdersSent' = OrdersSent
    BY <2>5 DEF Received, Answered, OrdersSent
  <2>7. FillsInOrder'
    BY <2>5, <2>6 DEF FillsInOrder
  <2>8. CASE exUp /\ engUp
    <3>1. \A i \in 1 .. Len(exRx') : exRx'[i] = Answered + i
      BY <1>0, <2>1, <2>2, <2>3, <2>4, <2>8, CutElements DEF NothingDropped
    <3>2. ASSUME NEW i \in 1 .. Len(wireOut')
          PROVE  wireOut'[i] = Answered + Len(exRx') + i
      <4>1. wireOut'[i] = wireOut[n + i] /\ n + i \in 1 .. Len(wireOut)
        BY <1>0, <2>1, <2>2, <2>4, CutElements
      <4>2. wireOut'[i] = Answered + 0 + (n + i)
        BY <2>3, <2>8, <4>1 DEF NothingDropped
      <4> QED BY <1>0, <2>2, <2>4, <4>2
    <3>3. Answered + Len(exRx') + Len(wireOut') = OrdersSent
      <4>1. Answered + Len(exRx) + Len(wireOut) = OrdersSent
        BY <2>8 DEF NothingDropped
      <4> QED BY <1>n, <2>2, <2>3, <2>4, <4>1
    <3> QED BY <2>5, <2>6, <2>7, <2>8, <3>1, <3>2, <3>3 DEF NothingDropped
  <2>9. CASE ~(exUp /\ engUp)
    BY <2>5, <2>7, <2>9 DEF NothingDropped
  <2> QED BY <2>8, <2>9
<1>7. CASE ExReply
  <2>1. /\ exRx # << >> /\ exRx' = Tail(exRx) /\ exSeq' = exSeq + 1 /\ exUp
        /\ UNCHANGED <<fills, rx, wireOut, nos, gwPc, exUp, engUp>>
    BY <1>7 DEF ExReply, PlaceInv
  <2>2. Len(exRx') = Len(exRx) - 1 /\ Head(exRx) = exRx[1] /\ 1 \in 1 .. Len(exRx)
    BY <1>0, <2>1, Behead, BeheadElements
  <2>3. Received' = Received /\ OrdersSent' = OrdersSent
    BY <2>1 DEF Received, OrdersSent
  <2>4. CASE engUp
    <3>1. /\ exRx[1] = Answered + 1 /\ exSeq = Answered + 2
          /\ Answered + Len(exRx) + Len(wireOut) = OrdersSent
      BY <2>1, <2>2, <2>4 DEF NothingDropped
    <3> DEFINE report == [id |-> Answered + 1, oid |-> Answered + 3]
    <3>2. report \in ReportShape
      BY <1>0 DEF ReportShape
    <3>3. wireIn' = Append(wireIn, report)
      <4>1. wireIn' = Append(wireIn, [id |-> Head(exRx), oid |-> exSeq + 1])
        BY <1>7, <2>4 DEF ExReply
      <4> QED BY <1>0, <2>2, <3>1, <4>1
    <3>4. Len(wireIn') = Len(wireIn) + 1 /\ Answered' = Answered + 1
      BY <1>0, <2>3, <3>2, <3>3, Extend DEF Answered
    <3>5. ASSUME NEW i \in 1 .. Len(wireIn')
          PROVE  wireIn'[i].id = Received' + i /\ wireIn'[i].oid = Received' + i + 2
      <4>1. CASE i \in 1 .. Len(wireIn)
        <5>1. wireIn'[i] = wireIn[i]
          BY <1>0, <3>2, <3>3, <4>1, ExtendElements
        <5> QED BY <2>3, <4>1, <5>1 DEF FillsInOrder
      <4>2. CASE i = Len(wireIn) + 1
        <5>1. wireIn'[i] = report
          BY <1>0, <3>2, <3>3, <4>2, ExtendElements
        <5>2. Received' + i = Answered + 1
          BY <1>0, <2>3, <4>2 DEF Answered
        <5> QED BY <1>0, <5>1, <5>2
      <4> QED BY <1>0, <3>4, <4>1, <4>2
    <3>6. ASSUME NEW i \in 1 .. Len(exRx')
          PROVE  exRx'[i] = Answered' + i
      <4>1. exRx'[i] = exRx[i + 1] /\ i + 1 \in 1 .. Len(exRx)
        BY <1>0, <2>1, <2>2, BeheadElements
      <4>2. exRx'[i] = Answered + (i + 1)
        BY <2>1, <2>4, <4>1 DEF NothingDropped
      <4> QED BY <1>0, <2>2, <3>4, <4>2
    <3>7. \A i \in 1 .. Len(wireOut') : wireOut'[i] = Answered' + Len(exRx') + i
      <4>1. Answered' + Len(exRx') = Answered + Len(exRx)
        BY <1>0, <2>2, <3>4
      <4> QED BY <2>1, <2>4, <4>1 DEF NothingDropped
    <3>8. Answered' <= OrdersSent'
      BY <1>0, <2>2, <2>3, <3>1, <3>4
    <3>9. Answered' + Len(exRx') + Len(wireOut') = OrdersSent' /\ exSeq' = Answered' + 2
      <4>1. wireOut' = wireOut /\ exSeq' = exSeq + 1
        BY <2>1
      <4> QED BY <1>n, <2>2, <2>3, <3>1, <3>4, <4>1
    <3>10. FillsInOrder'
      BY <2>1, <2>3, <3>5, <3>8 DEF FillsInOrder
    <3> QED BY <3>6, <3>7, <3>9, <3>10 DEF NothingDropped
  <2>5. CASE ~engUp
    <3>1. UNCHANGED wireIn
      BY <1>7, <2>5 DEF ExReply
    <3> QED BY <2>1, <2>3, <2>5, <3>1 DEF FillsInOrder, NothingDropped, Answered
  <2> QED BY <2>4, <2>5
<1>8. CASE ExTest \/ ExPeerClosed \/ EngClose
  <2>1. /\ UNCHANGED <<fills, rx, wireIn, wireOut, nos, gwPc, exRx, exSeq>>
        /\ exUp' /\ engUp' => exUp /\ engUp
    BY <1>8 DEF ExTest, ExPeerClosed, EngClose, PlaceInv
  <2>2. Received' = Received /\ Answered' = Answered /\ OrdersSent' = OrdersSent
    BY <2>1 DEF Received, Answered, OrdersSent
  <2> QED BY <2>1, <2>2 DEF FillsInOrder, NothingDropped
<1>9. CASE \/ EngSigterm \/ MarketData \/ Strategy \/ Logger \/ MxExit
           \/ ExSigterm \/ ExReplied \/ Over \/ UNCHANGED vars
  <2>1. UNCHANGED <<fills, rx, wireIn, wireOut, nos, gwPc, exRx, exSeq, exUp, engUp>>
    BY <1>9 DEF EngSigterm, MarketData, MdTick, MdPush, MdGiveUp, MdExit, Strategy,
                StTest, StRetry, StPop, StPush, StGiveUp, StNext, StExit, Logger, LgPop, LgExit,
                MxExit, ExSigterm, ExReplied, Over, vars
  <2> QED BY <2>1 DEF FillsInOrder, NothingDropped, Received, Answered, OrdersSent
<1> QED
  BY <1>1, <1>2, <1>3, <1>4, <1>5, <1>6, <1>7, <1>8, <1>9 DEF Next, Gateway, Exchange
-----------------------------------------------------------------------------
(* pending[]                                                               *)

\* A slot holds the stamp of the last order that was put there.
PendingKept ==
    /\ pending \in [0 .. PendingCap - 1 -> Nat]
    /\ \A j \in 1 .. nos.id : nos.id - j < PendingCap => pending[PendingSlot(j)] = j

\* How far the orders are ahead of the fills.  The exchange holds at most a
\* full buffer and a batch; the order that was popped last may come on top
\* until the gateway has read the socket once.
Ahead == nos.id - fills
WindowBounded ==
    gwPc # "done" =>
        /\ Ahead <= OutCap + ExBatch
                    + (IF gwPc \in {"send", "log", "recv", "parse"} THEN 1 ELSE 0)
        /\ gwPc = "parse" => Ahead - Len(rx) <= OutCap + ExBatch

\* The mask maps two ids to one slot only when they are PendingCap apart.
LEMMA SlotsDiffer ==
    ASSUME NEW j \in Nat, NEW k \in Nat, j < k, k - j < PendingCap
    PROVE  PendingSlot(j) # PendingSlot(k)
<1> DEFINE p == j \div PendingCap
           q == k \div PendingCap
<1>1. PendingCap \in Nat /\ PendingCap >= 1
  BY ConstantTypes
<1>2. /\ p \in Int /\ q \in Int /\ PendingSlot(j) \in Int
      /\ j = PendingCap * p + PendingSlot(j) /\ k = PendingCap * q + PendingSlot(k)
  BY <1>1 DEF PendingSlot
<1> HIDE DEF p, q
<1>3. SUFFICES ASSUME PendingSlot(j) = PendingSlot(k) PROVE FALSE
  OBVIOUS
<1>4. k - j = (q - p) * PendingCap
  BY <1>1, <1>2, <1>3
<1>5. CASE q - p <= 0
  <2>1. (q - p) * PendingCap <= 0
    BY <1>1, <1>2, <1>5
  <2> QED BY <1>4, <2>1
<1>6. CASE q - p >= 1
  <2>1. (q - p) * PendingCap >= PendingCap
    BY <1>1, <1>2, <1>6
  <2> QED BY <1>4, <2>1, <1>1
<1> QED BY <1>2, <1>5, <1>6

\* The mask is an index.
LEMMA SlotExists == ASSUME NEW j \in Nat PROVE PendingSlot(j) \in 0 .. PendingCap - 1
BY ConstantTypes DEF PendingSlot

\* No order was popped yet.
LEMMA PendingInit == Init => PendingKept /\ WindowBounded
<1> SUFFICES ASSUME Init PROVE PendingKept /\ WindowBounded
  OBVIOUS
<1>1. nos.id = 0 /\ fills = 0 /\ gwPc = "loop"
  BY DEF Init, NoOrder
<1>2. PendingKept
  BY <1>1 DEF Init, PendingKept
<1>3. WindowBounded
  BY <1>1, ConstantTypes DEF WindowBounded, Ahead
<1> QED BY <1>2, <1>3

\* Only GwPop writes a slot, and it spares the last PendingCap - 1 orders.
LEMMA PendingStep == Shapes /\ OrdersInOrder /\ PendingKept /\ [Next]_vars => PendingKept'
<1> SUFFICES ASSUME Shapes, OrdersInOrder, PendingKept, [Next]_vars PROVE PendingKept'
  OBVIOUS
<1> USE DEF mdVars, stVars, txVars, rxVars, lgVars, exVars, wires, rings,
            notMd, notSt, notGw, notLg, notEx
<1>0. nos.id \in Nat /\ PendingCap \in Nat /\ PendingCap >= 1
  BY ShapeTypes, ConstantTypes
<1>1. CASE GwPop
  <2> DEFINE k == nos.id + 1
  <2>1. nos'.id = k /\ nos'.t0 = k /\ k \in Nat
    BY <1>0, <1>1, NextOrder DEF GwPop
  <2>2. pending' = [pending EXCEPT ![PendingSlot(k)] = k]
    BY <1>1, <2>1 DEF GwPop
  <2>3. PendingSlot(k) \in 0 .. PendingCap - 1
    BY <2>1, SlotExists
  <2>4. pending' \in [0 .. PendingCap - 1 -> Nat] /\ pending'[PendingSlot(k)] = k
    BY <2>1, <2>2, <2>3 DEF PendingKept
  <2>5. ASSUME NEW j \in 1 .. nos'.id, nos'.id - j < PendingCap
        PROVE  pending'[PendingSlot(j)] = j
    <3>1. CASE j = k
      BY <2>4, <3>1
    <3>2. CASE j # k
      <4>1. j \in 1 .. nos.id /\ j \in Nat /\ j < k /\ k - j < PendingCap /\ nos.id - j < PendingCap
        BY <1>0, <2>1, <2>5, <3>2
      <4>2. PendingSlot(j) # PendingSlot(k) /\ PendingSlot(j) \in 0 .. PendingCap - 1
        BY <2>1, <4>1, SlotsDiffer, SlotExists
      <4>3. pending[PendingSlot(j)] = j
        BY <4>1 DEF PendingKept
      <4> QED BY <2>2, <4>2, <4>3 DEF PendingKept
    <3> QED BY <3>1, <3>2
  <2> QED BY <2>4, <2>5 DEF PendingKept
<1>2. CASE \/ EngSigterm \/ MarketData \/ Strategy \/ Logger \/ MxExit \/ EngClose
           \/ ExSigterm \/ Exchange \/ Over \/ UNCHANGED vars
           \/ GwTest \/ GwIdle \/ GwSend \/ GwLog \/ GwRecv \/ GwNothing \/ GwPeerClosed
           \/ GwParse \/ GwParsed \/ GwExit
  <2>1. UNCHANGED <<nos, pending>>
    BY <1>2 DEF EngSigterm, MarketData, MdTick, MdPush, MdGiveUp, MdExit, Strategy,
                StTest, StRetry, StPop, StPush, StGiveUp, StNext, StExit, Logger, LgPop, LgExit,
                MxExit, EngClose, ExSigterm, Exchange, ExTest, ExRecv, ExPeerClosed, ExReply,
                ExReplied, Over, vars, GwTest, GwIdle, GwSend, GwLog, GwRecv, GwNothing,
                GwPeerClosed, GwParse, GwParsed, GwExit
  <2> QED BY <2>1 DEF PendingKept
<1> QED BY <1>1, <1>2 DEF Next, Gateway

\* Every step keeps the window; a turn that reads nothing shows that all is
\* with the exchange.
LEMMA WindowStep ==
    Shapes /\ PlaceInv /\ OrdersInOrder /\ FlowInv /\ FillsInOrder
        /\ NothingDropped /\ WindowBounded /\ [Next]_vars
      => WindowBounded'
<1> SUFFICES ASSUME Shapes, PlaceInv, OrdersInOrder, FlowInv,
                    FillsInOrder, NothingDropped, WindowBounded, [Next]_vars
             PROVE  WindowBounded'
  OBVIOUS
<1> USE DEF mdVars, stVars, txVars, rxVars, lgVars, exVars, wires, rings,
            notMd, notSt, notGw, notLg, notEx
<1>0. /\ nos.id \in Nat /\ fills \in Nat /\ Len(rx) \in Nat /\ Ahead \in Int
      /\ OutCap \in Nat /\ ExBatch \in Nat
  BY ConnectionTypes, ConstantTypes DEF Ahead
<1>1. CASE GwPop
  <2>1. gwPc = "pop" /\ gwPc' = "send" /\ nos'.id = nos.id + 1 /\ UNCHANGED <<fills, rx>>
    BY <1>1, NextOrder DEF GwPop
  <2>2. Ahead' = Ahead + 1
    BY <1>0, <2>1 DEF Ahead
  <2> QED BY <1>0, <2>1, <2>2 DEF WindowBounded
<1>2. CASE GwRecv
  <2>1. PICK n \in 1 .. GwBatch : n <= Len(wireIn) /\ rx' = SubSeq(wireIn, 1, n)
    BY <1>2 DEF GwRecv
  <2>2. n \in Nat /\ n >= 1
    BY ConstantTypes
  <2>3. Len(rx') = n
    BY <2>1, <2>2, Cut, ConnectionTypes
  <2>4. gwPc = "recv" /\ gwPc' = "parse" /\ UNCHANGED <<nos, fills>>
    BY <1>2 DEF GwRecv
  <2>5. Ahead' = Ahead
    BY <2>4 DEF Ahead
  <2> QED BY <1>0, <2>2, <2>3, <2>4, <2>5 DEF WindowBounded
<1>3. CASE GwParse
  <2>1. /\ gwPc = "parse" /\ gwPc' = gwPc /\ rx # << >> /\ rx' = Tail(rx) /\ fills' = fills + 1
        /\ UNCHANGED nos
    BY <1>3 DEF GwParse
  <2>2. Len(rx') = Len(rx) - 1
    BY <2>1, Behead, ConnectionTypes
  <2>3. Ahead' = Ahead - 1
    BY <1>0, <2>1 DEF Ahead
  <2> QED BY <1>0, <2>1, <2>2, <2>3 DEF WindowBounded
<1>4. CASE GwParsed
  <2>1. gwPc = "parse" /\ gwPc' = "loop" /\ Len(rx) = 0 /\ UNCHANGED <<nos, fills>>
    BY <1>4 DEF GwParsed
  <2>2. Ahead' = Ahead
    BY <2>1 DEF Ahead
  <2> QED BY <1>0, <2>1, <2>2 DEF WindowBounded
<1>5. CASE GwNothing
  <2>1. /\ gwPc = "recv" /\ gwPc' = "loop" /\ wireIn = << >> /\ exUp /\ rx = << >> /\ engUp
        /\ UNCHANGED <<nos, fills>>
    BY <1>5 DEF GwNothing, PlaceInv
  <2>2. Len(wireIn) = 0 /\ Len(rx) = 0
    BY <2>1
  <2>3. fills + Len(exRx) + Len(wireOut) = nos.id
    <3>1. Answered + Len(exRx) + Len(wireOut) = OrdersSent
      BY <2>1 DEF NothingDropped
    <3> QED BY <1>0, <2>1, <2>2, <3>1 DEF Answered, Received, OrdersSent
  <2>4. Len(exRx) \in Nat /\ Len(wireOut) \in Nat /\ Len(exRx) <= ExBatch /\ Len(wireOut) <= OutCap
    BY ConnectionTypes DEF FlowInv
  <2>5. Ahead' <= OutCap + ExBatch
    BY <1>0, <2>1, <2>3, <2>4 DEF Ahead
  <2> QED BY <1>0, <2>1, <2>5 DEF WindowBounded
<1>6. CASE GwTest \/ GwIdle \/ GwSend \/ GwLog
  <2>1. /\ gwPc \in {"send", "log", "recv", "parse"} => gwPc' \in {"send", "log", "recv", "parse"}
        /\ gwPc' # "parse" /\ gwPc # "done" /\ UNCHANGED <<nos, fills>>
    BY <1>6 DEF GwTest, GwIdle, GwSend, GwLog
  <2>2. Ahead' = Ahead
    BY <2>1 DEF Ahead
  <2> QED BY <1>0, <2>1, <2>2 DEF WindowBounded
<1>7. CASE GwPeerClosed \/ GwExit
  BY <1>7 DEF GwPeerClosed, GwExit, WindowBounded
<1>8. CASE \/ EngSigterm \/ MarketData \/ Strategy \/ Logger \/ MxExit \/ EngClose
           \/ ExSigterm \/ Exchange \/ Over \/ UNCHANGED vars
  <2>1. UNCHANGED <<nos, fills, rx, gwPc>>
    BY <1>8 DEF EngSigterm, MarketData, MdTick, MdPush, MdGiveUp, MdExit, Strategy,
                StTest, StRetry, StPop, StPush, StGiveUp, StNext, StExit, Logger, LgPop, LgExit,
                MxExit, EngClose, ExSigterm, Exchange, ExTest, ExRecv, ExPeerClosed, ExReply,
                ExReplied, Over, vars
  <2> QED BY <2>1 DEF WindowBounded, Ahead
<1> QED
  BY <1>1, <1>2, <1>3, <1>4, <1>5, <1>6, <1>7, <1>8 DEF Next, Gateway
-----------------------------------------------------------------------------
(* Theorems                                                                *)

\* The inductive invariant: the lemmas above keep its parts one by one.
PipelineInv ==
    /\ Shapes /\ Places /\ PlaceInv /\ ContextKept /\ FlowInv
    /\ TicksInOrder /\ OrdersInOrder /\ FillsInOrder /\ NothingDropped
    /\ Counted /\ LastEvent /\ PendingKept /\ WindowBounded

\* All of the above holds of every state of the pipeline.
THEOREM PipelineInvariant == Spec => []PipelineInv
<1>1. Init => PipelineInv
  BY ShapesInit, PlacesInit, FlowInit, TicksInit, OrdersInit, FillsInit, CountedInit,
     LastEventInit, PendingInit DEF PipelineInv
<1>2. PipelineInv /\ [Next]_vars => PipelineInv'
  BY ShapesStep, PlacesStep, ContextStep, FlowStep, TicksStep, OrdersStep, FillsStep,
     CountedStep, LastEventStep, PendingStep, WindowStep DEF PipelineInv
<1> QED BY <1>1, <1>2, PTL DEF Spec
-----------------------------------------------------------------------------
(* The types and the capacities                                            *)

\* What is not already said by the parts above
Bounds ==
    /\ Len(ring1) <= RingCap /\ Len(ring2) <= RingCap /\ Len(ring3) <= RingCap
    /\ Len(wireIn) <= InCap /\ Len(rx) <= GwBatch
    /\ pending \in [0 .. PendingCap - 1 -> 0 .. MaxTicks]
    /\ fill \in Orders

\* No number in the pipeline is beyond the last tick.
LEMMA Range ==
    ASSUME PipelineInv
    PROVE  /\ seq \in 0 .. MaxTicks /\ clordid \in 1 .. MaxTicks + 1
           /\ nos.id \in 0 .. MaxTicks /\ nos.id + Len(ring2) <= MaxTicks
           /\ order.id \in 0 .. MaxTicks
           /\ orders \in 0 .. MaxTicks /\ fills \in 0 .. MaxTicks
           /\ Received <= nos.id /\ Len(rx) \in Nat /\ MaxTicks \in Nat
<1>1. /\ seq \in Nat /\ clordid \in Nat /\ nos.id \in Nat /\ order.id \in Nat
      /\ Len(ring1) \in Nat /\ Len(ring2) \in Nat /\ MaxTicks \in Nat
      /\ fills \in Nat /\ orders \in Nat /\ Len(rx) \in Nat /\ Len(wireIn) \in Nat
  <2>1. Shapes
    BY DEF PipelineInv
  <2> QED BY <2>1, ShapeTypes, ConstantTypes
<1>2. /\ TicksTaken + Len(ring1) <= seq /\ seq <= MaxTicks /\ clordid >= 1
      /\ order.id <= TicksTaken
  BY DEF PipelineInv, TicksInOrder
<1>3. nos.id + Len(ring2) < clordid
  BY DEF PipelineInv, OrdersInOrder
<1>4. orders = OrdersSent /\ Answered <= OrdersSent
  BY DEF PipelineInv, Counted, FillsInOrder
<1>5. TicksTaken >= clordid - 1 /\ TicksTaken \in Int
  BY <1>1 DEF TicksTaken
<1>6. OrdersSent <= nos.id /\ OrdersSent \in Int
  BY <1>1 DEF OrdersSent
<1>7. Received = fills + Len(rx) /\ Answered = fills + Len(rx) + Len(wireIn)
  BY DEF Received, Answered
<1>8. TicksTaken <= MaxTicks
  BY <1>1, <1>2, <1>5
<1>9. clordid <= MaxTicks + 1 /\ order.id <= MaxTicks
  BY <1>1, <1>2, <1>5, <1>8
<1>10. nos.id + Len(ring2) <= MaxTicks
  BY <1>1, <1>3, <1>9
<1>11. orders <= nos.id /\ fills <= nos.id /\ Received <= nos.id
  BY <1>1, <1>4, <1>6, <1>7
<1> QED BY <1>1, <1>2, <1>9, <1>10, <1>11

\* Every queue starts empty.
LEMMA BoundsInit == Init => Bounds
BY ConstantTypes DEF Init, Bounds, Orders, NoOrder

\* Every push is tried against the capacity, and nothing beyond the last
\* tick is stored.
LEMMA BoundsStep == PipelineInv /\ Bounds /\ [Next]_vars => Bounds'
<1> SUFFICES ASSUME PipelineInv, Bounds, [Next]_vars PROVE Bounds'
  OBVIOUS
<1> USE DEF mdVars, stVars, txVars, rxVars, lgVars, exVars, wires, rings,
            notMd, notSt, notGw, notLg, notEx
<1>s. Shapes
  BY DEF PipelineInv
<1>0. /\ RingCap \in Nat /\ InCap \in Nat /\ GwBatch \in Nat /\ MaxTicks \in Nat
      /\ Len(ring1) \in Nat /\ Len(ring2) \in Nat /\ Len(ring3) \in Nat
      /\ Len(rx) \in Nat /\ Len(wireIn) \in Nat /\ nos.id \in Nat /\ fills \in Nat
  BY <1>s, ShapeTypes, ConstantTypes
<1>1. CASE MarketData
  <2>1. Len(ring1') <= RingCap
    <3>1. Len(Append(ring1, seq + 1)) = Len(ring1) + 1
      BY <1>s DEF Shapes
    <3> QED BY <1>0, <1>1, <3>1 DEF MarketData, MdTick, MdPush, MdGiveUp, MdExit, Bounds
  <2> QED BY <1>1, <2>1 DEF MarketData, MdTick, MdPush, MdGiveUp, MdExit, Bounds
<1>2. CASE Strategy
  <2>1. Len(ring1') <= RingCap
    <3>1. CASE StPop
      BY <1>0, <1>s, <3>1, Behead DEF StPop, Shapes, Bounds
    <3>2. CASE StTest \/ StRetry \/ StPush \/ StGiveUp \/ StExit
      BY <3>2 DEF StTest, StRetry, StPush, StGiveUp, StNext, StExit, Bounds
    <3> QED BY <1>2, <3>1, <3>2 DEF Strategy
  <2>2. Len(ring2') <= RingCap
    <3>1. CASE StPush
      BY <1>0, <1>s, <3>1, Extend DEF StPush, Shapes, Bounds
    <3>2. CASE StTest \/ StRetry \/ StPop \/ StGiveUp \/ StExit
      BY <3>2 DEF StTest, StRetry, StPop, StGiveUp, StNext, StExit, Bounds
    <3> QED BY <1>2, <3>1, <3>2 DEF Strategy
  <2>3. UNCHANGED <<ring3, wireIn, rx, pending, fill>>
    BY <1>2 DEF Strategy, StTest, StRetry, StPop, StPush, StGiveUp, StNext, StExit
  <2> QED BY <2>1, <2>2, <2>3 DEF Bounds
<1>3. CASE GwPop
  <2>1. Len(ring2') <= RingCap
    BY <1>0, <1>s, <1>3, Behead DEF GwPop, Shapes, Bounds
  <2>2. nos'.id = nos.id + 1 /\ nos'.t0 = nos.id + 1 /\ Len(ring2) >= 1
    BY <1>s, <1>3, <1>0, NextOrder, Behead DEF GwPop, PipelineInv, Shapes
  <2>3. nos'.t0 \in 0 .. MaxTicks
    <3>1. nos.id + Len(ring2) <= MaxTicks
      BY Range
    <3> QED BY <1>0, <2>2, <3>1
  <2>4. PendingSlot(nos'.id) \in 0 .. PendingCap - 1
    <3>1. nos'.id \in Nat
      BY <1>0, <2>2
    <3> QED BY <3>1, SlotExists
  <2>5. pending' \in [0 .. PendingCap - 1 -> 0 .. MaxTicks]
    BY <1>3, <2>3, <2>4 DEF GwPop, Bounds
  <2> QED BY <1>3, <2>1, <2>5 DEF GwPop, Bounds
<1>4. CASE GwLog
  <2>1. nos.id \in Nat
    BY <1>0
  <2>2. Len(ring3') <= RingCap
    BY <1>0, <1>s, <1>4, Extend DEF GwLog, Shapes, Bounds
  <2> QED BY <1>4, <2>2 DEF GwLog, Bounds
<1>5. CASE GwRecv
  <2>1. PICK n \in 1 .. GwBatch :
           /\ n <= Len(wireIn)
           /\ rx' = SubSeq(wireIn, 1, n)
           /\ wireIn' = SubSeq(wireIn, n + 1, Len(wireIn))
    BY <1>5 DEF GwRecv
  <2>2. n \in Nat /\ n >= 1 /\ n <= GwBatch
    BY ConstantTypes
  <2>3. Len(rx') = n /\ Len(wireIn') = Len(wireIn) - n
    BY <1>s, <2>1, <2>2, Cut DEF Shapes
  <2>4. Len(rx') <= GwBatch /\ Len(wireIn') <= InCap
    BY <1>0, <2>2, <2>3 DEF Bounds
  <2> QED BY <1>5, <2>4 DEF GwRecv, Bounds
<1>6. CASE GwParse
  <2>1. Len(rx) >= 1 /\ Len(rx') = Len(rx) - 1 /\ Head(rx) = rx[1]
    BY <1>0, <1>s, <1>6, Behead, BeheadElements DEF GwParse, Shapes
  <2>2. Head(rx).id = fills + 1
    BY <1>0, <2>1 DEF PipelineInv, FillsInOrder
  <2>3. Head(rx).id \in 0 .. MaxTicks
    <3>1. fills + Len(rx) <= nos.id /\ nos.id \in 0 .. MaxTicks
      BY Range DEF Received
    <3> QED BY <1>0, <2>1, <2>2, <3>1
  <2>4. PendingSlot(Head(rx).id) \in 0 .. PendingCap - 1
    BY <1>0, <2>2, SlotExists
  <2>5. fill' \in Orders
    <3>1. pending[PendingSlot(Head(rx).id)] \in 0 .. MaxTicks
      BY <2>4 DEF Bounds
    <3> QED BY <1>6, <2>3, <3>1 DEF GwParse, Orders
  <2>6. Len(rx') <= GwBatch
    BY <1>0, <2>1 DEF Bounds
  <2> QED BY <1>6, <2>5, <2>6 DEF GwParse, Bounds
<1>7. CASE LgPop
  <2>1. Len(ring3') <= RingCap
    BY <1>0, <1>s, <1>7, Behead DEF LgPop, Shapes, Bounds
  <2> QED BY <1>7, <2>1 DEF LgPop, Bounds
<1>8. CASE ExReply
  <2>1. Len(wireIn') <= InCap
    <3>1. CASE UNCHANGED wireIn
      BY <3>1 DEF Bounds
    <3>2. CASE /\ Len(wireIn) < InCap
               /\ wireIn' = Append(wireIn, [id |-> Head(exRx), oid |-> exSeq + 1])
      <4>1. Len(wireIn') = Len(wireIn) + 1
        BY <1>s, <3>2 DEF Shapes
      <4> QED BY <1>0, <3>2, <4>1
    <3> QED BY <1>8, <3>1, <3>2 DEF ExReply
  <2> QED BY <1>8, <2>1 DEF ExReply, Bounds
<1>9. CASE \/ EngSigterm \/ LgExit \/ MxExit \/ EngClose
           \/ ExSigterm \/ ExTest \/ ExRecv \/ ExPeerClosed \/ ExReplied \/ Over
           \/ GwTest \/ GwIdle \/ GwSend \/ GwNothing \/ GwPeerClosed \/ GwParsed \/ GwExit
           \/ UNCHANGED vars
  <2>1. UNCHANGED <<ring1, ring2, ring3, wireIn, rx, pending, fill>>
    BY <1>9 DEF EngSigterm, LgExit, MxExit, EngClose, ExSigterm, ExTest, ExRecv,
                ExPeerClosed, ExReplied, Over, GwTest, GwIdle, GwSend, GwNothing,
                GwPeerClosed, GwParsed, GwExit, vars
  <2> QED BY <2>1 DEF Bounds
<1> QED
  BY <1>1, <1>2, <1>3, <1>4, <1>5, <1>6, <1>7, <1>8, <1>9
  DEF Next, Gateway, Logger, Exchange

\* Each part of TypeOK is a part of the invariant.
LEMMA Typed == PipelineInv /\ Bounds => TypeOK
<1> SUFFICES ASSUME PipelineInv, Bounds PROVE TypeOK
  OBVIOUS
<1>1. Places
  BY DEF PipelineInv
<1>2. /\ seq \in 0 .. MaxTicks /\ clordid \in 1 .. MaxTicks + 1
      /\ {orders, fills} \subseteq 0 .. MaxTicks
  BY Range
<1>3. order \in Orders /\ nos \in Orders
  <2>1. order \in OrderShape /\ nos \in OrderShape
    BY DEF PipelineInv, Shapes
  <2>2. order.t0 = order.id /\ nos.t0 = nos.id
    BY DEF PipelineInv, TicksInOrder, OrdersInOrder
  <2>3. order.id \in 0 .. MaxTicks /\ nos.id \in 0 .. MaxTicks
    BY Range
  <2> QED BY <2>1, <2>2, <2>3 DEF OrderShape, Orders
<1>4. free + (IF ctx THEN 1 ELSE 0) = PoolSize
  <2>1. PoolSize \in Nat /\ free \in Nat
    BY ConstantTypes DEF PipelineInv, ContextKept
  <2>2. CASE ctx
    BY <2>1, <2>2 DEF PipelineInv, ContextKept
  <2>3. CASE ~ctx
    <3>1. free = PoolSize
      BY <2>3 DEF PipelineInv, ContextKept
    <3> QED BY <2>1, <2>3, <3>1
  <2> QED BY <2>2, <2>3
<1>5. {t2t, rtt} \subseteq 0 .. MaxTicks
  <2>1. nos.id \in 0 .. MaxTicks /\ fills \in 0 .. MaxTicks /\ Warmup \in Nat /\ MaxTicks \in Nat
    BY Range, ConstantTypes
  <2>2. t2t = Beyond(nos.id) /\ rtt = Beyond(fills)
    BY DEF PipelineInv, Counted
  <2>3. \A n \in 0 .. MaxTicks : Beyond(n) \in 0 .. MaxTicks
    BY <2>1 DEF Beyond
  <2> QED BY <2>1, <2>2, <2>3
<1>6. exSeq \in Nat
  BY DEF PipelineInv, Shapes
<1>7. Len(wireOut) <= OutCap /\ Len(exRx) <= ExBatch
  BY DEF PipelineInv, FlowInv
<1> QED BY <1>1, <1>2, <1>3, <1>4, <1>5, <1>6, <1>7 DEF TypeOK, Places, Bounds

\* Types and capacities: no ring, buffer or batch of the pipeline exceeds
\* its size, no context of the pool is lost or returned twice, and no thread
\* invents a tick, an order or a sample.
THEOREM TypeCorrect == Spec => []TypeOK
BY PipelineInvariant, BoundsInit, BoundsStep, Typed, PTL DEF Spec

\* Each histogram has exactly the samples beyond the first Warmup, at every
\* moment at which run_metrics may read it.
THEOREM WarmupIsExcluded == Spec => []WarmupExcluded
<1>1. PipelineInv => WarmupExcluded
  <2> SUFFICES ASSUME PipelineInv PROVE WarmupExcluded
    OBVIOUS
  <2>1. nos.id \in Nat /\ orders = OrdersSent /\ t2t = Beyond(nos.id) /\ rtt = Beyond(fills)
    BY DEF PipelineInv, Counted, Shapes, OrderShape
  <2>2. orders + (IF gwPc = "send" THEN 1 ELSE 0) = nos.id
    BY <2>1 DEF OrdersSent
  <2> QED BY <2>1, <2>2 DEF WarmupExcluded, Beyond
<1> QED BY <1>1, PipelineInvariant, PTL

\* The logger leaves at most the event of the gateway's last order.
THEOREM LogIsDrained == Spec => []LogDrained
<1>1. PipelineInv => LogDrained
  BY DEF PipelineInv, LastEvent, LogDrained
<1> QED BY <1>1, PipelineInvariant, PTL

\* When pending[] has a slot for all that can be under way (a full buffer
\* and a batch with the exchange, and one order more), the stamp that a fill
\* finds is its own tick's.
THEOREM FillsMatch ==
    ASSUME PendingCap >= OutCap + ExBatch + 1
    PROVE  Spec => []FillMatchesItsTick
<1>1. Init => FillMatchesItsTick
  BY DEF Init, NoOrder, FillMatchesItsTick
<1>2. PipelineInv /\ FillMatchesItsTick /\ [Next]_vars => FillMatchesItsTick'
  <2> SUFFICES ASSUME PipelineInv, FillMatchesItsTick, [Next]_vars PROVE FillMatchesItsTick'
    OBVIOUS
  <2> USE DEF mdVars, stVars, txVars, rxVars, lgVars, exVars, wires, rings,
              notMd, notSt, notGw, notLg, notEx
  <2>1. CASE GwParse
    <3>1. gwPc = "parse" /\ rx # << >>
          /\ fill' = [id |-> Head(rx).id, t0 |-> pending[PendingSlot(Head(rx).id)]]
      BY <2>1 DEF GwParse
    <3>2. /\ nos.id \in Nat /\ fills \in Nat /\ Len(rx) \in Nat /\ PendingCap \in Nat
          /\ OutCap \in Nat /\ ExBatch \in Nat
      BY ShapeTypes, ConstantTypes DEF PipelineInv
    <3>3. Len(rx) >= 1 /\ Head(rx) = rx[1]
      BY <3>1, <3>2, Behead, BeheadElements DEF PipelineInv, Shapes
    <3>4. Head(rx).id = fills + 1
      BY <3>2, <3>3 DEF PipelineInv, FillsInOrder
    <3>5. Ahead <= OutCap + ExBatch + 1
      BY <3>1 DEF PipelineInv, WindowBounded
    <3>6. fills + 1 \in 1 .. nos.id /\ nos.id - (fills + 1) < PendingCap
      <4>1. fills + Len(rx) <= nos.id
        BY Range DEF Received
      <4> QED BY <3>2, <3>3, <3>5, <4>1 DEF Ahead
    <3>7. pending[PendingSlot(fills + 1)] = fills + 1
      BY <3>6 DEF PipelineInv, PendingKept
    <3> QED BY <3>1, <3>4, <3>7 DEF FillMatchesItsTick
  <2>2. CASE \/ EngSigterm \/ MarketData \/ Strategy \/ Logger \/ MxExit \/ EngClose
             \/ ExSigterm \/ Exchange \/ Over \/ UNCHANGED vars
             \/ GwTest \/ GwPop \/ GwIdle \/ GwSend \/ GwLog \/ GwRecv \/ GwNothing
             \/ GwPeerClosed \/ GwParsed \/ GwExit
    <3>1. UNCHANGED fill
      BY <2>2 DEF EngSigterm, MarketData, MdTick, MdPush, MdGiveUp, MdExit, Strategy,
                  StTest, StRetry, StPop, StPush, StGiveUp, StNext, StExit, Logger, LgPop,
                  LgExit, MxExit, EngClose, ExSigterm, Exchange, ExTest, ExRecv, ExPeerClosed,
                  ExReply, ExReplied, Over, vars, GwTest, GwPop, GwIdle, GwSend, GwLog, GwRecv,
                  GwNothing, GwPeerClosed, GwParsed, GwExit
    <3> QED BY <3>1 DEF FillMatchesItsTick
  <2> QED BY <2>1, <2>2 DEF Next, Gateway
<1> QED BY <1>1, <1>2, PipelineInvariant, PTL DEF Spec
-----------------------------------------------------------------------------
(* The whole way                                                           *)

\* s holds the numbers behind k.
Follows(s, k) == s \in Seq(Nat) /\ \A i \in 1 .. Len(s) : s[i] = k + i

\* Two stretches of the way, one behind the other, are one.
LEMMA Joining ==
    ASSUME NEW s, NEW t, NEW k \in Nat, Follows(s, k), Follows(t, k + Len(s))
    PROVE  Follows(s \o t, k) /\ Len(s \o t) = Len(s) + Len(t) /\ Len(s) \in Nat /\ Len(t) \in Nat
<1>1. s \in Seq(Nat) /\ t \in Seq(Nat) /\ Len(s) \in Nat /\ Len(t) \in Nat
  BY DEF Follows
<1>2. s \o t \in Seq(Nat) /\ Len(s \o t) = Len(s) + Len(t)
  BY <1>1
<1>3. ASSUME NEW i \in 1 .. Len(s \o t) PROVE (s \o t)[i] = k + i
  <2>1. CASE i <= Len(s)
    <3>1. (s \o t)[i] = s[i] /\ i \in 1 .. Len(s)
      BY <1>1, <1>2, <2>1
    <3> QED BY <3>1 DEF Follows
  <2>2. CASE i > Len(s)
    <3>1. (s \o t)[i] = t[i - Len(s)] /\ i - Len(s) \in 1 .. Len(t)
      BY <1>1, <1>2, <2>2
    <3>2. t[i - Len(s)] = k + Len(s) + (i - Len(s))
      BY <3>1 DEF Follows
    <3> QED BY <1>1, <3>1, <3>2
  <2> QED BY <1>1, <1>2, <2>1, <2>2
<1> QED BY <1>1, <1>2, <1>3 DEF Follows

\* A stretch of one order, or of none
LEMMA Single ==
    ASSUME NEW k \in Nat
    PROVE  /\ Follows(<<k + 1>>, k) /\ Len(<<k + 1>>) = 1
           /\ Follows(<< >>, k) /\ Len(<< >>) = 0
BY DEF Follows

\* The ids of a queue of records are a stretch when the records follow.
LEMMA Ids ==
    ASSUME NEW k \in Nat, NEW s,
           s \in Seq(OrderShape) \/ s \in Seq(ReportShape),
           \A i \in 1 .. Len(s) : s[i].id = k + i
    PROVE  Follows(IdsOf(s), k) /\ Len(IdsOf(s)) = Len(s)
<1>1. Len(s) \in Nat /\ DOMAIN s = 1 .. Len(s)
  OBVIOUS
<1>2. IdsOf(s) = [i \in 1 .. Len(s) |-> k + i]
  BY <1>1 DEF IdsOf
<1>3. IdsOf(s) \in Seq(Nat) /\ Len(IdsOf(s)) = Len(s)
  BY <1>1, <1>2
<1> QED BY <1>1, <1>2, <1>3 DEF Follows

\* A stretch is known by where it starts and how long it is.
LEMMA Stretch ==
    ASSUME NEW k \in Nat, NEW s, Follows(s, k)
    PROVE  s = [i \in 1 .. Len(s) |-> k + i]
BY DEF Follows

\* While the connection lasts, the orders under way are one stretch behind
\* the last fill, up to the last one the strategy made.
LEMMA WayOfAnOrder ==
    ASSUME PipelineInv, exUp, engUp
    PROVE  /\ Follows(Trip, fills)
           /\ fills + Len(Trip) = nos.id + Len(ring2) + (IF stPc = "push" THEN 1 ELSE 0)
<1> DEFINE Sending == IF gwPc = "send" THEN <<nos.id>> ELSE << >>
           Pushing == IF stPc = "push" THEN <<order.id>> ELSE << >>
           t1 == IdsOf(rx)
           t2 == t1 \o IdsOf(wireIn)
           t3 == t2 \o exRx
           t4 == t3 \o wireOut
           t5 == t4 \o Sending
           t6 == t5 \o IdsOf(ring2)
<1>0. Shapes /\ FillsInOrder /\ NothingDropped /\ OrdersInOrder /\ TicksInOrder
  BY DEF PipelineInv
<1>1. /\ fills \in Nat /\ Len(rx) \in Nat /\ Len(wireIn) \in Nat /\ Len(exRx) \in Nat
      /\ Len(wireOut) \in Nat /\ Len(ring2) \in Nat /\ nos.id \in Nat /\ clordid \in Nat
  BY <1>0 DEF Shapes, OrderShape
<1>2. Follows(t1, fills) /\ Len(t1) = Len(rx)
  BY <1>0, <1>1, Ids DEF Shapes, FillsInOrder
<1>3. Follows(t2, fills) /\ Len(t2) = Len(rx) + Len(wireIn)
  <2>1. Follows(IdsOf(wireIn), Received) /\ Len(IdsOf(wireIn)) = Len(wireIn)
    <3>1. Received \in Nat
      BY <1>1 DEF Received
    <3> QED BY <1>0, <3>1, Ids DEF Shapes, FillsInOrder
  <2> QED BY <1>1, <1>2, <2>1, Joining DEF Received
<1>4. /\ Answered + Len(exRx) + Len(wireOut) = OrdersSent
      /\ Follows(exRx, Answered) /\ Follows(wireOut, Answered + Len(exRx))
  BY <1>0 DEF NothingDropped, Shapes, Follows
<1>5. Answered = fills + Len(rx) + Len(wireIn)
  BY DEF Answered, Received
<1> HIDE DEF t1, t2
<1>6. Follows(t3, fills) /\ Len(t3) = Len(rx) + Len(wireIn) + Len(exRx)
  <2>1. Follows(exRx, fills + Len(t2))
    <3>1. fills + Len(t2) = Answered
      BY <1>1, <1>3, <1>5
    <3> QED BY <1>4, <3>1
  <2> QED BY <1>1, <1>3, <2>1, Joining
<1> HIDE DEF t3
<1>7. Follows(t4, fills) /\ fills + Len(t4) = OrdersSent /\ OrdersSent \in Nat
  <2>1. Follows(wireOut, fills + Len(t3))
    <3>1. fills + Len(t3) = Answered + Len(exRx)
      BY <1>1, <1>6, <1>5
    <3> QED BY <1>4, <3>1
  <2>2. Follows(t4, fills) /\ Len(t4) = Len(t3) + Len(wireOut)
    BY <1>1, <1>6, <2>1, Joining
  <2> QED BY <1>1, <1>4, <1>5, <1>6, <2>2
<1> HIDE DEF t4
<1>8. Follows(t5, fills) /\ fills + Len(t5) = nos.id
  <2>1. Follows(Sending, OrdersSent) /\ OrdersSent + Len(Sending) = nos.id
    <3>1. CASE gwPc = "send"
      <4>1. nos.id = OrdersSent + 1 /\ Sending = <<OrdersSent + 1>>
        BY <1>1, <3>1 DEF OrdersSent
      <4>2. Follows(<<OrdersSent + 1>>, OrdersSent) /\ Len(<<OrdersSent + 1>>) = 1
        BY <1>7, Single
      <4> QED BY <4>1, <4>2
    <3>2. CASE gwPc # "send"
      <4>1. nos.id = OrdersSent /\ Sending = << >>
        BY <3>2 DEF OrdersSent
      <4>2. Follows(<< >>, OrdersSent) /\ Len(<< >>) = 0
        BY <1>7, Single
      <4>3. OrdersSent + Len(Sending) = OrdersSent + 0
        BY <4>1, <4>2
      <4> QED BY <1>7, <4>1, <4>2, <4>3
    <3> QED BY <3>1, <3>2
  <2> HIDE DEF Sending
  <2>2. Follows(t5, fills) /\ Len(t5) = Len(t4) + Len(Sending) /\ Len(t4) \in Nat /\ Len(Sending) \in Nat
    <3>1. Follows(Sending, fills + Len(t4))
      BY <1>7, <2>1
    <3> QED BY <1>1, <1>7, <3>1, Joining
  <2> QED BY <1>1, <1>7, <2>1, <2>2
<1> HIDE DEF t5, Sending
<1>9. Follows(t6, fills) /\ fills + Len(t6) = nos.id + Len(ring2)
  <2>1. Follows(IdsOf(ring2), nos.id) /\ Len(IdsOf(ring2)) = Len(ring2)
    BY <1>0, <1>1, Ids DEF Shapes, OrdersInOrder
  <2>2. Follows(IdsOf(ring2), fills + Len(t5))
    BY <1>8, <2>1
  <2>3. Follows(t6, fills) /\ Len(t6) = Len(t5) + Len(ring2) /\ Len(t5) \in Nat
    BY <1>1, <1>8, <2>1, <2>2, Joining
  <2> QED BY <1>1, <1>8, <2>3
<1> HIDE DEF t6
<1>10. Trip = t6 \o Pushing
  BY DEF Trip, t6, t5, t4, t3, t2, t1, Sending
<1>11. CASE stPc = "push"
  <2>1. order.id = nos.id + Len(ring2) + 1
    <3>1. order.id = clordid /\ nos.id + Len(ring2) = clordid - 1
      BY <1>0, <1>11 DEF TicksInOrder, OrdersInOrder
    <3> QED BY <1>1, <3>1
  <2> DEFINE k == nos.id + Len(ring2)
  <2>2. k \in Nat /\ Pushing = <<k + 1>>
    BY <1>1, <1>11, <2>1
  <2>3. Follows(Pushing, k) /\ Len(Pushing) = 1
    <3> HIDE DEF k
    <3> QED BY <2>2, Single
  <2> HIDE DEF Pushing
  <2>4. Follows(t6 \o Pushing, fills) /\ Len(t6 \o Pushing) = Len(t6) + 1 /\ Len(t6) \in Nat
    BY <1>1, <1>9, <2>3, Joining
  <2> QED BY <1>1, <1>9, <1>10, <1>11, <2>4
<1>12. CASE stPc # "push"
  <2>1. Trip = t6
    <3>1. t6 \in Seq(Nat) /\ Pushing = << >>
      BY <1>9, <1>12 DEF Follows
    <3> QED BY <1>10, <3>1
  <2> QED BY <1>1, <1>9, <1>12, <2>1
<1> QED BY <1>11, <1>12

\* The rings, the threads that carry an order, the socket buffers and the
\* exchange together neither lose, duplicate nor reorder an order while the
\* connection lasts, whatever their sizes.
THEOREM NothingIsLost == Spec => []NothingLost
<1>1. PipelineInv => NothingLost
  <2> SUFFICES ASSUME PipelineInv, exUp, engUp
               PROVE  /\ \A i \in 1 .. Len(Trip) : Trip[i] = fills + i
                      /\ running => Trip \o ring1 = [i \in 1 .. seq - fills |-> fills + i]
                      /\ \A o \in {ring2[i] : i \in DOMAIN ring2} \cup {order, nos} : o.t0 = o.id
                      /\ \A i \in DOMAIN wireIn : wireIn[i].oid = wireIn[i].id + 2
    BY DEF NothingLost
  <2>0. Shapes /\ FillsInOrder /\ OrdersInOrder /\ TicksInOrder
    BY DEF PipelineInv
  <2>n. /\ fills \in Nat /\ nos.id \in Nat /\ Len(ring2) \in Nat /\ Len(ring1) \in Nat
        /\ clordid \in Nat /\ seq \in Nat /\ Received \in Nat
    BY <2>0 DEF Shapes, OrderShape, Received
  <2>1. /\ Follows(Trip, fills)
        /\ fills + Len(Trip) = nos.id + Len(ring2) + (IF stPc = "push" THEN 1 ELSE 0)
    BY WayOfAnOrder
  <2>2. \A i \in 1 .. Len(Trip) : Trip[i] = fills + i
    BY <2>1 DEF Follows
  <2>3. ASSUME running PROVE Trip \o ring1 = [i \in 1 .. seq - fills |-> fills + i]
    <3>1. seq = TicksTaken + Len(ring1) /\ nos.id + Len(ring2) = clordid - 1
      BY <2>0, <2>3 DEF TicksInOrder, OrdersInOrder
    <3>2. TicksTaken = fills + Len(Trip)
      BY <2>n, <2>1, <3>1 DEF TicksTaken
    <3>3. Follows(ring1, fills + Len(Trip))
      BY <2>0, <3>2 DEF Follows, TicksInOrder, Shapes
    <3>4. Follows(Trip \o ring1, fills) /\ Len(Trip \o ring1) = Len(Trip) + Len(ring1) /\ Len(Trip) \in Nat
      BY <2>n, <2>1, <3>3, Joining
    <3>5. Len(Trip \o ring1) = seq - fills
      BY <2>n, <3>1, <3>2, <3>4
    <3> QED BY <2>n, <3>4, <3>5, Stretch
  <2>4. \A o \in {ring2[i] : i \in DOMAIN ring2} \cup {order, nos} : o.t0 = o.id
    <3>1. DOMAIN ring2 = 1 .. Len(ring2)
      BY <2>0 DEF Shapes
    <3>2. \A i \in DOMAIN ring2 : ring2[i].t0 = ring2[i].id
      BY <2>0, <3>1 DEF OrdersInOrder
    <3>3. order.t0 = order.id /\ nos.t0 = nos.id
      BY <2>0 DEF TicksInOrder, OrdersInOrder
    <3> QED BY <3>2, <3>3
  <2>5. \A i \in DOMAIN wireIn : wireIn[i].oid = wireIn[i].id + 2
    <3>1. DOMAIN wireIn = 1 .. Len(wireIn)
      BY <2>0 DEF Shapes
    <3> QED BY <2>0, <2>n, <3>1 DEF FillsInOrder
  <2> QED BY <2>2, <2>3, <2>4, <2>5
<1> QED BY <1>1, PipelineInvariant, PTL
=============================================================================

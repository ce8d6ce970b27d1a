---------------------------- MODULE OrderEncoding ----------------------------
(***************************************************************************)
(* What one order is on its way: the tick of run_market_data, decide()     *)
(* (include/strategy.hpp), encode_nos (src/engine_main.cpp), the fields    *)
(* the exchange's handle reads, the ExecutionReport it composes and the id *)
(* the gateway reads from it.  The queues in between are TradingEngine's.  *)
(***************************************************************************)
EXTENDS FixCodec

CONSTANTS Starts,   \* ticks generated before the stretch that is looked at
          Stretch,  \* bound: orders looked at
          FixBuf    \* sizeof(OrderCtx::fix_buf)

ASSUME EncodingAssumption ==
    Starts \subseteq Nat /\ Stretch \in Nat /\ FixBuf \in Nat

kSymbols == << <<78, 73, 70, 84, 89>>,                      \* NIFTY
               <<66, 65, 78, 75, 78, 73, 70, 84, 89>>,      \* BANKNIFTY
               <<82, 69, 76, 73, 65, 78, 67, 69>>,          \* RELIANCE
               <<84, 67, 83>>,                              \* TCS
               <<73, 78, 70, 89>>,                          \* INFY
               <<72, 68, 70, 67, 66, 65, 78, 75>> >>        \* HDFCBANK
kNumSymbols == Len(kSymbols)
base_price == 10000
order_qty == 5000
TRADER == <<84, 82, 65, 68, 69, 82>>
EXCHANGE == <<69, 88, 67, 72, 65, 78, 71, 69>>

VARIABLES left,      \* orders still to look at
          seq,       \* run_market_data: ticks generated
          clordid,   \* run_strategy: the next id
          order,     \* the order decided last
          nos,       \* its encoding
          exSeq,     \* handle: the next MsgSeqNum
          report,    \* the ExecutionReport composed last
          filled,    \* what the gateway read from it
          stage

vars == <<left, seq, clordid, order, nos, exSeq, report, filled, stage>>

NoOrder == [id |-> 0, sym |-> 0, side |-> 1, px |-> 0, qty |-> 0]

\* A running engine: each tick so far became an order and was filled; the
\* logon ack had number 1, the fills the numbers behind it.
Init ==
    /\ left = Stretch
    /\ seq \in Starts
    /\ clordid = seq + 1 /\ exSeq = seq + 2
    /\ order = NoOrder /\ nos = <<>> /\ report = <<>> /\ filled = 0
    /\ stage = "tick"

\* Alternate the side by order id, quote at the mid, fixed size.
decide(t, id) ==
    [id |-> id, sym |-> t.sym, side |-> IF id % 2 = 1 THEN 1 ELSE 2,
     px |-> (t.bid + t.ask) \div 2, qty |-> order_qty]

\* The text, and not the buffers it goes to: fix_buf (112 bytes) and
\* Order::fix (120). Where it is longer than fix_buf the code's behaviour is
\* undefined, so what follows is true of the code as far as OrderFits holds.
encode_nos(o) == finalize(<<
    <<35, <<68>>>>, <<49, TRADER>>, <<56, EXCHANGE>>,
    <<34, to_chars[o.id]>>, <<11, to_chars[o.id]>>,
    <<55, kSymbols[o.sym + 1]>>, <<54, to_chars[o.side]>>,
    <<38, to_chars[o.qty]>>, <<40, <<50>>>>, <<44, to_chars[o.px]>> >>)

\* The tick, run_strategy's decision and its encoding
Decide ==
    /\ stage = "tick" /\ left > 0
    /\ LET mid == base_price + ((seq % 20) - 10) * 5
           tick == [sym |-> seq % kNumSymbols, bid |-> mid - 5, ask |-> mid + 5]
       IN  order' = decide(tick, clordid)
    /\ nos' = encode_nos(order')
    /\ seq' = seq + 1
    /\ clordid' = clordid + 1
    /\ left' = left - 1
    /\ stage' = "exchange"
    /\ UNCHANGED <<exSeq, report, filled>>

\* The test for a missing field turned round
OrInverted(text, default) == IF text # <<>> THEN default ELSE text

\* A text, or a default when the field is missing
Or(text, default) == IF text = <<>> THEN default ELSE text

\* send_msg: session fields, with any fixed timestamp of 21 bytes.  The
\* number is taken and incremented before the body reads seq again.
Timestamp == [k \in 1 .. 21 |-> 48]
SessionFields(mtype) ==
    << <<35, mtype>>, <<49, EXCHANGE>>, <<56, TRADER>>,
       <<34, to_chars[exSeq]>>, <<52, Timestamp>> >>

\* handle: a NewOrderSingle is filled at once.
Fill ==
    /\ stage = "exchange"
    /\ get(nos, 35) = <<68>>
    /\ exSeq' = exSeq + 1
    /\ report' = finalize(SessionFields(<<56>>) \o <<
           <<37, to_chars[exSeq']>>, <<11, get(nos, 11)>>, <<17, to_chars[exSeq']>>,
           <<150, <<50>>>>, <<39, <<50>>>>,
           <<55, Or(get(nos, 55), kSymbols[1])>>, <<54, Or(get(nos, 54), <<49>>)>>,
           <<38, Or(get(nos, 38), <<49>>)>>, <<32, Or(get(nos, 38), <<49>>)>>,
           <<31, Or(get(nos, 44), <<48>>)>> >>)
    /\ stage' = "fill"
    /\ UNCHANGED <<left, seq, clordid, order, nos, filled>>

\* run_gateway: an ExecutionReport, looked up by its ClOrdID
Match ==
    /\ stage = "fill"
    /\ get(report, 35) = <<56>>
    /\ filled' = get_int(report, 11)
    /\ stage' = "tick"
    /\ UNCHANGED <<left, seq, clordid, order, nos, exSeq, report>>

\* The stretch is over.
Over == stage = "tick" /\ left = 0 /\ UNCHANGED vars

Next == Decide \/ Fill \/ Match \/ Over
Spec == Init /\ [][Next]_vars
-----------------------------------------------------------------------------
(* Properties                                                              *)

\* From the tick to the fill nothing changes an order although it goes
\* through two texts: the report names the order's id, symbol, side,
\* quantity and price, and the price is the mid of the tick, within the
\* half band of 50 ticks around the base price.
OrderSurvives ==
    /\ order # NoOrder => order.px \in base_price - 50 .. base_price + 50
    /\ stage = "tick" /\ filled # 0 =>
        /\ filled = order.id
        /\ get(report, 55) = kSymbols[order.sym + 1]
        /\ get_int(report, 54) = order.side
        /\ get_int(report, 38) = order.qty /\ get_int(report, 32) = order.qty
        /\ get_int(report, 31) = order.px

\* Both messages are well formed for any FIX reader: the framer takes them
\* as one message each whatever follows, and the checksum is right.
WellFormed ==
    \A m \in {nos, report} \ {<<>>} :
        /\ frame(m \o m) = [msg |-> m, size |-> Len(m)]
        /\ get_int(m, 10) = checksum(SubSeq(m, 1, Len(m) - 7))
        /\ get_int(m, 9) = Len(m) - 7 - Find(m, <<SOH>>, 11)

\* messages.hpp:61, fix_buf is "room for the encoded NewOrderSingle", into
\* which encode_nos writes without a limit: holds as long as the ids have at
\* most seven digits.
OrderFits == Len(nos) <= FixBuf
=============================================================================

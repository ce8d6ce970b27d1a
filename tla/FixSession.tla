----------------------------- MODULE FixSession ------------------------------
(* How the engine gets to trade, and gets back to it: main connects and    *)
(* logs on before it starts the pipeline, the exchange serves one client   *)
(* at a time, and systemd restarts a program that failed, the engine also  *)
(* when the exchange it Requires did. Either program may be killed, the    *)
(* units may be stopped and started again, and the beginning-of-day checks *)
(* probe the exchange's port.                                              *)
EXTENDS Naturals, Sequences
CONSTANTS
    Backlog,    \* connections that may wait for accept: listen(fd, 4)
    MaxOut,     \* bound of the model: orders and fills under way
    MaxKills,   \* bound of the model: SIGKILLs of each program, failed listens
    MaxStops,   \* bound of the model: stops of the units
    MaxProbes   \* bound of the model: probes of the port

ASSUME SessionAssumption ==
    /\ Backlog \in Nat \ {0} /\ MaxOut \in Nat \ {0}
    /\ MaxKills \in Nat /\ MaxStops \in Nat /\ MaxProbes \in Nat

VARIABLES
    en,        \* where the engine's main, or its unit, is
    enWanted,  \* the engine's unit is to run; FALSE once it is told to stop
    enRun,     \* g_running of the engine's process, or of the next one
    inbox,     \* messages to the engine it has not received
    leftover,  \* messages do_logon's framer held when it was destroyed
    ex,        \* where the exchange, or its unit, is
    exRun,     \* g_run of the exchange
    line,      \* connections, the one being served or the oldest first
    enKills, exKills, stops, probes

enVars == <<en, enWanted, enRun, inbox, leftover>>
exVars == <<ex, exRun>>
bounds == <<enKills, exKills, stops, probes>>
vars == <<enVars, exVars, line, bounds>>

Connection == [who: {"engine", "probe"}, msgs: Seq({"logon", "order"}), open: BOOLEAN]

(* "open" is the client's end. A process that ends closes its sockets.     *)
Closed(l) == [i \in DOMAIN l |->
                IF l[i].who = "engine" THEN [l[i] EXCEPT !.open = FALSE] ELSE l[i]]
Mine == {i \in DOMAIN line : line[i].who = "engine" /\ line[i].open}
Connected == Mine # {}
Trading == en = "trade" /\ Connected

(* Each program is between its start and its exit; the exchange's socket   *)
(* listens; it has a client.                                               *)
EnUp == en \notin {"down", "stopped"}
ExUp == ex \notin {"down", "stopped"}
Listening == ex \in {"accept", "test", "recv"} /\ exRun
Serving == ex \in {"test", "recv"}

Init == /\ en = "down" /\ enWanted = TRUE /\ enRun = TRUE /\ inbox = <<>> /\ leftover = <<>>
        /\ ex = "down" /\ exRun = TRUE /\ line = <<>>
        /\ enKills = 0 /\ exKills = 0 /\ stops = 0 /\ probes = 0

(***************************************************************************)
(* systemd and the operator. A unit that is "down" is to be started: at    *)
(* boot, RestartSec after a failure, or in the restart of what it          *)
(* Requires. "stopped" is for good.                                        *)
(***************************************************************************)
(* After=: the exchange was started, which is not that it listens.         *)
EnStart == /\ en = "down" /\ ExUp
           /\ en' = "connect"
           /\ UNCHANGED <<enWanted, enRun, inbox, leftover, exVars, line, bounds>>

(* systemd's restart of the exchange restarts the engine along with it,    *)
(* as Requires= says: SIGTERM to an engine that is up. After= has it end   *)
(* before the exchange starts.                                             *)
ExRestart == /\ ex = "down" /\ EnUp /\ enRun
             /\ enRun' = FALSE
             /\ UNCHANGED <<en, enWanted, inbox, leftover, exVars, line, bounds>>

ExStartAlone ==                         \* Wants= in place of Requires=
    /\ ex = "down"
    /\ ex' = "listen"
    /\ UNCHANGED <<enVars, exRun, line, bounds>>
ExStart == /\ ex = "down" /\ ~EnUp
           /\ ex' = "listen"
           /\ UNCHANGED <<enVars, exRun, line, bounds>>

(* The engine's process ends, by return from main, by its status or by     *)
(* SIGKILL: Restart=on-failure, or a restart under way, starts the next    *)
(* one, unless the unit was told to stop.                                  *)
EnEnd == /\ en' = IF enWanted THEN "down" ELSE "stopped"
         /\ enRun' = TRUE
         /\ inbox' = <<>>
         /\ line' = Closed(line)

EnKill == /\ EnUp /\ enKills < MaxKills
          /\ EnEnd
          /\ enKills' = enKills + 1
          /\ UNCHANGED <<enWanted, leftover, exVars, exKills, stops, probes>>

(* The exchange's process fails and its sockets close: clients get what it *)
(* sent, then an end.                                                      *)
ExFail == /\ exKills < MaxKills
          /\ ex' = IF exRun THEN "down" ELSE "stopped"
          /\ line' = <<>>
          /\ exKills' = exKills + 1
          /\ UNCHANGED <<enVars, exRun, enKills, stops, probes>>
ExKill == ExUp /\ ExFail

(* systemctl stop trading-engine: SIGTERM to a running process.            *)
EnStop == /\ enWanted /\ stops < MaxStops
          /\ enWanted' = FALSE
          /\ enRun' = ~EnUp
          /\ en' = IF EnUp THEN en ELSE "stopped"
          /\ stops' = stops + 1
          /\ UNCHANGED <<inbox, leftover, exVars, line, enKills, exKills, probes>>

(* systemctl stop mock-exchange: the engine Requires it and comes After    *)
(* it, so it is stopped first. The handler shuts the listening socket      *)
(* down, which drops the clients that wait.                                *)
ExStop == /\ exRun /\ en = "stopped"
          /\ exRun' = FALSE
          /\ ex' = IF ExUp THEN ex ELSE "stopped"
          /\ line' = IF Serving THEN <<Head(line)>> ELSE <<>>
          /\ UNCHANGED <<enVars, bounds>>

(* systemctl start trading-engine, which starts what it Requires.          *)
UnitStart == /\ en = "stopped"
             /\ exRun \/ ex = "stopped"
             /\ en' = "down" /\ enWanted' = TRUE
             /\ ex' = IF exRun THEN ex ELSE "down"
             /\ exRun' = TRUE
             /\ UNCHANGED <<enRun, inbox, leftover, line, bounds>>

(***************************************************************************)
(* The engine's main thread: connect, logon, run the pipeline.             *)
(***************************************************************************)
EnConnect == /\ en = "connect" /\ Listening /\ Len(line) <= Backlog
             /\ line' = Append(line, [who |-> "engine", msgs |-> <<>>, open |-> TRUE])
             /\ en' = "hello"
             /\ UNCHANGED <<enWanted, enRun, inbox, leftover, exVars, bounds>>

EnRefused == /\ en = "connect" /\ ~Listening
             /\ EnEnd
             /\ UNCHANGED <<enWanted, leftover, exVars, bounds>>

Send(m) == line' = [i \in DOMAIN line |->
              IF i \in Mine THEN [line[i] EXCEPT !.msgs = Append(@, m)] ELSE line[i]]

(* The logon goes out, or the connection is gone and so is the engine.     *)
EnHelloEager ==                         \* goes on without an answer
    /\ en = "hello" /\ Connected
    /\ Send("logon") /\ en' = "trade"
    /\ UNCHANGED <<enWanted, enRun, inbox, leftover, exVars, bounds>>
EnHelloPipelined ==                     \* the first order behind the logon
    /\ en = "hello" /\ Connected
    /\ line' = [i \in DOMAIN line |-> IF i \in Mine
          THEN [line[i] EXCEPT !.msgs = <<"logon", "order">>] ELSE line[i]]
    /\ en' = "test"
    /\ UNCHANGED <<enWanted, enRun, inbox, leftover, exVars, bounds>>
EnHello == /\ en = "hello" /\ Connected
           /\ Send("logon")
           /\ en' = "test"
           /\ UNCHANGED <<enWanted, enRun, inbox, leftover, exVars, bounds>>

EnHelloFails == /\ en = "hello" /\ ~Connected
                /\ EnEnd
                /\ UNCHANGED <<enWanted, leftover, exVars, bounds>>

(* The loop tests g_running before each recv; a recv that a signal         *)
(* interrupts is restarted. The answer is one short segment, so the first  *)
(* recv that returns holds it and the fifty tries are not used up.         *)
EnTest == /\ en = "test" /\ enRun
          /\ en' = "recv"
          /\ UNCHANGED <<enWanted, enRun, inbox, leftover, exVars, line, bounds>>

EnTestFails == /\ en = "test" /\ ~enRun
               /\ EnEnd
               /\ UNCHANGED <<enWanted, leftover, exVars, bounds>>

(* Frame what came until the ack, then drop the framer with the rest.      *)
EnLogon == /\ en = "recv"
           /\ \E k \in 1..Len(inbox) : \E a \in 1..k :
                /\ inbox[a] = "ack" /\ \A i \in 1..(a - 1) : inbox[i] # "ack"
                /\ leftover' = SubSeq(inbox, a + 1, k)
                /\ inbox' = SubSeq(inbox, k + 1, Len(inbox))
           /\ en' = "trade"
           /\ UNCHANGED <<enWanted, enRun, exVars, line, bounds>>

EnLogonFails == /\ en = "recv" /\ inbox = <<>> /\ ~Connected
                /\ EnEnd
                /\ UNCHANGED <<enWanted, leftover, exVars, bounds>>

(* The pipeline, in short: orders go out, fills come in.                   *)
EnOrder == /\ en = "trade" /\ enRun
           /\ \E i \in Mine : Len(line[i].msgs) + Len(inbox) < MaxOut
           /\ Send("order")
           /\ UNCHANGED <<enVars, exVars, bounds>>

EnFill == /\ en = "trade" /\ inbox # <<>>
          /\ \E k \in 1..Len(inbox) : inbox' = SubSeq(inbox, k + 1, Len(inbox))
          /\ UNCHANGED <<en, enWanted, enRun, leftover, exVars, line, bounds>>

(* recv returns 0 or an error: the gateway thread ends, and nothing else   *)
(* does. The process stays up without a connection to trade on.            *)
EnDeaf == /\ en = "trade" /\ inbox = <<>> /\ ~Connected
          /\ en' = "deaf"
          /\ UNCHANGED <<enWanted, enRun, inbox, leftover, exVars, line, bounds>>

(* The threads see g_running, main joins them, closes and returns 0.       *)
EnExit == /\ en \in {"trade", "deaf"} /\ ~enRun
          /\ EnEnd
          /\ UNCHANGED <<enWanted, leftover, exVars, bounds>>

(***************************************************************************)
(* The exchange's main and its handler.                                    *)
(***************************************************************************)
ExListen == /\ ex = "listen"
            /\ ex' = "accept"
            /\ UNCHANGED <<enVars, exRun, line, bounds>>

(* The port is taken: main returns 1.                                      *)
ExListenFails == ex = "listen" /\ ExFail

ExAccept == /\ ex = "accept" /\ exRun /\ line # <<>>
            /\ ex' = "test"
            /\ UNCHANGED <<enVars, exRun, line, bounds>>

Hangup == ex' = "accept" /\ line' = Tail(line)

ExTest == /\ ex = "test"
          /\ \/ exRun /\ ex' = "recv" /\ UNCHANGED line
             \/ ~exRun /\ Hangup
          /\ UNCHANGED <<enVars, exRun, bounds>>

(* Replies to a client that is gone go nowhere; their result is ignored.   *)
Reply(m) == IF m = "logon" THEN "ack" ELSE "fill"

ExRecv == /\ ex = "recv" /\ Head(line).msgs # <<>>
          /\ \E k \in 1..Len(Head(line).msgs) :
               LET got == SubSeq(Head(line).msgs, 1, k)
                   rest == SubSeq(Head(line).msgs, k + 1, Len(Head(line).msgs))
               IN  /\ line' = [line EXCEPT ![1].msgs = rest]
                   /\ inbox' = IF 1 \in Mine
                               THEN inbox \o [i \in DOMAIN got |-> Reply(got[i])]
                               ELSE inbox
          /\ ex' = "test"
          /\ UNCHANGED <<en, enWanted, enRun, leftover, exRun, bounds>>

ExPeerClosed == /\ ex = "recv" /\ Head(line).msgs = <<>> /\ ~Head(line).open
                /\ Hangup
                /\ UNCHANGED <<enVars, exRun, bounds>>

ExExit == /\ ex = "accept" /\ ~exRun
          /\ ex' = "stopped" /\ line' = <<>>
          /\ UNCHANGED <<enVars, exRun, bounds>>

(***************************************************************************)
(* nc -z of the beginning-of-day checks: connect, then close.              *)
(***************************************************************************)
Probe == /\ Listening /\ Len(line) <= Backlog /\ probes < MaxProbes
         /\ line' = Append(line, [who |-> "probe", msgs |-> <<>>, open |-> TRUE])
         /\ probes' = probes + 1
         /\ UNCHANGED <<enVars, exVars, enKills, exKills, stops>>

ProbeClose == \E i \in DOMAIN line :
    /\ line[i].who = "probe" /\ line[i].open
    /\ line' = [line EXCEPT ![i].open = FALSE]
    /\ UNCHANGED <<enVars, exVars, bounds>>

(***************************************************************************)
EnStep == EnConnect \/ EnRefused \/ EnHello \/ EnHelloFails \/ EnTest \/ EnTestFails
            \/ EnLogon \/ EnLogonFails \/ EnExit \/ EnDeaf \/ EnFill
ExStep == ExListen \/ ExAccept \/ ExTest \/ ExRecv \/ ExPeerClosed \/ ExExit
Systemd == EnStart \/ ExRestart \/ ExStart
Outside == EnKill \/ ExKill \/ ExListenFails \/ EnStop \/ ExStop \/ UnitStart \/ Probe

Next == EnStep \/ EnOrder \/ ExStep \/ Systemd \/ Outside \/ ProbeClose

Spec == Init /\ [][Next]_vars

(***************************************************************************)
(* Properties.                                                             *)
(***************************************************************************)
(* Every variable has its type, at most Backlog clients wait behind one    *)
(* that is served or about to be, and a handler has a client: on_signal    *)
(* and the loop around accept never take it away.                          *)
TypeOK ==
    /\ en \in {"down", "connect", "hello", "test", "recv", "trade", "deaf", "stopped"}
    /\ ex \in {"down", "listen", "accept", "test", "recv", "stopped"}
    /\ enWanted \in BOOLEAN /\ enRun \in BOOLEAN /\ exRun \in BOOLEAN
    /\ inbox \in Seq({"ack", "fill"}) /\ leftover \in Seq({"ack", "fill"})
    /\ line \in Seq(Connection) /\ Len(line) <= Backlog + 1
    /\ Serving => line # <<>>
    /\ enKills \in 0..MaxKills /\ exKills \in 0..MaxKills
    /\ stops \in 0..MaxStops /\ probes \in 0..MaxProbes

(* do_logon frames the stream with a framer of its own and destroys it:    *)
(* no message is ever in it behind the logon's answer, whatever recv       *)
(* returned at once, so the gateway's framer misses nothing.               *)
NothingDiscarded == leftover = <<>>

(* An engine that trades is the client the exchange serves: its orders     *)
(* never sit in the backlog behind a probe or behind the connection of its *)
(* own predecessor, which the acceptor may still be serving.               *)
ServedWhenTrading == Trading => Serving /\ Mine = {1}

(* systemd's restarts heal: after a crash of either program in whatever    *)
(* state the other is, and after every connect that came too early, the    *)
(* engine trades again, unless its unit was told to stop. An engine whose  *)
(* gateway thread ended because the exchange crashed reports no failure of *)
(* its own: it is the exchange's restart that takes it along.              *)
SelfHeals == ~Trading ~> Trading \/ ~enWanted

(* A stop completes without systemd having to kill: the engine leaves      *)
(* main's logon or its pipeline, and the exchange its handler's recv, from *)
(* wherever the signal found them. The engine then stays down only if its  *)
(* unit was to stop; when the exchange's restart sent the signal it is to  *)
(* be started.                                                             *)
StopCompletes == /\ ~enRun ~> ~EnUp
                 /\ ~enWanted ~> en = "stopped"
                 /\ ~exRun ~> ex = "stopped"
=============================================================================

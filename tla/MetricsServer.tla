---------------------------- MODULE MetricsServer ----------------------------
(* The engine as a unit: the session of FixSession together with the       *)
(* metrics thread, which serves the page on :8000 to one client at a time, *)
(* and its clients: netdata's plugin, curl, or anything that connects.     *)
EXTENDS FixSession
CONSTANTS Asker,  \* clients that send a request
          Mute    \* clients that connect and send nothing

ASSUME ClientAssumption == Asker \cap Mute = {}

VARIABLES mx,    \* where the metrics thread is
          page   \* its connections, the accepted one or the oldest first
mxVars == <<mx, page>>
unitVars == <<vars, mxVars>>

Client == Asker \cup Mute
Visit == [who: Client, open: BOOLEAN]
Waits(c) == \E i \in DOMAIN page : page[i] = [who |-> c, open |-> TRUE]

UnitInit == Init /\ mx = "off" /\ page = <<>>

(***************************************************************************)
(* run_metrics.                                                            *)
(***************************************************************************)
(* Without the port the thread ends, and the engine goes on without it.    *)
MxListen == /\ mx = "listen"
            /\ mx' \in {"test", "done"}
            /\ UNCHANGED page

(* The end of the loop closes the listening socket on those who wait.      *)
MxTestForever == /\ mx = "test" /\ mx' = "accept" /\ UNCHANGED page  \* while (true)
MxTest == /\ mx = "test"
          /\ \/ enRun /\ mx' = "accept" /\ UNCHANGED page
             \/ ~enRun /\ mx' = "done" /\ page' = <<>>

(* accept returns a client, or fails after 200 ms or for a signal.         *)
MxAcceptUnchecked == mx = "accept" /\ mx' = "recv" /\ UNCHANGED page \* no test of fd
MxAccept == /\ mx = "accept"
            /\ mx' = IF page = <<>> THEN "test" ELSE "recv"
            /\ UNCHANGED page

(* The accepted socket inherits the timeout: a request, the client's end,  *)
(* or 200 ms without either.                                               *)
MxRecv == /\ mx = "recv"
          /\ Head(page).who \in Asker \/ ~Head(page).open
          /\ mx' = "reply"
          /\ UNCHANGED page

MxRecvBlocks == FALSE                   \* no SO_RCVTIMEO on the accepted socket
MxRecvTimeout == /\ mx = "recv"
                 /\ Head(page).who \in Mute /\ Head(page).open
                 /\ mx' = "reply"
                 /\ UNCHANGED page

(* Build the page, send it whoever is there, and close.                    *)
MxReply == mx = "reply" /\ mx' = "test" /\ page' = Tail(page)

(***************************************************************************)
(* The clients. An asker waits for the page or its own timeout.            *)
(***************************************************************************)
MxListens == mx \in {"test", "accept", "recv", "reply"}

Visits(c) == /\ MxListens /\ Len(page) <= Backlog /\ ~Waits(c)
             /\ page' = Append(page, [who |-> c, open |-> TRUE])
             /\ UNCHANGED mx

GivesUp(c) == /\ Waits(c)
              /\ page' = [i \in DOMAIN page |-> [page[i] EXCEPT !.open = @ /\ page[i].who # c]]
              /\ UNCHANGED mx

(***************************************************************************)
(* The unit: main starts the thread after the logon and joins it at the    *)
(* end; a process that is killed takes it along.                           *)
(***************************************************************************)
UnitLogon == EnLogon /\ mx' = "listen" /\ UNCHANGED page
UnitExit == mx = "done" /\ EnExit /\ mx' = "off" /\ UNCHANGED page
UnitKill == EnKill /\ mx' = "off" /\ page' = <<>>

Pipeline == \/ UnitLogon \/ UnitExit
            \/ /\ \/ EnConnect \/ EnRefused \/ EnHello \/ EnHelloFails \/ EnTest
                  \/ EnTestFails \/ EnLogonFails \/ EnDeaf \/ EnFill
               /\ UNCHANGED mxVars
Exchange == ExStep /\ UNCHANGED mxVars
Units == Systemd /\ UNCHANGED mxVars
Others == \/ UnitKill
          \/ /\ EnOrder \/ ExKill \/ ExListenFails \/ EnStop \/ ExStop \/ UnitStart \/ Probe
             /\ UNCHANGED mxVars
MxStep == (MxListen \/ MxTest \/ MxAccept \/ MxRecv \/ MxRecvTimeout \/ MxReply) /\ UNCHANGED vars
Clients == (\E c \in Client : Visits(c) \/ GivesUp(c)) /\ UNCHANGED vars

UnitNext == \/ Pipeline \/ Exchange \/ Units \/ Others
            \/ (ProbeClose /\ UNCHANGED mxVars)
            \/ MxStep \/ Clients

(* Each thread, systemd's restarts and nc go on. Kills, failed listens,    *)
(* stops, starts, probes, orders and the page's clients need not happen.   *)
UnitSpec == /\ UnitInit /\ [][UnitNext]_unitVars
            /\ WF_unitVars(Pipeline) /\ WF_unitVars(Exchange) /\ WF_unitVars(MxStep)
            /\ WF_unitVars(EnStart /\ UNCHANGED mxVars)
            /\ WF_unitVars(ExRestart /\ UNCHANGED mxVars)
            /\ WF_unitVars(ExStart /\ UNCHANGED mxVars)
            /\ WF_unitVars(ProbeClose /\ UNCHANGED mxVars)

(***************************************************************************)
(* Properties.                                                             *)
(***************************************************************************)
(* Besides the types of FixSession: the metrics thread lives while the     *)
(* pipeline does, its recv and its send have a client, and nobody waits at *)
(* a socket that was closed.                                               *)
UnitTypeOK == /\ TypeOK
              /\ mx \in {"off", "listen", "done"} \/ MxListens
              /\ page \in Seq(Visit) /\ Len(page) <= Backlog + 1
              /\ mx # "off" <=> en \in {"trade", "deaf"}
              /\ mx \in {"recv", "reply"} => page # <<>>
              /\ page # <<>> => MxListens

(* Whoever asks for the page stops waiting: clients that connect and send  *)
(* nothing, however many come and go, hold the thread in recv for 200 ms   *)
(* each and no longer.                                                     *)
ScrapesAnswered == \A c \in Asker : Waits(c) ~> ~Waits(c)
=============================================================================

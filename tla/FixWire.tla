------------------------------- MODULE FixWire -------------------------------
(***************************************************************************)
(* One direction of the FIX connection, byte by byte: net::send_all with   *)
(* its partial writes, a socket buffer smaller than a message, recv in     *)
(* chunks that end anywhere, and the Framer behind it (include/net.hpp,    *)
(* include/fix.hpp; the loops of run_gateway and of the exchange's handle).*)
(***************************************************************************)
EXTENDS FixCodec

CONSTANTS Messages,   \* the messages, as sequences of fields
          MaxSent,    \* bound: messages sent
          WireCap,    \* the socket buffers, in bytes
          RbufSize    \* sizeof(rbuf): the most one recv returns

ASSUME WireAssumption == {MaxSent, WireCap, RbufSize} \subseteq Nat \ {0}

\* What the code gives the Builder: no tag twice and none of those that
\* finalize puts in front, no separator in a value.
ASSUME MessageAssumption ==
    \A m \in Messages :
        /\ m \in Seq(Nat \X Seq(Nat))
        /\ \A j \in DOMAIN m :
              /\ m[j][1] \notin {8, 9} /\ SOH \notin Range(m[j][2])
              /\ \A i \in DOMAIN m : m[i][1] = m[j][1] => i = j

VARIABLES out, sent,   \* send_all: the buffer p and how much of it was sent
          wire,        \* bytes between the two sockets
          buf_, rpc,   \* the receiver's framer and where its loop is
          got,         \* messages taken from the framer
          posted       \* history: the messages given to send_all, as fields

wireVars == <<out, sent, wire, buf_, rpc, got, posted>>

WireInit ==
    /\ out = <<>> /\ sent = 0 /\ wire = <<>>
    /\ buf_ = <<>> /\ rpc = "recv" /\ got = <<>> /\ posted = <<>>

\* finalize and the call of send_all, which returned from the call before
Post(m) ==
    /\ sent = Len(out)
    /\ Len(posted) < MaxSent
    /\ out' = finalize(m) /\ sent' = 0
    /\ posted' = Append(posted, m)
    /\ UNCHANGED <<wire, buf_, rpc, got>>

\* After a partial write, start over with the whole buffer
SendAgain ==
    /\ sent < Len(out)
    /\ \E r \in 1 .. WireCap - Len(wire) :
          /\ r <= Len(out) - sent
          /\ wire' = wire \o SubSeq(out, sent + 1, sent + r)
          /\ sent' = IF sent + r = Len(out) THEN Len(out) ELSE 0
    /\ UNCHANGED <<out, buf_, rpc, got, posted>>

\* send takes r bytes; with no room it fails with EAGAIN and is retried.
Send ==
    /\ sent < Len(out)
    /\ \E r \in 1 .. WireCap - Len(wire) :
          /\ r <= Len(out) - sent
          /\ wire' = wire \o SubSeq(out, sent + 1, sent + r)
          /\ sent' = sent + r
    /\ UNCHANGED <<out, buf_, rpc, got, posted>>

\* recv returns any number of the bytes that are there; append.
Recv ==
    /\ rpc = "recv"
    /\ \E r \in 1 .. RbufSize :
          /\ r <= Len(wire)
          /\ buf_' = buf_ \o SubSeq(wire, 1, r)
          /\ wire' = SubSeq(wire, r + 1, Len(wire))
    /\ rpc' = "next"
    /\ UNCHANGED <<out, sent, got, posted>>

\* framer.next() returns a message
TakeFrame ==
    /\ rpc = "next"
    /\ frame(buf_) # None
    /\ got' = Append(got, frame(buf_).msg)
    /\ buf_' = SubSeq(buf_, frame(buf_).size + 1, Len(buf_))
    /\ UNCHANGED <<out, sent, wire, rpc, posted>>

\* framer.next() returns nullopt: back to recv
NoFrame ==
    /\ rpc = "next"
    /\ frame(buf_) = None
    /\ rpc' = "recv"
    /\ UNCHANGED <<out, sent, wire, buf_, got, posted>>

\* Everything was sent and read: the receiver waits.
Quiet ==
    /\ Len(posted) = MaxSent /\ sent = Len(out) /\ wire = <<>> /\ rpc = "recv"
    /\ UNCHANGED wireVars

Receiver == Recv \/ TakeFrame \/ NoFrame
WireNext == (\E m \in Messages : Post(m)) \/ Send \/ Receiver \/ Quiet

WireSpec == WireInit /\ [][WireNext]_wireVars
-----------------------------------------------------------------------------
(* Properties                                                              *)

\* However send_all and recv cut the stream, what the framer returns are the
\* messages that were built, whole and in order, and every field is read
\* back with the value it was given.
FramesAreMessages ==
    \A k \in DOMAIN got :
        /\ got[k] = finalize(posted[k])
        /\ \A f \in Range(posted[k]) : get(got[k], f[1]) = f[2]

\* The framer holds nothing back: when the loop returns to recv, every
\* message whose last byte was received has been handled; when all bytes
\* were received, all of them.
NothingHeldBack ==
    rpc = "recv" =>
        /\ Len(got) < Len(posted) =>
              Len(buf_) < Len(finalize(posted[Len(got) + 1]))
        /\ sent = Len(out) /\ wire = <<>> => Len(got) = Len(posted)
=============================================================================

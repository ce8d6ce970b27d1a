------------------------------ MODULE FixCodec -------------------------------
(***************************************************************************)
(* include/fix.hpp: how a FIX message is built, read and cut out of a byte *)
(* stream.  A byte is its number, a text a sequence of bytes; a message is *)
(* given to the Builder as a sequence of fields <<tag, value>>.            *)
(***************************************************************************)
EXTENDS Integers, SequencesExt

SOH == 1
EQ == 61  \* '='
FIX42 == <<70, 73, 88, 46, 52, 46, 50>>

(* <charconv>                                                              *)
to_chars[n \in Nat] ==
    IF n < 10 THEN <<48 + n>> ELSE Append(to_chars[n \div 10], 48 + (n % 10))

\* The number at the front of s; def when there is none
from_chars(s, def) ==
    LET n == Max({k \in 0 .. Len(s) : \A j \in 1 .. k : s[j] \in 48 .. 57})
        value[k \in 0 .. n] == IF k = 0 THEN 0 ELSE 10 * value[k - 1] + (s[k] - 48)
    IN  IF n = 0 THEN def ELSE value[n]

\* std::string::find: the first place of pat at or after from, 0 for npos
Find(s, pat, from) ==
    LET at == {k \in from .. Len(s) - Len(pat) + 1 :
                  \A j \in 1 .. Len(pat) : s[k + j - 1] = pat[j]}
    IN  IF at = {} THEN 0 ELSE Min(at)
-----------------------------------------------------------------------------
(* Builder                                                                 *)

checksum(bytes) ==
    LET sum[k \in 0 .. Len(bytes)] == IF k = 0 THEN 0 ELSE sum[k - 1] + bytes[k]
    IN  sum[Len(bytes)] % 256

write_field(tag, val) == to_chars[tag] \o <<EQ>> \o val \o <<SOH>>

\* What reset and the calls of add leave in body_
Body(fields) == FlattenSeq([j \in DOMAIN fields |-> write_field(fields[j][1], fields[j][2])])

\* The three digits of the checksum
Three(ck) == <<48 + (ck \div 100), 48 + ((ck \div 10) % 10), 48 + (ck % 10)>>

\* BodyLength of everything that precedes the trailer
finalize_whole(fields) ==
    LET body == Body(fields)
        head == write_field(8, FIX42) \o write_field(9, to_chars[Len(body) + 7]) \o body
    IN  head \o write_field(10, Three(checksum(head)))

finalize(fields) ==
    LET body == Body(fields)
        head == write_field(8, FIX42) \o write_field(9, to_chars[Len(body)]) \o body
    IN  head \o write_field(10, Three(checksum(head)))
-----------------------------------------------------------------------------
(* View                                                                    *)

\* The value of the first field with this tag, empty when there is none
get(msg, tag) ==
    LET scan[k \in 1 .. Len(msg) + 2] ==
            LET eq == Find(msg, <<EQ>>, k)
                end == Find(msg, <<SOH>>, eq + 1)
                soh == IF end = 0 THEN Len(msg) + 1 ELSE end
            IN  IF k > Len(msg) \/ eq = 0 THEN <<>>
                ELSE IF from_chars(SubSeq(msg, k, eq - 1), 0) = tag
                     THEN SubSeq(msg, eq + 1, soh - 1)
                     ELSE scan[soh + 1]
    IN  scan[1]

get_int(msg, tag) == from_chars(get(msg, tag), 0)
-----------------------------------------------------------------------------
(* Framer                                                                  *)

None == [msg |-> <<>>, size |-> 0]

\* A message is due only when a byte behind it has come
frame_late(buf) ==
    LET s == Find(buf, <<56, EQ>>, 1)
        nine == Find(buf, <<SOH, 57, EQ>>, s)
        soh == Find(buf, <<SOH>>, nine + 3)
        end == soh + from_chars(SubSeq(buf, nine + 3, soh - 1), 0) + 7
    IN  IF s = 0 \/ nine = 0 \/ soh = 0 \/ Len(buf) <= end THEN None
        ELSE [msg |-> SubSeq(buf, s, end), size |-> end]

\* Framer::next on the buffered bytes: the message and how many bytes are
\* erased with it, or None.
frame(buf) ==
    LET s == Find(buf, <<56, EQ>>, 1)
        nine == Find(buf, <<SOH, 57, EQ>>, s)
        soh == Find(buf, <<SOH>>, nine + 3)
        end == soh + from_chars(SubSeq(buf, nine + 3, soh - 1), 0) + 7
    IN  IF s = 0 \/ nine = 0 \/ soh = 0 \/ Len(buf) < end THEN None
        ELSE [msg |-> SubSeq(buf, s, end), size |-> end]
=============================================================================

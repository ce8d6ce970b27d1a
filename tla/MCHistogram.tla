----------------------------- MODULE MCHistogram -----------------------------
(* Histogram for TLC: a few sub-buckets and octaves instead of 64 and 40.  *)
EXTENDS Histogram

\* A value of the range and the first one beyond it
BeyondRange == {1, 2^kMaxOctave}
=============================================================================

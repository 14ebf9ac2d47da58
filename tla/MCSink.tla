------------------------------- MODULE MCSink -------------------------------
\* Model-checking instance of Sink.
EXTENDS Sink

\* Bytes on each side of the counters 0, 4 and 6 the code compares with.
MCStarveBytes == {0, 4, 255}
=============================================================================

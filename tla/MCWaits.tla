------------------------------- MODULE MCWaits -------------------------------
EXTENDS Waits

\* Up to three characters.
SmallHeaders == UNION {[1..n -> {0, 2, 4, 6, 9, 10}]: n \in 0..3}
=============================================================================

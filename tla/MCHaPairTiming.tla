--------------------------- MODULE MCHaPairTiming ---------------------------
\* HaPairTiming on the pair of PairConfig.
EXTENDS HaPairTiming, PairConfig
=============================================================================

------------------------------ MODULE MCHaPair ------------------------------
\* HaPair on the pair of PairConfig.
EXTENDS HaOwnership, PairConfig
=============================================================================

----------------------------- MODULE MCCheques -----------------------------
\* One cheque of any kind, two workers that serve four requests on it, a receipt allocated to two sales.
EXTENDS Cheques

OneOrTwo == {1, 2}
GainOrNone == {0, 1}
=============================================================================

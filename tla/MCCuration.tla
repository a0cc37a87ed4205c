----------------------------- MODULE MCCuration -----------------------------
EXTENDS Curation
CONSTANTS a, b, s, t
=============================================================================

----------------------------- MODULE MCPoiFacts -----------------------------
EXTENDS PoiFacts
=============================================================================

--------------------------- MODULE MCFeeEscalation ---------------------------
EXTENDS FeeEscalation

GasPriceRange == 0..150
TipCapRange == 0..130
=============================================================================

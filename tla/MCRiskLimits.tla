---------------------------- MODULE MCRiskLimits ----------------------------
\* Losses, breakeven closes and gains of one R; the signals are interchangeable.
EXTENDS RiskLimits, TLC

OneR == {-1, 0, 1}
SignalSymmetry == Permutations(Signals)

=============================================================================

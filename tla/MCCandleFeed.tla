---------------------------- MODULE MCCandleFeed ----------------------------
\* Two series, one with candles twice as long; two candles are a bootstrap and
\* a page, so that gaps of several pages occur.
EXTENDS CandleFeed, TLC

TwoPeriods == [quarter |-> 1, half |-> 2]
Reconnects == [drops |-> 1, faults |-> 1, crashes |-> 1]

=============================================================================

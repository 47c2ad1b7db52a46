--------------------------- MODULE MCSignalRunner ---------------------------
\* Two strategies on one coin, one of which needs a slower series as well.
EXTENDS SignalRunner, TLC

OneCoin    == [btc15 |-> 1, btc30 |-> 2]
OnOneCoin  == [s1_btc |-> "btc15", s4_btc |-> "btc15"]
SlowFrames == [s1_btc |-> {"btc30"}, s4_btc |-> {}]
OneEach    == [errors |-> 1, kills |-> 1]

=============================================================================

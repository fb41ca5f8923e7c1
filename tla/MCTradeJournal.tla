--------------------------- MODULE MCTradeJournal ---------------------------
EXTENDS TradeJournal

CONSTANTS c1, c2, s1, s2

BTC_INR == <<"BTC", "INR">>

MCInstruments == {BTC_INR}
=============================================================================

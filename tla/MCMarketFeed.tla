---------------------------- MODULE MCMarketFeed ----------------------------
EXTENDS MarketFeed

CONSTANTS h1, h2
=============================================================================

---------------------------- MODULE MCMarketData ----------------------------
(***************************************************************************)
(* An instance of MarketData: what a broker may say of two symbols.  The   *)
(* window has two ticks; the prices are around it (see Liquidity).         *)
(***************************************************************************)
EXTENDS MarketData

Quote(type, price, volume) == [type |-> type, price |-> price, volume |-> volume]
Bid(price, volume) == Quote("BID", price, volume)
Offer(price, volume) == Quote("OFFER", price, volume)

Pairs ==
  {<< <<Bid(40001, 2)>>, << >> >>,
   << <<Offer(60000, 1), Bid(50000, 0)>>, << >> >>,
   << <<Bid(39999, 1), Offer(60000, 3)>>, <<Bid(50000, 1)>> >>,
   << <<Quote("TRADE", 50000, 1)>>, <<Bid(50000, 1)>> >>,
   << << >>, <<Bid(50000, 1)>> >>}

MCIncremental == {[s \in Symbols |-> pair[s + 1]] : pair \in Pairs}

MCSnapshots ==
  {<< >>, <<Bid(50000, 1), Offer(60000, 1)>>, <<Offer(9999, 2), Bid(40000, 3)>>}

=============================================================================

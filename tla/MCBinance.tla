----------------------------- MODULE MCBinance ------------------------------
(* Values of BinanceOrders' constants for model checking.  A name with the *)
(* settlement currency after a colon is what ccxt reports for a future;    *)
(* strategy.yaml leaves it out, but may well spell it out.  The exchange   *)
(* the adapter's tests put in Binance's place reports the plain one.       *)
EXTENDS BinanceOrders

CONSTANTS BtcUsdt, BtcUsdtUsdt   \* BTC/USDT, BTC/USDT:USDT

Plain == [symbol |-> BtcUsdt, id |-> BtcUsdt, reported |-> BtcUsdt]
Futures == [symbol |-> BtcUsdt, id |-> BtcUsdt, reported |-> BtcUsdtUsdt]
SpeltOut == [symbol |-> BtcUsdtUsdt, id |-> BtcUsdt, reported |-> BtcUsdtUsdt]

PlainOnly == {Plain}
FuturesOnly == {Futures}
AnyNaming == {Plain, Futures, SpeltOut}

NoRequests == {}
AnyRequest == Requests
CloseOnly == {"close"}
=============================================================================

----------------------------- MODULE TestOracle -----------------------------
(***************************************************************************)
(* contracts/test-oracle: the price feed of the demo markets.  It keeps    *)
(* one price per symbol and a default one, each with the time it was set.  *)
(* Who may call what is left out: every setter is the admin's.             *)
(***************************************************************************)
EXTENDS Integers

CONSTANTS
  Symbol,     \* the symbols update_asset_price is called with
  XLM,        \* the symbol that also moves the default price
  Price,      \* the prices that are set
  NoPrice     \* an absent storage entry

ASSUME OracleAssumption == Price \subseteq Int /\ XLM \in Symbol

VARIABLES
  now,         \* e.ledger().timestamp()
  price,       \* Key::Price and Key::Timestamp
  assetPrice   \* Key::AssetPrice and Key::AssetTs

oracle == <<price, assetPrice>>

PriceData == [price : Price, timestamp : Nat]

OracleInit ==
  /\ price = NoPrice
  /\ assetPrice = [s \in Symbol |-> NoPrice]

Quote(p) == [price |-> p, timestamp |-> now]

\* initialize and update_price both set the default price.
UpdatePrice(p) ==
  /\ price' = Quote(p)
  /\ UNCHANGED assetPrice

UpdateAssetPrice(s, p) ==
  /\ price # NoPrice
  /\ assetPrice' = [assetPrice EXCEPT ![s] = Quote(p)]
  /\ price' = IF s = XLM THEN Quote(p) ELSE price

\* lastprice and price: the time asked for is not looked at, and a symbol with a
\* price of its own never sees the default again.
LastPrice(s) == IF assetPrice[s] # NoPrice THEN assetPrice[s] ELSE price

=============================================================================

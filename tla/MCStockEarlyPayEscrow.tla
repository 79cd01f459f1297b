----------------------- MODULE MCStockEarlyPayEscrow -----------------------
(* Small instances of StockEarlyPayEscrow. *)
EXTENDS StockEarlyPayEscrow, TLC

CONSTANTS employer, worker, funder, asset, s1, k1

MCAccounts == {employer, worker, funder}

Offer(tokens, principal, feeBps, payAt, expiresAt, nonce) ==
    [earningsId |-> <<employer, s1>>, funder |-> funder, asset |-> asset,
     tokenAmount |-> tokens, principal |-> principal, feeBps |-> feeBps,
     payAt |-> payAt, expiresAt |-> expiresAt, nonce |-> nonce]

\* Two offers that differ by their nonce only: 1 USDC for a token, and a fee of 1.
MCTwoOffers == {Offer(1, 1, 2, 1, 1, n) : n \in {1, 2}}

MCUsdcSupply == [a \in MCAccounts |-> IF a = employer THEN 4 ELSE 0]
MCStockSupply == [t \in {asset} |-> [a \in MCAccounts |-> IF a = funder THEN 4 ELSE 0]]
=============================================================================

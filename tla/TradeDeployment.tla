--------------------------- MODULE TradeDeployment ---------------------------
(***************************************************************************)
(* A factory and the escrow of one offer that it deploys.  The arbiter     *)
(* approves and revokes tokens, at any time; the seller creates the escrow *)
(* in an approved token.  MultiAssetTradeEscrowFactory deploys TradeEscrow *)
(* and XStocksTradeEscrowFactory, else the same contract, deploys          *)
(* XStocksTradeEscrow; a deployment of the system has one or the other.    *)
(*                                                                         *)
(* The approved tokens are also kept in a list that clients page through,  *)
(* from which a revoked token is taken by moving the last one to its       *)
(* place.                                                                  *)
(***************************************************************************)
EXTENDS TradeLifecycle, ShareIndex, FiniteSets

CONSTANT Tokens         \* contracts the arbiter may approve

ASSUME TokensAssumption == IsFiniteSet(Tokens)

VARIABLES
    factory,            \* which of the two factories is deployed
    approvedTokens,     \* the tokens whose flag is set
    list,               \* _approvedTokenList
    indexPlusOne,       \* _approvedTokenIndexPlusOne, 0 when absent
    created,            \* escrows[offerKey] is an escrow
    balance, paid,                              \* of a TradeEscrow
    index, shares, fundedShares, settledShares, \* of an XStocksTradeEscrow
    donated

Token == INSTANCE TradeEscrow
Stock == INSTANCE XStocksTradeEscrow

Factories == {"MultiAsset", "XStocks"}
approvals == <<approvedTokens, list, indexPlusOne>>
tokenMoney == <<balance, paid>>
stockMoney == <<index, shares, fundedShares, settledShares>>
vars == <<tradeVars, factory, approvals, created, tokenMoney, stockMoney, donated>>

Init ==
    /\ factory \in Factories
    /\ approvedTokens = {} /\ list = << >> /\ indexPlusOne = [t \in Tokens |-> 0]
    /\ created = FALSE
    /\ Token!Init /\ Stock!Init

-----------------------------------------------------------------------------
(* The factory. *)

Approve(token) ==
    /\ token \notin approvedTokens
    /\ approvedTokens' = approvedTokens \cup {token}
    /\ list' = Append(list, token)
    /\ indexPlusOne' = [indexPlusOne EXCEPT ![token] = Len(list')]

\* fault: the moved token keeps its old index
StaleIndex(token) == [indexPlusOne EXCEPT ![token] = 0]
MovedIndex(token) ==
    [indexPlusOne EXCEPT ![list[Len(list)]] = indexPlusOne[token], ![token] = 0]

\* The last token takes the place of the revoked one.
Revoke(token) ==
    /\ token \in approvedTokens
    /\ approvedTokens' = approvedTokens \ {token}
    /\ list' = SubSeq([list EXCEPT ![indexPlusOne[token]] = list[Len(list)]], 1, Len(list) - 1)
    /\ indexPlusOne' = MovedIndex(token)

setTokenApproval(sender, token) ==
    /\ sender = Arbiter
    /\ Approve(token) \/ Revoke(token)
    /\ UNCHANGED <<tradeVars, factory, created, tokenMoney, stockMoney, donated>>

create(sender, token) ==
    /\ sender = Seller
    /\ token \in approvedTokens
    /\ ~created
    /\ now < FundBy
    /\ created' = TRUE
    /\ UNCHANGED <<tradeVars, factory, approvals, tokenMoney, stockMoney, donated>>

-----------------------------------------------------------------------------
\* What the escrow does from its creation on, and block time.
EscrowStep ==
    /\ \/ Tick /\ UNCHANGED <<tokenMoney, stockMoney, donated>>
       \/ created /\ factory = "MultiAsset" /\ Token!Next /\ UNCHANGED stockMoney
       \/ created /\ factory = "XStocks" /\ Stock!Next /\ UNCHANGED tokenMoney
    /\ UNCHANGED <<factory, approvals, created>>

Next ==
    \/ \E sender \in Callers, token \in Tokens : setTokenApproval(sender, token) \/ create(sender, token)
    \/ EscrowStep

Spec == Init /\ [][Next]_vars

\* The clock runs, a buyer takes back what was never dispatched, a seller disputes what
\* was never confirmed, anyone ends the inspection and the arbiter works.
FairSpec == Spec /\ FairSteps

-----------------------------------------------------------------------------
(* Properties. *)

\* The list that clients page through holds each approved token exactly once and the
\* index finds it there, after any series of approvals and revocations.
ListMirrorsApprovals ==
    /\ {list[i] : i \in DOMAIN list} = approvedTokens
    /\ \A t \in Tokens : t \in approvedTokens <=> indexPlusOne[t] # 0
    /\ \A i \in DOMAIN list : indexPlusOne[list[i]] = i

\* Whichever contract was deployed, an open trade is covered, whatever is sent in,
\* taken out as excess, or done to the issuer's index, and an ended one is paid out.
FundsSafe == IF factory = "MultiAsset" THEN Token!FundsSafe ELSE Stock!SharesAccounted

\* Both contracts keep one promise: paid out once and in full, and from a dispute on to
\* the seller only by a decision of the arbiter or of both parties.
Promise == INSTANCE EscrowPromise WITH
    stage <- Token!Stage,
    pot <- IF factory = "MultiAsset" THEN Token!Pot ELSE fundedShares,
    toBuyer <- IF factory = "MultiAsset" THEN paid[Buyer] ELSE settledShares[Buyer],
    toSeller <- IF factory = "MultiAsset" THEN paid[Seller] ELSE settledShares[Seller]
KeepsPromise == Promise!Spec
=============================================================================

--------------------- MODULE StockEarlyPayEscrowProofs ---------------------
(***************************************************************************)
(* The stock escrow never owes more than it holds, in USDC and in stock    *)
(* tokens, delivers stock only under the policy the risk signer saw, and   *)
(* pays each debt once, in full and to its creditor, for any accounts,     *)
(* assets, offers and amounts.                                             *)
(***************************************************************************)
EXTENDS StockEarlyPayEscrow, LedgerSumTheorems

ClaimsUsed == IsFiniteSet(DOMAIN claims) /\ DOMAIN claims \subseteq usedOffers

\* Solvency is inductive together with the types and with the fact that every
\* claim used up its offer: were an offer accepted twice, the second claim would
\* replace the first and the liability counter would keep the lost one.
SolvencyInv ==
    /\ TypeOK
    /\ ClaimsUsed
    /\ Solvent
    /\ StockBacked

\* The functions that are summed are ledgers: finite and natural-valued.
LEMMA LedgersFinite ==
    ASSUME TypeOK, ClaimsUsed
    PROVE  /\ IsFiniteSet(DOMAIN earnings)
           /\ IsFiniteSet(DOMAIN Held) /\ Held \in [DOMAIN Held -> Nat]
           /\ IsFiniteSet(DOMAIN Owed) /\ Owed \in [DOMAIN Owed -> Nat]
           /\ \A a \in Assets : /\ IsFiniteSet(DOMAIN Deposited(a))
                                /\ Deposited(a) \in [DOMAIN Deposited(a) -> Nat]
<1>1. IsFiniteSet(EarningsIds)
  BY AddressesAssumption, FS_Product DEF EarningsIds
<1>2. IsFiniteSet(DOMAIN earnings)
  BY <1>1, FS_Subset DEF TypeOK
<1>3. \A id \in DOMAIN earnings : earnings[id].available \in Nat
  BY DEF TypeOK, EarningsType
<1>4. \A o \in DOMAIN claims : claims[o].repayment \in Nat
  BY DEF TypeOK, ClaimType
<1>5. \A a \in Assets : Deposited(a) \in [Accounts -> Nat]
  BY DEF TypeOK, Deposited
<1> QED BY <1>2, <1>3, <1>4, <1>5, AddressesAssumption DEF Held, Owed, Deposited, ClaimsUsed

LEMMA RepaymentNat ==
    ASSUME NEW o \in Offers
    PROVE  Repayment(o) \in Nat /\ o.tokenAmount \in Nat /\ o.funder \in Accounts
           /\ o.asset \in Assets /\ o.earningsId \in EarningsIds
<1>1. o \in OfferType
  BY OffersAssumption
<1>2. o.principal \in Nat /\ o.feeBps \in Nat /\ o.principal * o.feeBps \in Nat
  BY <1>1 DEF OfferType
<1>3. feeFor(o.principal, o.feeBps) \in Nat
  BY <1>2, NumbersAssumption DEF feeFor
<1> QED BY <1>1, <1>2, <1>3 DEF OfferType, Repayment

\* An exact transfer between two holders keeps balances natural and moves the amount.
LEMMA MoveOk ==
    ASSUME NEW bal \in [Holders -> Nat], NEW from \in Holders, NEW to \in Holders,
           NEW amount \in Nat, CanMove(bal, from, amount), from # to
    PROVE  /\ Move(bal, from, to, amount) \in [Holders -> Nat]
           /\ Move(bal, from, to, amount)[from] = bal[from] - amount
           /\ Move(bal, from, to, amount)[to] = bal[to] + amount
BY DEF CanMove, Move

LEMMA InitSolvency == Init => SolvencyInv
<1> SUFFICES ASSUME Init PROVE SolvencyInv
  OBVIOUS
<1>1. TypeOK
  <2>1. usdc \in [Holders -> Nat] /\ stock \in [Assets -> [Holders -> Nat]]
    BY SupplyAssumption, AddressesAssumption DEF Init, Holders
  <2>2. earnings = << >> /\ claims = << >>
    BY DEF Init
  <2>3. earnings \in [DOMAIN earnings -> EarningsType] /\ claims \in [DOMAIN claims -> ClaimType]
    BY <2>2
  <2> QED BY <2>1, <2>2, <2>3 DEF Init, TypeOK
<1>2. ClaimsUsed
  <2>1. DOMAIN claims = {}
    BY DEF Init
  <2> QED BY <2>1, FS_EmptySet DEF ClaimsUsed
<1>3. Solvent
  <2>1. Total(Held) = 0 /\ Total(Owed) = 0
    <3>1. DOMAIN Held = {} /\ DOMAIN Owed = {}
      BY DEF Init, Held, Owed
    <3> QED BY <3>1, TotalZero
  <2> QED BY <2>1, SupplyAssumption, AddressesAssumption DEF Init, Solvent, Holders
<1>4. StockBacked
  <2> SUFFICES ASSUME NEW a \in Assets PROVE stock[a][Escrow] >= Total(Deposited(a))
    BY DEF StockBacked
  <2>1. \A f \in DOMAIN Deposited(a) : Deposited(a)[f] = 0
    BY DEF Init, Deposited
  <2>2. Total(Deposited(a)) = 0
    BY <2>1, TotalZero
  <2>3. stock[a][Escrow] = 0
    BY DEF Init, Holders
  <2> QED BY <2>2, <2>3
<1> QED BY <1>1, <1>2, <1>3, <1>4 DEF SolvencyInv

-----------------------------------------------------------------------------
(* What each part of a step does to the two sums. *)

LEMMA SolventUnchanged ==
    ASSUME Solvent, UNCHANGED <<earnings, claims, totalUsdcLiability, usdc>>
    PROVE  Solvent'
<1>1. Held' = Held /\ Owed' = Owed
  BY DEF Held, Owed
<1> QED BY <1>1 DEF Solvent

LEMMA StockUnchanged ==
    ASSUME StockBacked, UNCHANGED <<inventory, stock>>
    PROVE  StockBacked'
<1>1. \A a \in Assets : Deposited(a)' = Deposited(a)
  BY DEF Deposited
<1> QED BY <1>1 DEF StockBacked

\* One earnings item is added or changed.
LEMMA HeldUpdate ==
    ASSUME SolvencyInv, NEW id \in EarningsIds, NEW item \in EarningsType,
           earnings' = [i \in DOMAIN earnings \cup {id} |-> IF i = id THEN item ELSE earnings[i]]
    PROVE  Total(Held') = Total(Held)
              - (IF id \in DOMAIN earnings THEN earnings[id].available ELSE 0) + item.available
<1>1. DOMAIN Held = DOMAIN earnings /\ DOMAIN Held' = DOMAIN Held \cup {id}
  BY DEF Held
<1>2. IsFiniteSet(DOMAIN Held) /\ Held \in [DOMAIN Held -> Nat]
  BY LedgersFinite DEF SolvencyInv
<1>3. Held'[id] = item.available /\ item.available \in Nat
  BY DEF Held, EarningsType
<1>4. \A y \in DOMAIN Held \ {id} : Held'[y] = Held[y]
  BY DEF Held
<1>5. Held' \in [DOMAIN Held' -> Nat]
  <2>1. \A y \in DOMAIN Held' : Held'[y] \in Nat
    BY <1>1, <1>2, <1>3, <1>4
  <2> QED BY <2>1 DEF Held
<1>6. id \in DOMAIN earnings => Held[id] = earnings[id].available
  BY DEF Held
<1>7. Total(Held') = Total(Held) - (IF id \in DOMAIN Held THEN Held[id] ELSE 0) + Held'[id]
  BY <1>1, <1>2, <1>4, <1>5, TotalUpdate
<1> QED BY <1>1, <1>3, <1>6, <1>7

\* One claim is added or changed.
LEMMA OwedUpdate ==
    ASSUME SolvencyInv, NEW o \in Offers, NEW claim \in ClaimType,
           claims' = [c \in DOMAIN claims \cup {o} |-> IF c = o THEN claim ELSE claims[c]]
    PROVE  Total(Owed') = Total(Owed)
              - (IF o \in DOMAIN claims THEN Owed[o] ELSE 0)
              + (IF claim.settled THEN 0 ELSE claim.repayment)
<1>1. DOMAIN Owed = DOMAIN claims /\ DOMAIN Owed' = DOMAIN Owed \cup {o}
  BY DEF Owed
<1>2. IsFiniteSet(DOMAIN Owed) /\ Owed \in [DOMAIN Owed -> Nat]
  BY LedgersFinite DEF SolvencyInv
<1>3. Owed'[o] = (IF claim.settled THEN 0 ELSE claim.repayment) /\ Owed'[o] \in Nat
  BY DEF Owed, ClaimType
<1>4. \A y \in DOMAIN Owed \ {o} : Owed'[y] = Owed[y]
  BY DEF Owed
<1>5. Owed' \in [DOMAIN Owed' -> Nat]
  <2>1. \A y \in DOMAIN Owed' : Owed'[y] \in Nat
    BY <1>1, <1>2, <1>3, <1>4
  <2> QED BY <2>1 DEF Owed
<1>6. Total(Owed') = Total(Owed) - (IF o \in DOMAIN Owed THEN Owed[o] ELSE 0) + Owed'[o]
  BY <1>1, <1>2, <1>4, <1>5, TotalUpdate
<1> QED BY <1>1, <1>3, <1>6

\* One funder's inventory of one asset changes.
LEMMA DepositedUpdate ==
    ASSUME SolvencyInv, NEW f \in Accounts, NEW a \in Assets, NEW n \in Nat,
           inventory' = [inventory EXCEPT ![f][a] = n]
    PROVE  /\ inventory' \in [Accounts -> [Assets -> Nat]]
           /\ Total(Deposited(a)') = Total(Deposited(a)) - inventory[f][a] + n
           /\ \A b \in Assets \ {a} : Deposited(b)' = Deposited(b)
<1>1. inventory \in [Accounts -> [Assets -> Nat]]
  BY DEF SolvencyInv, TypeOK
<1>2. inventory' \in [Accounts -> [Assets -> Nat]]
  BY <1>1
<1>3. \A b \in Assets \ {a} : Deposited(b)' = Deposited(b)
  BY <1>1 DEF Deposited
<1>4. /\ IsFiniteSet(DOMAIN Deposited(a)) /\ Deposited(a) \in [DOMAIN Deposited(a) -> Nat]
  BY LedgersFinite DEF SolvencyInv
<1>5. /\ DOMAIN Deposited(a) = Accounts /\ DOMAIN Deposited(a)' = DOMAIN Deposited(a) \cup {f}
      /\ Deposited(a)' \in [DOMAIN Deposited(a)' -> Nat]
      /\ \A y \in DOMAIN Deposited(a) \ {f} : Deposited(a)'[y] = Deposited(a)[y]
      /\ Deposited(a)[f] = inventory[f][a] /\ Deposited(a)'[f] = n
  BY <1>1, <1>2 DEF Deposited
<1>6. Total(Deposited(a)') = Total(Deposited(a)) - Deposited(a)[f] + Deposited(a)'[f]
  BY <1>4, <1>5, TotalUpdate
<1> QED BY <1>2, <1>3, <1>5, <1>6

\* What one item still holds, and what one open claim will pay, is part of the liability.
LEMMA PartOfLiability ==
    ASSUME SolvencyInv
    PROVE  /\ Total(Held) \in Nat /\ Total(Owed) \in Nat
           /\ \A id \in DOMAIN earnings : earnings[id].available <= Total(Held)
           /\ \A o \in DOMAIN claims : Owed[o] <= Total(Owed)
<1>1. /\ IsFiniteSet(DOMAIN Held) /\ Held \in [DOMAIN Held -> Nat]
      /\ IsFiniteSet(DOMAIN Owed) /\ Owed \in [DOMAIN Owed -> Nat]
  BY LedgersFinite DEF SolvencyInv
<1>2. Total(Held) \in Nat /\ Total(Owed) \in Nat
  BY <1>1, TotalNat
<1>3. \A id \in DOMAIN Held : Held[id] <= Total(Held)
  BY <1>1, EntryAtMostTotal
<1>4. \A o \in DOMAIN Owed : Owed[o] <= Total(Owed)
  BY <1>1, EntryAtMostTotal
<1> QED BY <1>2, <1>3, <1>4 DEF Held, Owed

-----------------------------------------------------------------------------
(* The actions, one lemma for each that moves money. *)

LEMMA DepositStep ==
    ASSUME SolvencyInv, NEW sender \in Accounts, NEW asset \in Assets, NEW amount \in Amounts,
           depositStock(sender, asset, amount)
    PROVE  SolvencyInv'
<1>1. amount \in Nat /\ inventory[sender][asset] \in Nat /\ stock[asset] \in [Holders -> Nat]
  BY NumbersAssumption DEF SolvencyInv, TypeOK
<1>2. /\ sender \in Holders /\ Escrow \in Holders /\ sender # Escrow
  BY AddressesAssumption DEF Holders
<1>3. /\ Move(stock[asset], sender, Escrow, amount) \in [Holders -> Nat]
      /\ Move(stock[asset], sender, Escrow, amount)[Escrow] = stock[asset][Escrow] + amount
  BY <1>1, <1>2, MoveOk DEF depositStock
<1>4. inventory' = [inventory EXCEPT ![sender][asset] = inventory[sender][asset] + amount]
  BY DEF depositStock
<1>5. /\ inventory' \in [Accounts -> [Assets -> Nat]]
      /\ Total(Deposited(asset)') = Total(Deposited(asset)) + amount
      /\ \A b \in Assets \ {asset} : Deposited(b)' = Deposited(b)
  <2> DEFINE n == inventory[sender][asset] + amount
  <2>1. Total(Deposited(asset)) \in Nat
    BY LedgersFinite, TotalNat DEF SolvencyInv
  <2>2. n \in Nat /\ inventory' = [inventory EXCEPT ![sender][asset] = n]
    BY <1>1, <1>4
  <2>3. /\ inventory' \in [Accounts -> [Assets -> Nat]]
        /\ Total(Deposited(asset)') = Total(Deposited(asset)) - inventory[sender][asset] + n
        /\ \A b \in Assets \ {asset} : Deposited(b)' = Deposited(b)
    <3> HIDE DEF n
    <3> QED BY <2>2, DepositedUpdate
  <2> QED BY <1>1, <2>1, <2>3
<1>6. stock' = [stock EXCEPT ![asset] = Move(stock[asset], sender, Escrow, amount)]
  BY DEF depositStock
<1>7. StockBacked'
  <2> SUFFICES ASSUME NEW b \in Assets PROVE stock'[b][Escrow] >= Total(Deposited(b)')
    BY DEF StockBacked
  <2>1. stock[b][Escrow] >= Total(Deposited(b)) /\ stock[b][Escrow] \in Nat
    BY <1>2 DEF SolvencyInv, StockBacked, TypeOK
  <2>2. Total(Deposited(b)) \in Nat
    BY LedgersFinite, TotalNat DEF SolvencyInv
  <2>3. CASE b = asset
    BY <1>1, <1>3, <1>5, <1>6, <2>1, <2>2, <2>3 DEF SolvencyInv, TypeOK
  <2>4. CASE b # asset
    BY <1>5, <1>6, <2>1, <2>4
  <2> QED BY <2>3, <2>4
<1>8. TypeOK'
  BY <1>3, <1>5, <1>6 DEF SolvencyInv, TypeOK, depositStock, policyVars
<1>9. Solvent' /\ ClaimsUsed'
  BY SolventUnchanged DEF SolvencyInv, ClaimsUsed, depositStock
<1> QED BY <1>7, <1>8, <1>9 DEF SolvencyInv

LEMMA WithdrawStep ==
    ASSUME SolvencyInv, NEW sender \in Accounts, NEW asset \in Assets, NEW amount \in Amounts,
           withdrawStock(sender, asset, amount)
    PROVE  SolvencyInv'
<1>1. amount \in Nat /\ inventory[sender][asset] \in Nat /\ stock[asset] \in [Holders -> Nat]
  BY NumbersAssumption DEF SolvencyInv, TypeOK
<1>2. /\ sender \in Holders /\ Escrow \in Holders /\ sender # Escrow
  BY AddressesAssumption DEF Holders
<1>3. /\ Move(stock[asset], Escrow, sender, amount) \in [Holders -> Nat]
      /\ Move(stock[asset], Escrow, sender, amount)[Escrow] = stock[asset][Escrow] - amount
  BY <1>1, <1>2, MoveOk DEF withdrawStock
<1>4. /\ inventory' = [inventory EXCEPT ![sender][asset] = inventory[sender][asset] - amount]
      /\ inventory[sender][asset] - amount \in Nat
  BY <1>1 DEF withdrawStock
<1>5. /\ inventory' \in [Accounts -> [Assets -> Nat]]
      /\ Total(Deposited(asset)') = Total(Deposited(asset)) - amount
      /\ \A b \in Assets \ {asset} : Deposited(b)' = Deposited(b)
  <2> DEFINE n == inventory[sender][asset] - amount
  <2>1. Total(Deposited(asset)) \in Nat
    BY LedgersFinite, TotalNat DEF SolvencyInv
  <2>2. n \in Nat /\ inventory' = [inventory EXCEPT ![sender][asset] = n]
    BY <1>1, <1>4
  <2>3. /\ inventory' \in [Accounts -> [Assets -> Nat]]
        /\ Total(Deposited(asset)') = Total(Deposited(asset)) - inventory[sender][asset] + n
        /\ \A b \in Assets \ {asset} : Deposited(b)' = Deposited(b)
    <3> HIDE DEF n
    <3> QED BY <2>2, DepositedUpdate
  <2> QED BY <1>1, <2>1, <2>3
<1>6. stock' = [stock EXCEPT ![asset] = Move(stock[asset], Escrow, sender, amount)]
  BY DEF withdrawStock
<1>7. StockBacked'
  <2> SUFFICES ASSUME NEW b \in Assets PROVE stock'[b][Escrow] >= Total(Deposited(b)')
    BY DEF StockBacked
  <2>1. stock[b][Escrow] >= Total(Deposited(b)) /\ stock[b][Escrow] \in Nat
    BY <1>2 DEF SolvencyInv, StockBacked, TypeOK
  <2>2. Total(Deposited(b)) \in Nat
    BY LedgersFinite, TotalNat DEF SolvencyInv
  <2>3. CASE b = asset
    BY <1>1, <1>3, <1>5, <1>6, <2>1, <2>2, <2>3 DEF SolvencyInv, TypeOK
  <2>4. CASE b # asset
    BY <1>5, <1>6, <2>1, <2>4
  <2> QED BY <2>3, <2>4
<1>8. TypeOK'
  BY <1>3, <1>5, <1>6 DEF SolvencyInv, TypeOK, withdrawStock, policyVars
<1>9. Solvent' /\ ClaimsUsed'
  BY SolventUnchanged DEF SolvencyInv, ClaimsUsed, withdrawStock
<1> QED BY <1>7, <1>8, <1>9 DEF SolvencyInv

LEMMA FundStep ==
    ASSUME SolvencyInv, NEW sender \in Accounts, NEW worker \in Accounts, NEW salt \in Salts,
           NEW amount \in Amounts, NEW payAt \in Times,
           fundEarnings(sender, salt, worker, amount, payAt)
    PROVE  SolvencyInv'
<1> DEFINE id == <<sender, salt>>
           item == [employer |-> sender, worker |-> worker, available |-> amount,
                    payAt |-> payAt, approved |-> FALSE]
<1>1. id \in EarningsIds /\ item \in EarningsType /\ amount \in Nat /\ id \notin DOMAIN earnings
  BY NumbersAssumption DEF EarningsIds, EarningsType, Times, fundEarnings
<1>2. earnings' = [i \in DOMAIN earnings \cup {id} |-> IF i = id THEN item ELSE earnings[i]]
  BY DEF fundEarnings
<1>3. Total(Held') = Total(Held) + amount
  <2>1. Total(Held) \in Nat
    BY PartOfLiability
  <2>2. item.available = amount
    OBVIOUS
  <2> HIDE DEF id, item
  <2> QED BY <1>1, <1>2, <2>1, <2>2, HeldUpdate
<1>4. Owed' = Owed
  BY DEF fundEarnings, Owed
<1>5. sender \in Holders /\ Escrow \in Holders /\ sender # Escrow
  BY AddressesAssumption DEF Holders
<1>6. usdc' \in [Holders -> Nat] /\ usdc'[Escrow] = usdc[Escrow] + amount
  <2>1. usdc \in [Holders -> Nat]
    BY DEF SolvencyInv, TypeOK
  <2>2. CanMove(usdc, sender, amount) /\ usdc' = Move(usdc, sender, Escrow, amount)
    BY DEF fundEarnings
  <2> QED BY <1>1, <1>5, <2>1, <2>2, MoveOk
<1>7. Solvent'
  <2>1. totalUsdcLiability' = totalUsdcLiability + amount
    BY DEF fundEarnings
  <2>2. totalUsdcLiability \in Nat /\ usdc[Escrow] \in Nat /\ Total(Held) \in Nat /\ Total(Owed) \in Nat
    BY <1>5, PartOfLiability DEF SolvencyInv, TypeOK
  <2> QED BY <1>1, <1>3, <1>4, <1>6, <2>1, <2>2 DEF SolvencyInv, Solvent
<1>8. TypeOK'
  <2>1. /\ DOMAIN earnings' \subseteq EarningsIds
        /\ earnings' \in [DOMAIN earnings' -> EarningsType]
    <3> HIDE DEF id, item
    <3> QED BY <1>1, <1>2 DEF SolvencyInv, TypeOK
  <2>2. totalUsdcLiability' \in Nat
    BY <1>1 DEF SolvencyInv, TypeOK, fundEarnings
  <2> QED BY <1>6, <2>1, <2>2 DEF SolvencyInv, TypeOK, fundEarnings, policyVars
<1>9. StockBacked' /\ ClaimsUsed'
  <2>1. UNCHANGED <<inventory, stock, claims, usedOffers>>
    BY DEF fundEarnings
  <2> QED BY <2>1, StockUnchanged DEF SolvencyInv, ClaimsUsed
<1> QED BY <1>7, <1>8, <1>9 DEF SolvencyInv

LEMMA ApproveStep ==
    ASSUME SolvencyInv, NEW sender \in Accounts, NEW id \in EarningsIds, approveEarnings(sender, id)
    PROVE  SolvencyInv'
<1>1. id \in DOMAIN earnings /\ earnings' = [earnings EXCEPT ![id].approved = TRUE]
  BY DEF approveEarnings
<1>2. earnings \in [DOMAIN earnings -> EarningsType] /\ DOMAIN earnings' = DOMAIN earnings
  BY <1>1 DEF SolvencyInv, TypeOK
<1>3. earnings' \in [DOMAIN earnings -> EarningsType]
  BY <1>1, <1>2 DEF EarningsType
<1>4. TypeOK'
  BY <1>2, <1>3 DEF SolvencyInv, TypeOK, approveEarnings, policyVars
<1>5. Held' = Held /\ Owed' = Owed
  BY <1>1, <1>2 DEF Held, Owed, approveEarnings, EarningsType
<1>6. Solvent'
  BY <1>5 DEF SolvencyInv, Solvent, approveEarnings
<1>7. StockBacked' /\ ClaimsUsed'
  BY StockUnchanged DEF SolvencyInv, ClaimsUsed, approveEarnings
<1> QED BY <1>4, <1>6, <1>7 DEF SolvencyInv

LEMMA PayOutStep ==
    ASSUME SolvencyInv, NEW id \in DOMAIN earnings, NEW to \in Accounts, PayOutEarnings(id, to)
    PROVE  SolvencyInv'
<1> DEFINE amount == earnings[id].available
           item == [earnings[id] EXCEPT !.available = 0]
<1>1. /\ earnings \in [DOMAIN earnings -> EarningsType] /\ id \in EarningsIds
      /\ item \in EarningsType /\ amount \in Nat /\ item.available = 0
  BY DEF SolvencyInv, TypeOK, EarningsType
<1>2. earnings' = [i \in DOMAIN earnings \cup {id} |-> IF i = id THEN item ELSE earnings[i]]
  BY <1>1 DEF PayOutEarnings
<1>3. Total(Held') = Total(Held) - amount
  <2>1. Total(Held) \in Nat
    BY PartOfLiability
  <2> HIDE DEF item
  <2> QED BY <1>1, <1>2, <2>1, HeldUpdate
<1>4. Owed' = Owed
  BY DEF PayOutEarnings, Owed
<1>5. to \in Holders /\ Escrow \in Holders /\ to # Escrow
  BY AddressesAssumption DEF Holders
<1>6. usdc' \in [Holders -> Nat] /\ usdc'[Escrow] = usdc[Escrow] - amount
  <2>1. usdc \in [Holders -> Nat]
    BY DEF SolvencyInv, TypeOK
  <2>2. CanMove(usdc, Escrow, amount) /\ usdc' = Move(usdc, Escrow, to, amount)
    BY DEF PayOutEarnings
  <2> QED BY <1>1, <1>5, <2>1, <2>2, MoveOk
<1>7. /\ totalUsdcLiability' = totalUsdcLiability - amount
      /\ totalUsdcLiability \in Nat /\ usdc[Escrow] \in Nat
      /\ Total(Held) \in Nat /\ Total(Owed) \in Nat /\ amount <= Total(Held)
  BY <1>5, PartOfLiability DEF SolvencyInv, TypeOK, PayOutEarnings
<1>8. Solvent' /\ totalUsdcLiability' \in Nat
  BY <1>1, <1>3, <1>4, <1>6, <1>7 DEF SolvencyInv, Solvent
<1>9. TypeOK'
  <2>1. /\ DOMAIN earnings' \subseteq EarningsIds
        /\ earnings' \in [DOMAIN earnings' -> EarningsType]
    <3> HIDE DEF item
    <3> QED BY <1>1, <1>2 DEF SolvencyInv, TypeOK
  <2> QED BY <1>6, <1>8, <2>1 DEF SolvencyInv, TypeOK, PayOutEarnings, policyVars
<1>10. StockBacked' /\ ClaimsUsed'
  BY StockUnchanged DEF SolvencyInv, ClaimsUsed, PayOutEarnings
<1> QED BY <1>8, <1>9, <1>10 DEF SolvencyInv

LEMMA SettleStep ==
    ASSUME SolvencyInv, NEW o \in Offers, settle(o)
    PROVE  SolvencyInv'
<1> DEFINE amount == claims[o].repayment
           claim == [claims[o] EXCEPT !.settled = TRUE]
<1>1. /\ claims \in [DOMAIN claims -> ClaimType] /\ o \in DOMAIN claims /\ ~claims[o].settled
      /\ claim \in ClaimType /\ amount \in Nat /\ claim.settled /\ claims[o].funder \in Accounts
  BY DEF SolvencyInv, TypeOK, ClaimType, settle, Repayable
<1>2. claims' = [c \in DOMAIN claims \cup {o} |-> IF c = o THEN claim ELSE claims[c]]
  BY <1>1 DEF settle
<1>3. Total(Owed') = Total(Owed) - amount
  <2>1. Total(Owed) \in Nat /\ Owed[o] = amount
    BY <1>1, PartOfLiability DEF Owed
  <2> HIDE DEF claim
  <2> QED BY <1>1, <1>2, <2>1, OwedUpdate
<1>4. Held' = Held
  BY DEF settle, Held
<1>5. claims[o].funder \in Holders /\ Escrow \in Holders /\ claims[o].funder # Escrow
  BY <1>1, AddressesAssumption DEF Holders
<1>6. usdc' \in [Holders -> Nat] /\ usdc'[Escrow] = usdc[Escrow] - amount
  <2>1. usdc \in [Holders -> Nat]
    BY DEF SolvencyInv, TypeOK
  <2>2. CanMove(usdc, Escrow, amount) /\ usdc' = Move(usdc, Escrow, claims[o].funder, amount)
    BY DEF settle
  <2> QED BY <1>1, <1>5, <2>1, <2>2, MoveOk
<1>7. /\ totalUsdcLiability' = totalUsdcLiability - amount
      /\ totalUsdcLiability \in Nat /\ usdc[Escrow] \in Nat
      /\ Total(Held) \in Nat /\ Total(Owed) \in Nat /\ amount <= Total(Owed)
  <2>1. Owed[o] = amount
    BY <1>1 DEF Owed
  <2> QED BY <1>1, <1>5, <2>1, PartOfLiability DEF SolvencyInv, TypeOK, settle
<1>8. Solvent' /\ totalUsdcLiability' \in Nat
  BY <1>1, <1>3, <1>4, <1>6, <1>7 DEF SolvencyInv, Solvent
<1>9. DOMAIN claims' \subseteq Offers /\ claims' \in [DOMAIN claims' -> ClaimType]
      /\ DOMAIN claims' = DOMAIN claims
  <2> HIDE DEF claim
  <2> QED BY <1>1, <1>2 DEF SolvencyInv, TypeOK
<1>10. TypeOK'
  BY <1>6, <1>8, <1>9 DEF SolvencyInv, TypeOK, settle, policyVars
<1>11. StockBacked' /\ ClaimsUsed'
  BY <1>9, StockUnchanged DEF SolvencyInv, ClaimsUsed, settle
<1> QED BY <1>8, <1>10, <1>11 DEF SolvencyInv

LEMMA AcceptStep ==
    ASSUME SolvencyInv, NEW sender \in Accounts, NEW o \in Offers, NEW r \in approvals,
           acceptOffer(sender, o, r)
    PROVE  SolvencyInv'
<1> DEFINE id == o.earningsId
           amount == Repayment(o)
           item == [earnings[id] EXCEPT !.available = @ - amount]
           claim == [funder |-> o.funder, worker |-> earnings[id].worker, earningsId |-> id,
                     repayment |-> amount, payAt |-> earnings[id].payAt, settled |-> FALSE]
<1>1. /\ amount \in Nat /\ o.tokenAmount \in Nat /\ o.funder \in Accounts
      /\ o.asset \in Assets /\ id \in EarningsIds
  BY RepaymentNat
<1>2. /\ id \in DOMAIN earnings /\ earnings[id] \in EarningsType
      /\ earnings[id].available >= amount /\ earnings[id].available \in Nat
  BY DEF SolvencyInv, TypeOK, EarningsType, acceptOffer, OfferAvailable, CoversRepayment
<1>3. item \in EarningsType /\ item.available = earnings[id].available - amount
  BY <1>1, <1>2 DEF EarningsType
<1>4. claim \in ClaimType /\ ~claim.settled /\ claim.repayment = amount
  BY <1>1, <1>2 DEF ClaimType, EarningsType
<1>5. /\ earnings' = [i \in DOMAIN earnings \cup {id} |-> IF i = id THEN item ELSE earnings[i]]
  BY <1>2 DEF acceptOffer, EarningsSpent, SolvencyInv, TypeOK
<1>6. /\ o \notin DOMAIN claims
      /\ claims' = [c \in DOMAIN claims \cup {o} |-> IF c = o THEN claim ELSE claims[c]]
      /\ usedOffers' = usedOffers \cup {o}
  BY DEF acceptOffer, OfferAvailable, UnusedOffer, SolvencyInv, ClaimsUsed
<1>7. Solvent'
  <2>1. Total(Held') = Total(Held) - amount
    <3>1. Total(Held) \in Nat
      BY PartOfLiability
    <3>2. Total(Held') = Total(Held) - earnings[id].available + item.available
      <4> HIDE DEF item, id
      <4> QED BY <1>1, <1>2, <1>3, <1>5, HeldUpdate
    <3> HIDE DEF item, id, amount
    <3> QED BY <1>1, <1>2, <1>3, <3>1, <3>2
  <2>2. Total(Owed') = Total(Owed) + amount
    <3>1. Total(Owed) \in Nat
      BY PartOfLiability
    <3> HIDE DEF claim, amount
    <3> QED BY <1>1, <1>4, <1>6, <3>1, OwedUpdate
  <2>3. Total(Held) \in Nat /\ Total(Owed) \in Nat
    BY PartOfLiability
  <2> HIDE DEF amount
  <2> QED BY <1>1, <2>1, <2>2, <2>3 DEF SolvencyInv, Solvent, acceptOffer
<1>8. ClaimsUsed'
  BY <1>6, FS_AddElement DEF SolvencyInv, ClaimsUsed
<1>9. /\ inventory[o.funder][o.asset] \in Nat /\ stock[o.asset] \in [Holders -> Nat]
      /\ inventory[o.funder][o.asset] >= o.tokenAmount
  BY <1>1 DEF SolvencyInv, TypeOK, acceptOffer, OfferAvailable
<1>10. /\ earnings[id].worker \in Holders /\ Escrow \in Holders /\ earnings[id].worker # Escrow
  BY <1>2, AddressesAssumption DEF Holders, EarningsType
<1>11. /\ stock' = [stock EXCEPT ![o.asset] = Move(stock[o.asset], Escrow, earnings[id].worker, o.tokenAmount)]
       /\ Move(stock[o.asset], Escrow, earnings[id].worker, o.tokenAmount) \in [Holders -> Nat]
       /\ Move(stock[o.asset], Escrow, earnings[id].worker, o.tokenAmount)[Escrow]
            = stock[o.asset][Escrow] - o.tokenAmount
  <2>1. CanMove(stock[o.asset], Escrow, o.tokenAmount)
    BY DEF acceptOffer
  <2>2. stock' = [stock EXCEPT ![o.asset] = Move(stock[o.asset], Escrow, earnings[id].worker, o.tokenAmount)]
    BY DEF acceptOffer
  <2> QED BY <1>1, <1>9, <1>10, <2>1, <2>2, MoveOk
<1>12. /\ inventory' \in [Accounts -> [Assets -> Nat]]
       /\ Total(Deposited(o.asset)') = Total(Deposited(o.asset)) - o.tokenAmount
       /\ \A b \in Assets \ {o.asset} : Deposited(b)' = Deposited(b)
  <2> DEFINE n == inventory[o.funder][o.asset] - o.tokenAmount
  <2>1. Total(Deposited(o.asset)) \in Nat
    BY <1>1, LedgersFinite, TotalNat DEF SolvencyInv
  <2>2. n \in Nat /\ inventory' = [inventory EXCEPT ![o.funder][o.asset] = n]
    BY <1>1, <1>9 DEF acceptOffer, StockSpent
  <2>3. /\ inventory' \in [Accounts -> [Assets -> Nat]]
        /\ Total(Deposited(o.asset)') = Total(Deposited(o.asset)) - inventory[o.funder][o.asset] + n
        /\ \A b \in Assets \ {o.asset} : Deposited(b)' = Deposited(b)
    <3> HIDE DEF n
    <3> QED BY <1>1, <2>2, DepositedUpdate
  <2> QED BY <1>1, <1>9, <2>1, <2>3
<1>13. StockBacked'
  <2> SUFFICES ASSUME NEW b \in Assets PROVE stock'[b][Escrow] >= Total(Deposited(b)')
    BY DEF StockBacked
  <2>1. stock[b][Escrow] >= Total(Deposited(b)) /\ stock[b][Escrow] \in Nat
    BY <1>10 DEF SolvencyInv, StockBacked, TypeOK
  <2>2. Total(Deposited(b)) \in Nat
    BY LedgersFinite, TotalNat DEF SolvencyInv
  <2>3. CASE b = o.asset
    BY <1>1, <1>11, <1>12, <2>1, <2>2, <2>3 DEF SolvencyInv, TypeOK
  <2>4. CASE b # o.asset
    BY <1>11, <1>12, <2>1, <2>4
  <2> QED BY <2>3, <2>4
<1>14. TypeOK'
  <2>1. DOMAIN earnings' \subseteq EarningsIds /\ earnings' \in [DOMAIN earnings' -> EarningsType]
    <3> HIDE DEF item, id
    <3> QED BY <1>1, <1>3, <1>5 DEF SolvencyInv, TypeOK
  <2>2. DOMAIN claims' \subseteq Offers /\ claims' \in [DOMAIN claims' -> ClaimType]
    <3> HIDE DEF claim
    <3> QED BY <1>4, <1>6 DEF SolvencyInv, TypeOK
  <2>3. stock' \in [Assets -> [Holders -> Nat]]
    BY <1>1, <1>11 DEF SolvencyInv, TypeOK
  <2> QED BY <1>6, <1>12, <2>1, <2>2, <2>3 DEF SolvencyInv, TypeOK, acceptOffer, policyVars
<1> QED BY <1>7, <1>8, <1>13, <1>14 DEF SolvencyInv

\* The actions that move no money.
LEMMA QuietStep ==
    ASSUME SolvencyInv,
           UNCHANGED <<inventory, earnings, claims, totalUsdcLiability, usdc, stock>>,
           usedOffers \subseteq usedOffers', TypeOK'
    PROVE  SolvencyInv'
BY SolventUnchanged, StockUnchanged DEF SolvencyInv, ClaimsUsed

LEMMA OwnerStep ==
    ASSUME SolvencyInv, OwnerNext
    PROVE  SolvencyInv'
<1>1. UNCHANGED <<now, inventory, earnings, claims, usedOffers, totalUsdcLiability, usdc, stock, approvals>>
  BY DEF OwnerNext, setPaused, setAssetAllowed, setFunderAllowed, setRiskSigner,
         invalidateRiskApprovals, NewPolicyVersion
<1>2. /\ paused' \in BOOLEAN /\ allowedAsset' \subseteq Assets /\ allowedFunder' \subseteq Accounts
      /\ riskSigner' \in Signers /\ policyVersion' \in Nat
  BY DEF SolvencyInv, TypeOK, OwnerNext, setPaused, setAssetAllowed, setFunderAllowed,
         setRiskSigner, invalidateRiskApprovals, NewPolicyVersion, NextVersion
<1>3. TypeOK'
  BY <1>1, <1>2 DEF SolvencyInv, TypeOK
<1> QED BY <1>1, <1>3, QuietStep

LEMMA SignRiskTypes ==
    ASSUME TypeOK, NEW o \in Offers, NEW key \in Signers, NEW observedAt \in Times,
           NEW eligibleUntil \in Times, signRisk(o, key, observedAt, eligibleUntil)
    PROVE  TypeOK'
<1> DEFINE Lesser(x, y) == IF x <= y THEN x ELSE y
           validUntil == Lesser(Lesser(eligibleUntil, o.expiresAt), observedAt + MaxRiskAge)
           r == [offer |-> o, observedAt |-> observedAt, validUntil |-> validUntil,
                 policyVersion |-> policyVersion, signer |-> key, seen |-> Policy]
<1>1. observedAt \in Nat /\ eligibleUntil \in Nat /\ o.expiresAt \in Nat
  BY OffersAssumption DEF Times, OfferType
<1>2. validUntil \in Nat
  BY <1>1, NumbersAssumption
<1>3. Policy \in PolicyType
  BY DEF TypeOK, Policy, PolicyType
<1>4. r \in ApprovalType
  BY <1>1, <1>2, <1>3 DEF ApprovalType, TypeOK
<1>5. approvals' = approvals \cup {r}
  BY DEF signRisk
<1> HIDE DEF r
<1> QED BY <1>4, <1>5 DEF TypeOK, signRisk, policyVars

LEMMA SolvencyNext ==
    ASSUME SolvencyInv, [Next]_vars
    PROVE  SolvencyInv'
<1>1. CASE OwnerNext
  BY <1>1, OwnerStep
<1>2. CASE StockNext
  BY <1>2, DepositStep, WithdrawStep DEF StockNext
<1>3. CASE EarningsNext
  <2>1. ASSUME NEW sender \in Accounts, NEW id \in EarningsIds, cancelUnapprovedEarnings(sender, id)
        PROVE  SolvencyInv'
    BY <2>1, PayOutStep DEF cancelUnapprovedEarnings, SolvencyInv, TypeOK, EarningsType
  <2>2. ASSUME NEW id \in EarningsIds, releaseEarnings(id)
        PROVE  SolvencyInv'
    BY <2>2, PayOutStep DEF releaseEarnings, SolvencyInv, TypeOK, EarningsType
  <2> QED BY <1>3, <2>1, <2>2, FundStep, ApproveStep DEF EarningsNext
<1>4. CASE OfferNext
  <2>1. ASSUME NEW sender \in Accounts, NEW o \in Offers, cancelOffer(sender, o)
        PROVE  SolvencyInv'
    <3>1. TypeOK'
      BY <2>1 DEF SolvencyInv, TypeOK, cancelOffer, policyVars
    <3> QED BY <2>1, <3>1, QuietStep DEF cancelOffer
  <2> QED BY <1>4, <2>1, AcceptStep, SettleStep DEF OfferNext
<1>5. ASSUME NEW o \in Offers, NEW key \in Signers, NEW observedAt \in Times,
             NEW eligibleUntil \in Times, signRisk(o, key, observedAt, eligibleUntil)
      PROVE  SolvencyInv'
  <2>1. TypeOK'
    BY <1>5, SignRiskTypes DEF SolvencyInv
  <2> QED BY <1>5, <2>1, QuietStep DEF signRisk
<1>6. CASE Tick
  <2>1. TypeOK'
    BY <1>6 DEF SolvencyInv, TypeOK, Tick, policyVars
  <2> QED BY <1>6, <2>1, QuietStep DEF Tick
<1>7. CASE UNCHANGED vars
  <2>1. TypeOK'
    BY <1>7 DEF SolvencyInv, TypeOK, vars, policyVars
  <2> QED BY <1>7, <2>1, QuietStep DEF vars
<1> QED BY <1>1, <1>2, <1>3, <1>4, <1>5, <1>6, <1>7 DEF Next

\* The strengthened invariant holds in every reachable state.
THEOREM SolvencyInvariant == Spec => []SolvencyInv
<1> QED BY InitSolvency, SolvencyNext, PTL DEF Spec

\* Every variable keeps its type in every reachable state.
THEOREM TypeCorrect == Spec => []TypeOK
<1>1. SolvencyInv => TypeOK
  BY DEF SolvencyInv
<1> QED BY <1>1, SolvencyInvariant, PTL

\* The escrow's USDC covers its liability, which is exactly what it still holds for
\* workers and owes to funders, and its stock tokens cover every funder's inventory.
THEOREM EscrowBacked == Spec => []Backed
<1>1. SolvencyInv => Backed
  BY DEF SolvencyInv, Backed
<1> QED BY <1>1, SolvencyInvariant, PTL

-----------------------------------------------------------------------------
(* The policy version pins the policy. *)

\* No approval names a version still to come, and one that names the present version
\* was signed under the present policy.
PolicyPinned ==
    \A r \in approvals :
        /\ r.policyVersion \in Nat /\ policyVersion \in Nat
        /\ r.policyVersion <= policyVersion
        /\ r.policyVersion = policyVersion => r.seen = Policy

LEMMA PolicyPinnedNext ==
    ASSUME TypeOK, PolicyPinned, [Next]_vars
    PROVE  PolicyPinned'
<1>1. ASSUME UNCHANGED <<allowedAsset, allowedFunder, riskSigner, policyVersion, approvals>>
      PROVE  PolicyPinned'
  BY <1>1 DEF PolicyPinned, Policy
<1>2. CASE OwnerNext
  <2>1. CASE \E value \in BOOLEAN : setPaused(value)
    BY <1>1, <2>1 DEF setPaused
  <2>2. CASE NewPolicyVersion
    <3>1. approvals' = approvals /\ policyVersion' = policyVersion + 1 /\ policyVersion \in Nat
      BY <2>2 DEF NewPolicyVersion, NextVersion, TypeOK
    <3>2. \A r \in approvals' : /\ r.policyVersion \in Nat
                                /\ r.policyVersion <= policyVersion' /\ r.policyVersion # policyVersion'
      BY <3>1 DEF PolicyPinned
    <3> QED BY <3>1, <3>2 DEF PolicyPinned
  <2> QED BY <1>2, <2>1, <2>2 DEF OwnerNext, setAssetAllowed, setFunderAllowed, setRiskSigner,
             invalidateRiskApprovals
<1>3. CASE StockNext
  BY <1>1, <1>3 DEF StockNext, depositStock, withdrawStock, policyVars
<1>4. CASE EarningsNext
  <2>1. UNCHANGED <<policyVars, approvals>>
    BY <1>4 DEF EarningsNext, fundEarnings, approveEarnings, cancelUnapprovedEarnings,
                releaseEarnings, PayOutEarnings
  <2> QED BY <1>1, <2>1 DEF policyVars
<1>5. CASE OfferNext
  BY <1>1, <1>5 DEF OfferNext, cancelOffer, acceptOffer, settle, policyVars
<1>6. ASSUME NEW o \in Offers, NEW key \in Signers, NEW observedAt \in Times,
             NEW eligibleUntil \in Times, signRisk(o, key, observedAt, eligibleUntil)
      PROVE  PolicyPinned'
  <2> DEFINE Lesser(x, y) == IF x <= y THEN x ELSE y
             validUntil == Lesser(Lesser(eligibleUntil, o.expiresAt), observedAt + MaxRiskAge)
             r == [offer |-> o, observedAt |-> observedAt, validUntil |-> validUntil,
                   policyVersion |-> policyVersion, signer |-> key, seen |-> Policy]
  <2>1. approvals' = approvals \cup {r} /\ r.policyVersion = policyVersion /\ r.seen = Policy
    BY <1>6 DEF signRisk
  <2> HIDE DEF r
  <2>2. Policy' = Policy /\ policyVersion' = policyVersion /\ policyVersion \in Nat
    BY <1>6 DEF signRisk, policyVars, Policy, TypeOK
  <2> QED BY <2>1, <2>2 DEF PolicyPinned
<1>7. CASE Tick
  BY <1>1, <1>7 DEF Tick, policyVars
<1>8. CASE UNCHANGED vars
  BY <1>1, <1>8 DEF vars, policyVars
<1> QED BY <1>2, <1>3, <1>4, <1>5, <1>6, <1>7, <1>8 DEF Next

LEMMA DeliveryStep ==
    ASSUME PolicyPinned, [Next]_vars, NEW o \in DOMAIN claims' \ DOMAIN claims
    PROVE  \E r \in approvals : r.offer = o /\ r.policyVersion = policyVersion /\ r.seen = Policy
<1>1. ASSUME UNCHANGED claims PROVE FALSE
  BY <1>1
<1>2. ASSUME NEW p \in Offers, settle(p) PROVE FALSE
  <2>1. DOMAIN claims' = DOMAIN claims
    BY <1>2 DEF settle
  <2> QED BY <2>1
<1>3. \E sender \in Accounts, p \in Offers, r \in approvals : acceptOffer(sender, p, r)
  <2>1. CASE OwnerNext
    BY <1>1, <2>1 DEF OwnerNext, setPaused, setAssetAllowed, setFunderAllowed, setRiskSigner,
       invalidateRiskApprovals, NewPolicyVersion
  <2>2. CASE StockNext
    BY <1>1, <2>2 DEF StockNext, depositStock, withdrawStock
  <2>3. CASE EarningsNext
    BY <1>1, <2>3 DEF EarningsNext, fundEarnings, approveEarnings, cancelUnapprovedEarnings,
       releaseEarnings, PayOutEarnings
  <2>4. CASE OfferNext
    BY <1>1, <1>2, <2>4 DEF OfferNext, cancelOffer
  <2>5. ASSUME NEW q \in Offers, NEW key \in Signers, NEW observedAt \in Times,
               NEW eligibleUntil \in Times, signRisk(q, key, observedAt, eligibleUntil)
        PROVE  FALSE
    BY <1>1, <2>5 DEF signRisk
  <2>6. CASE Tick \/ UNCHANGED vars
    BY <1>1, <2>6 DEF Tick, vars
  <2> QED BY <2>1, <2>2, <2>3, <2>4, <2>5, <2>6 DEF Next
<1>4. PICK sender \in Accounts, p \in Offers, r \in approvals : acceptOffer(sender, p, r)
  BY <1>3
<1>5. DOMAIN claims' = DOMAIN claims \cup {p}
  BY <1>4 DEF acceptOffer
<1>6. r.offer = p /\ r.policyVersion = policyVersion
  BY <1>4 DEF acceptOffer, RiskFresh
<1> QED BY <1>5, <1>6 DEF PolicyPinned

\* Stock is only delivered under the policy the risk signer saw, for any sequence of
\* policy changes.
THEOREM PolicyChangesVoidApprovals == Spec => DeliveredUnderSeenPolicy
<1>1. Init => PolicyPinned
  BY DEF Init, PolicyPinned
<1>2. TypeOK /\ PolicyPinned /\ [Next]_vars => PolicyPinned'
  BY PolicyPinnedNext
<1>3. PolicyPinned /\ [Next]_vars =>
        [\A o \in DOMAIN claims' \ DOMAIN claims :
            \E r \in approvals : r.offer = o /\ r.policyVersion = policyVersion /\ r.seen = Policy]_vars
  BY DeliveryStep
<1> QED BY <1>1, <1>2, <1>3, TypeCorrect, PTL DEF Spec, DeliveredUnderSeenPolicy

-----------------------------------------------------------------------------
(* What a step may do to the debts and to the approved earnings. *)

\* What DebtsPaidOnce says of one step.
DebtStep ==
    /\ \A o \in DOMAIN claims :
          o \in DOMAIN claims' /\ claims'[o] \in {claims[o], [claims[o] EXCEPT !.settled = TRUE]}
    /\ LET paid == usdc[Escrow] - usdc'[Escrow]
           To(h) == usdc' = Move(usdc, Escrow, h, paid)
       IN  (paid > 0 \/ \E o \in DOMAIN claims : claims'[o] # claims[o]) =>
             \/ \E o \in DOMAIN claims :
                   /\ ~claims[o].settled /\ now >= claims[o].payAt
                   /\ claims' = [claims EXCEPT ![o].settled = TRUE]
                   /\ paid = claims[o].repayment /\ To(claims[o].funder)
             \/ \E id \in DOMAIN earnings :
                   /\ claims' = claims
                   /\ paid = earnings[id].available
                   /\ earnings' = [earnings EXCEPT ![id].available = 0]
                   /\ IF earnings[id].approved
                      THEN now >= earnings[id].payAt /\ To(earnings[id].worker)
                      ELSE To(earnings[id].employer)

\* What ApprovedEarningsStayAssigned says of one step and one item.
AssignmentStep(id) ==
    earnings[id].approved =>
      LET spent == earnings[id].available - earnings'[id].available
      IN  /\ earnings'[id] = [earnings[id] EXCEPT !.available = @ - spent]
          /\ \/ spent = 0
             \/ /\ now >= earnings[id].payAt
                /\ usdc'[earnings[id].worker] = usdc[earnings[id].worker] + spent
             \/ \E o \in DOMAIN claims' \ DOMAIN claims :
                   claims'[o].earningsId = id /\ claims'[o].repayment = spent

\* A step that takes no USDC out and keeps every claim discharges no debt.
LEMMA NothingPaid ==
    ASSUME usdc[Escrow] \in Nat, usdc'[Escrow] \in Nat, usdc'[Escrow] >= usdc[Escrow],
           \A o \in DOMAIN claims : o \in DOMAIN claims' /\ claims'[o] = claims[o]
    PROVE  DebtStep
<1> DEFINE paid == usdc[Escrow] - usdc'[Escrow]
<1>1. ~(paid > 0)
  OBVIOUS
<1> HIDE DEF paid
<1> QED
  BY <1>1 DEF DebtStep, paid

LEMMA NothingSpent ==
    ASSUME SolvencyInv, NEW id \in DOMAIN earnings, earnings'[id] = earnings[id]
    PROVE  AssignmentStep(id)
<1>1. earnings[id] \in EarningsType
  BY DEF SolvencyInv, TypeOK
<1> DEFINE spent == earnings[id].available - earnings'[id].available
<1>2. spent = 0 /\ earnings[id].available - 0 = earnings[id].available
  BY <1>1 DEF EarningsType
<1> HIDE DEF spent
<1>3. earnings'[id] = [earnings[id] EXCEPT !.available = earnings[id].available - spent]
  BY <1>1, <1>2 DEF EarningsType
<1> QED
  BY <1>2, <1>3 DEF AssignmentStep, spent

\* The steps that move no USDC and change neither ledger.
LEMMA QuietDebts ==
    ASSUME SolvencyInv, UNCHANGED <<earnings, claims, usdc>>
    PROVE  DebtStep /\ \A id \in DOMAIN earnings : AssignmentStep(id)
<1>1. usdc[Escrow] \in Nat
  BY DEF SolvencyInv, TypeOK, Holders
<1>2. usdc'[Escrow] = usdc[Escrow]
  OBVIOUS
<1> QED
  BY <1>1, <1>2, NothingPaid, NothingSpent

LEMMA FundDebts ==
    ASSUME SolvencyInv, NEW sender \in Accounts, NEW worker \in Accounts, NEW salt \in Salts,
           NEW amount \in Amounts, NEW payAt \in Times,
           fundEarnings(sender, salt, worker, amount, payAt)
    PROVE  DebtStep /\ \A id \in DOMAIN earnings : AssignmentStep(id)
<1>1. usdc \in [Holders -> Nat] /\ amount \in Nat
  BY NumbersAssumption DEF SolvencyInv, TypeOK
<1>2. sender \in Holders /\ Escrow \in Holders /\ sender # Escrow
  BY AddressesAssumption DEF Holders
<1>3. usdc' = Move(usdc, sender, Escrow, amount) /\ CanMove(usdc, sender, amount) /\ claims' = claims
  BY DEF fundEarnings
<1>4. usdc'[Escrow] = usdc[Escrow] + amount
  BY <1>1, <1>2, <1>3, MoveOk
<1>5. DebtStep
  <2>1. usdc[Escrow] \in Nat /\ usdc'[Escrow] \in Nat /\ usdc'[Escrow] >= usdc[Escrow]
    BY <1>1, <1>2, <1>4
  <2> QED
    BY <1>3, <2>1, NothingPaid
<1>6. \A id \in DOMAIN earnings : earnings'[id] = earnings[id]
  BY DEF fundEarnings
<1> QED
  BY <1>5, <1>6, NothingSpent

LEMMA ApproveDebts ==
    ASSUME SolvencyInv, NEW sender \in Accounts, NEW id \in EarningsIds, approveEarnings(sender, id)
    PROVE  DebtStep /\ \A i \in DOMAIN earnings : AssignmentStep(i)
<1>1. usdc[Escrow] \in Nat
  BY DEF SolvencyInv, TypeOK, Holders
<1>2. UNCHANGED <<claims, usdc>> /\ usdc'[Escrow] = usdc[Escrow]
  BY DEF approveEarnings
<1>3. DebtStep
  BY <1>1, <1>2, NothingPaid
<1>4. \A i \in DOMAIN earnings \ {id} : earnings'[i] = earnings[i]
  BY DEF approveEarnings
<1>5. ~earnings[id].approved
  BY DEF approveEarnings
<1> QED
  BY <1>3, <1>4, <1>5, NothingSpent DEF AssignmentStep

\* An item paid out, to its employer when it was never approved, and to its worker when it
\* was and is due.
LEMMA PayOutDebts ==
    ASSUME SolvencyInv, NEW id \in DOMAIN earnings, NEW to, PayOutEarnings(id, to),
           IF earnings[id].approved THEN now >= earnings[id].payAt /\ to = earnings[id].worker
                                    ELSE to = earnings[id].employer
    PROVE  DebtStep /\ \A i \in DOMAIN earnings : AssignmentStep(i)
<1>1. earnings[id] \in EarningsType /\ usdc \in [Holders -> Nat]
  BY DEF SolvencyInv, TypeOK
<1>2. PICK amount \in Nat : amount = earnings[id].available
  BY <1>1 DEF EarningsType
<1>3. to \in Holders /\ Escrow \in Holders /\ to # Escrow
  BY <1>1, AddressesAssumption DEF Holders, EarningsType
<1>4. /\ CanMove(usdc, Escrow, amount) /\ usdc' = Move(usdc, Escrow, to, amount)
      /\ earnings' = [earnings EXCEPT ![id].available = 0] /\ claims' = claims
  BY <1>2 DEF PayOutEarnings
<1>5. usdc'[Escrow] = usdc[Escrow] - amount /\ usdc'[to] = usdc[to] + amount
  BY <1>1, <1>3, <1>4, MoveOk
<1>6. usdc[Escrow] - usdc'[Escrow] = amount
  BY <1>1, <1>3, <1>5
<1>7. DebtStep
  BY <1>2, <1>4, <1>6 DEF DebtStep
<1>8. AssignmentStep(id)
  <2>1. earnings'[id] = [earnings[id] EXCEPT !.available = 0]
    BY <1>4
  <2>2. earnings'[id].available = 0
    BY <1>1, <2>1 DEF EarningsType
  <2> DEFINE spent == earnings[id].available - earnings'[id].available
  <2>3. spent = amount /\ earnings[id].available - spent = 0
    BY <1>2, <2>2
  <2> HIDE DEF spent
  <2>4. earnings'[id] = [earnings[id] EXCEPT !.available = earnings[id].available - spent]
    BY <2>1, <2>3
  <2> QED
    BY <1>5, <2>3, <2>4 DEF AssignmentStep, spent
<1>9. \A i \in DOMAIN earnings \ {id} : earnings'[i] = earnings[i]
  BY <1>4
<1> QED
  BY <1>7, <1>8, <1>9, NothingSpent

\* What an accepted offer takes from an item becomes its claim; no other claim changes.
LEMMA AcceptDebts ==
    ASSUME SolvencyInv, NEW sender \in Accounts, NEW o \in Offers, NEW r \in approvals,
           acceptOffer(sender, o, r)
    PROVE  DebtStep /\ \A i \in DOMAIN earnings : AssignmentStep(i)
<1>1. PICK id \in DOMAIN earnings : id = o.earningsId
  BY DEF acceptOffer
<1>2. PICK amount \in Nat : amount = Repayment(o)
  BY RepaymentNat
<1>3. earnings[id] \in EarningsType /\ usdc[Escrow] \in Nat
  BY DEF SolvencyInv, TypeOK, Holders
<1>4. usdc' = usdc /\ o \notin DOMAIN claims
  BY DEF acceptOffer, OfferAvailable, UnusedOffer, SolvencyInv, ClaimsUsed
<1>5. /\ DOMAIN claims' = DOMAIN claims \cup {o}
      /\ claims'[o].earningsId = id /\ claims'[o].repayment = amount
      /\ \A c \in DOMAIN claims : claims'[c] = claims[c]
  BY <1>1, <1>2, <1>4 DEF acceptOffer
<1>6. earnings' = [earnings EXCEPT ![id].available = earnings[id].available - amount]
  BY <1>1, <1>2 DEF acceptOffer, EarningsSpent
<1>7. DebtStep
  <2>1. usdc'[Escrow] = usdc[Escrow]
    BY <1>4
  <2> QED
    BY <1>3, <1>5, <2>1, NothingPaid
<1>8. AssignmentStep(id)
  <2>1. earnings'[id] = [earnings[id] EXCEPT !.available = earnings[id].available - amount]
    BY <1>6
  <2>2. earnings'[id].available = earnings[id].available - amount
    BY <1>3, <2>1 DEF EarningsType
  <2> DEFINE spent == earnings[id].available - earnings'[id].available
  <2>3. spent = amount
    BY <1>2, <1>3, <2>2 DEF EarningsType
  <2> HIDE DEF spent
  <2>4. earnings'[id] = [earnings[id] EXCEPT !.available = earnings[id].available - spent]
    BY <2>1, <2>3
  <2>5. o \in DOMAIN claims' \ DOMAIN claims
    BY <1>4, <1>5
  <2> QED
    BY <1>5, <2>3, <2>4, <2>5 DEF AssignmentStep, spent
<1>9. \A i \in DOMAIN earnings \ {id} : earnings'[i] = earnings[i]
  BY <1>6
<1> QED
  BY <1>7, <1>8, <1>9, NothingSpent

\* A settled claim was open and due, and its funder gets the repayment.
LEMMA SettleDebts ==
    ASSUME SolvencyInv, NEW o \in Offers, settle(o)
    PROVE  DebtStep /\ \A id \in DOMAIN earnings : AssignmentStep(id)
<1>1. o \in DOMAIN claims /\ claims[o] \in ClaimType /\ usdc \in [Holders -> Nat]
  BY DEF SolvencyInv, TypeOK, settle
<1>2. PICK amount \in Nat : amount = claims[o].repayment
  BY <1>1 DEF ClaimType
<1>3. claims[o].funder \in Holders /\ Escrow \in Holders /\ claims[o].funder # Escrow
  BY <1>1, AddressesAssumption DEF Holders, ClaimType
<1>4. /\ CanMove(usdc, Escrow, amount) /\ usdc' = Move(usdc, Escrow, claims[o].funder, amount)
      /\ claims' = [claims EXCEPT ![o].settled = TRUE] /\ earnings' = earnings
      /\ ~claims[o].settled /\ now >= claims[o].payAt
  BY <1>2 DEF settle, Repayable
<1>5. usdc'[Escrow] = usdc[Escrow] - amount
  BY <1>1, <1>3, <1>4, MoveOk
<1>6. usdc[Escrow] - usdc'[Escrow] = amount
  BY <1>1, <1>3, <1>5
<1>7. \A c \in DOMAIN claims :
        c \in DOMAIN claims' /\ claims'[c] \in {claims[c], [claims[c] EXCEPT !.settled = TRUE]}
  BY <1>4
<1>8. DebtStep
  BY <1>1, <1>2, <1>4, <1>6, <1>7 DEF DebtStep
<1> QED
  BY <1>4, <1>8, NothingSpent

LEMMA DebtsNext ==
    ASSUME SolvencyInv, [Next]_vars
    PROVE  DebtStep /\ \A id \in DOMAIN earnings : AssignmentStep(id)
<1>1. CASE OwnerNext
  BY <1>1, QuietDebts DEF OwnerNext, setPaused, setAssetAllowed, setFunderAllowed, setRiskSigner,
     invalidateRiskApprovals, NewPolicyVersion
<1>2. CASE StockNext
  BY <1>2, QuietDebts DEF StockNext, depositStock, withdrawStock
<1>3. CASE EarningsNext
  <2>1. ASSUME NEW sender \in Accounts, NEW id \in EarningsIds, cancelUnapprovedEarnings(sender, id)
        PROVE  DebtStep /\ \A i \in DOMAIN earnings : AssignmentStep(i)
    BY <2>1, PayOutDebts DEF cancelUnapprovedEarnings, Cancellable
  <2>2. ASSUME NEW id \in EarningsIds, releaseEarnings(id)
        PROVE  DebtStep /\ \A i \in DOMAIN earnings : AssignmentStep(i)
    BY <2>2, PayOutDebts DEF releaseEarnings, Releasable
  <2> QED
    BY <1>3, <2>1, <2>2, FundDebts, ApproveDebts DEF EarningsNext
<1>4. CASE OfferNext
  BY <1>4, AcceptDebts, SettleDebts, QuietDebts DEF OfferNext, cancelOffer
<1>5. ASSUME NEW o \in Offers, NEW key \in Signers, NEW observedAt \in Times,
             NEW eligibleUntil \in Times, signRisk(o, key, observedAt, eligibleUntil)
      PROVE  DebtStep /\ \A id \in DOMAIN earnings : AssignmentStep(id)
  BY <1>5, QuietDebts DEF signRisk
<1>6. CASE Tick \/ UNCHANGED vars
  BY <1>6, QuietDebts DEF Tick, vars
<1> QED
  BY <1>1, <1>2, <1>3, <1>4, <1>5, <1>6 DEF Next

\* USDC leaves the escrow only for a debt that is due and unpaid, in full and to its
\* creditor, whatever the order of calls.
THEOREM EveryDebtPaidOnce == Spec => DebtsPaidOnce
<1>1. SolvencyInv /\ [Next]_vars => [DebtStep]_vars
  BY DebtsNext
<1> QED BY <1>1, SolvencyInvariant, PTL DEF Spec, DebtsPaidOnce, DebtStep

\* Approved earnings go to a new claim of a funder or, once due, to their worker.
THEOREM ApprovalIrrevocable == Spec => ApprovedEarningsStayAssigned
<1>1. SolvencyInv /\ [Next]_vars => [\A id \in DOMAIN earnings : AssignmentStep(id)]_vars
  BY DebtsNext
<1> QED BY <1>1, SolvencyInvariant, PTL DEF Spec, ApprovedEarningsStayAssigned, AssignmentStep
=============================================================================

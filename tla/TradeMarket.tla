----------------------------- MODULE TradeMarket -----------------------------
(***************************************************************************)
(* A seller's listings and the deals made on them                          *)
(* (api/trade-community-store.ts, api/trade-store.ts): enquiries, offers,  *)
(* blocks, reports, and the checkout an accepted offer leads to, either    *)
(* hosted by Hash PayLink or (legacy) an escrow the buyer funds from a     *)
(* wallet of their own.                                                    *)
(*                                                                         *)
(* Every method of the two stores is one database transaction.  Those that *)
(* change a deal lock the pair of accounts and then the row of the         *)
(* listing, so what they read holds until they commit and each is one      *)
(* step.  A hosted checkout is not: the handler reserves in one            *)
(* transaction, asks Hash PayLink, and applies the answer in another, with *)
(* other calls, retries and crashes in between.                            *)
(***************************************************************************)
EXTENDS Naturals, FiniteSets, TLC

CONSTANTS
    Listings,
    Buyers,
    Offers,         \* identifiers of offers, chosen by the seller's client
    NoThread,
    MaxRevision,    \* bound: edits of a listing
    MaxCalls        \* bound: hosted checkout calls under way

ASSUME TradeMarketAssumption ==
    /\ NoThread \notin Listings \X Buyers
    /\ MaxRevision \in Nat \ {0}

VARIABLES
    listings,   \* status and revision of each listing
    threads,    \* the enquiries: a listing and a buyer
    blocks,     \* buyers who have blocked the seller or were blocked
    reports,    \* listings with an open report
    offers,     \* thread, status, revision and age of each offer
    wallets,    \* legacy: participants who chose a settlement wallet
    connected,  \* hosted: participants who connected their account
    reservation,\* the funding reservation of each offer
    calls,      \* hosted checkout calls between two of their transactions
    agreements  \* Hash PayLink: the checkout created for each offer

marketVars == <<listings, threads, blocks, reports, offers, wallets, connected,
          reservation, calls, agreements>>

Roles == {"buyer", "seller"}
Threads == Listings \X Buyers
ListingStatuses == {"none", "active", "sold", "removed"}
OfferStatuses == {"none", "proposed", "accepted", "declined", "withdrawn", "cancelled"}
Reservations == {"none", "hosted", "legacy", "retired"}
AgreementStates == {"none", "open", "lapsed", "paid", "released", "refunded"}
Telling == {"lapsed", "released"}
Sights == Telling \cup {"unasked"}
Calls == [offer : Offers, close : BOOLEAN, seen : Sights]

Listing(o) == offers[o].thread[1]
BuyerOf(o) == offers[o].thread[2]
Exists(o) == offers[o].status # "none"

OffersOn(l) == {o \in Offers : Exists(o) /\ Listing(o) = l}
AcceptedOn(l) == {o \in OffersOn(l) : offers[o].status = "accepted"}
HeldOn(l) == {o \in OffersOn(l) : reservation[o] \in {"hosted", "legacy"}}
Blocked(b) == b \in blocks

-----------------------------------------------------------------------------
(* The listing: the seller's edits carry the revision they were made from. *)

\* TradeStore.save: whatever the client writes, the revision it saw must be
\* the stored one, so only a removed listing refuses.
Save(l, status) ==
    /\ listings[l].status # "removed"
    /\ listings[l].revision < MaxRevision
    /\ listings' = [listings EXCEPT ![l] = [status |-> status, revision |-> @.revision + 1]]
    /\ UNCHANGED <<threads, blocks, reports, offers, wallets, connected, reservation, calls, agreements>>

Publish(l) == Save(l, "active")
MarkSold(l) == listings[l].status # "none" /\ Save(l, "sold")
Remove(l) == listings[l].status # "none" /\ Save(l, "removed")

Report(l) ==
    /\ listings[l].status # "none"
    /\ listings[l].revision < MaxRevision
    /\ reports' = reports \cup {l}
    /\ UNCHANGED <<listings, threads, blocks, offers, wallets, connected, reservation, calls, agreements>>

\* Hiding does not look at the listing's status.
Moderate(l) ==
    /\ l \in reports
    /\ reports' = reports \ {l}
    /\ \/ listings' = [listings EXCEPT ![l] = [status |-> "removed", revision |-> @.revision + 1]]
       \/ UNCHANGED listings
    /\ UNCHANGED <<threads, blocks, offers, wallets, connected, reservation, calls, agreements>>

-----------------------------------------------------------------------------
(* Enquiries, blocks and offers.                                           *)

Start(l, b) ==
    /\ <<l, b>> \notin threads
    /\ listings[l].status = "active"
    /\ ~ Blocked(b)
    /\ AcceptedOn(l) = {} /\ HeldOn(l) = {}
    /\ threads' = threads \cup {<<l, b>>}
    /\ UNCHANGED <<listings, blocks, reports, offers, wallets, connected, reservation, calls, agreements>>

\* Either of the two blocks; the pair stays blocked until the last one relents.
SetBlock(b) ==
    /\ \E l \in Listings : <<l, b>> \in threads
    /\ blocks' \in {blocks \cup {b}, blocks \ {b}}
    /\ UNCHANGED <<listings, threads, reports, offers, wallets, connected, reservation, calls, agreements>>

\* A new proposal replaces the ones still open in its thread.
Propose(l, b, o) ==
    /\ <<l, b>> \in threads
    /\ ~ Exists(o)
    /\ listings[l].status = "active"
    /\ ~ Blocked(b)
    /\ AcceptedOn(l) = {}
    /\ offers' = [p \in Offers |->
            IF p = o THEN [thread |-> <<l, b>>, status |-> "proposed",
                           revision |-> listings[l].revision, late |-> FALSE]
            ELSE IF offers[p].thread = <<l, b>> /\ offers[p].status = "proposed"
                 THEN [offers[p] EXCEPT !.status = "withdrawn"] ELSE offers[p]]
    /\ UNCHANGED <<listings, threads, blocks, reports, wallets, connected, reservation, calls, agreements>>

\* A day passes: a proposal can no longer be accepted.
Expire(o) ==
    /\ offers[o].status = "proposed" /\ ~ offers[o].late
    /\ offers' = [offers EXCEPT ![o].late = TRUE]
    /\ UNCHANGED <<listings, threads, blocks, reports, wallets, connected, reservation, calls, agreements>>

Decide(o, from, to) ==
    /\ offers[o].status = from
    /\ offers' = [offers EXCEPT ![o].status = to]
    /\ UNCHANGED <<listings, threads, blocks, reports, wallets, connected, reservation, calls, agreements>>

\* The item is for sale as it was when these terms were proposed.
Unchanged(o) == listings[Listing(o)] = [status |-> "active", revision |-> offers[o].revision]

Accept(o) ==
    /\ Exists(o)
    /\ ~ offers[o].late
    /\ Unchanged(o)
    /\ ~ Blocked(BuyerOf(o))
    /\ AcceptedOn(Listing(o)) = {}
    /\ Decide(o, "proposed", "accepted")

Decline(o) == Decide(o, "proposed", "declined")
Withdraw(o) == Decide(o, "proposed", "withdrawn")

\* Mutant: cancels without looking for a reservation.
CancelReserved(o) == Decide(o, "accepted", "cancelled")

\* A reservation stands in the way: only its expiry can be closed.
Cancel(o) ==
    /\ reservation[o] = "none"
    /\ Decide(o, "accepted", "cancelled")

-----------------------------------------------------------------------------
(* The two ways to check out an accepted offer; each excludes the other.   *)

MayCheckOut(o) ==
    /\ offers[o].status = "accepted"
    /\ reservation[o] = "none"
    /\ Unchanged(o)
    /\ ~ Blocked(BuyerOf(o))

SelectWallet(o, role) ==
    /\ MayCheckOut(o)
    /\ connected[o] = {}
    /\ wallets' = [wallets EXCEPT ![o] = @ \cup {role}]
    /\ UNCHANGED <<listings, threads, blocks, reports, offers, connected, reservation, calls, agreements>>

\* The unique index on active reservations of a listing refuses a second one.
ReserveFor(o, kind) ==
    /\ MayCheckOut(o)
    /\ HeldOn(Listing(o)) = {}
    /\ reservation' = [reservation EXCEPT ![o] = kind]

ReserveLegacy(o) ==
    /\ wallets[o] = Roles
    /\ ReserveFor(o, "legacy")
    /\ UNCHANGED <<listings, threads, blocks, reports, offers, wallets, connected, calls, agreements>>

Connect(o, role) ==
    /\ MayCheckOut(o)
    /\ wallets[o] = {}
    /\ connected' = [connected EXCEPT ![o] = @ \cup {role}]
    /\ UNCHANGED <<listings, threads, blocks, reports, offers, wallets, reservation, calls, agreements>>

Begin(o, close) ==
    /\ Cardinality(calls) < MaxCalls
    /\ calls' = calls \cup {[offer |-> o, close |-> close, seen |-> "unasked"]}

\* The buyer opens the checkout: reserved here before Hash PayLink hears of it.
Reserve(o) ==
    /\ connected[o] = Roles
    /\ wallets[o] = {}
    /\ ReserveFor(o, "hosted")
    /\ Begin(o, FALSE)
    /\ UNCHANGED <<listings, threads, blocks, reports, offers, wallets, connected, agreements>>

\* Any later call of a participant finds the reservation and asks about it,
\* a retired one too.  A close_expired is the seller's: the buyer's is refused.
Resume(o, close) ==
    /\ reservation[o] \in {"hosted", "retired"}
    /\ Begin(o, close)
    /\ UNCHANGED <<listings, threads, blocks, reports, offers, wallets, connected, reservation, agreements>>

\* hostedTradeCheckout: the checkout of this key is looked up, and created
\* when there is none.  Only two answers change anything here; any other, and
\* one that could not read the chain, is shown and ends the call.
Ask(c) ==
    /\ c.seen = "unasked"
    /\ IF agreements[c.offer] = "none"
       THEN agreements' = [agreements EXCEPT ![c.offer] = "open"] /\ calls' = calls \ {c}
       ELSE /\ agreements[c.offer] \in Telling
            /\ calls' = (calls \ {c}) \cup {[c EXCEPT !.seen = agreements[c.offer]]}
            /\ UNCHANGED agreements
    /\ UNCHANGED <<listings, threads, blocks, reports, offers, wallets, connected, reservation>>

\* Mutant: the listing's status is not asked for.
RecordOverRemoval(c) ==
    /\ c.seen = "released" /\ ~ c.close
    /\ reservation[c.offer] = "hosted"
    /\ listings[Listing(c.offer)].revision <= MaxRevision
    /\ calls' = calls \ {c}
    /\ listings' = [listings EXCEPT ![Listing(c.offer)] = [status |-> "sold", revision |-> @.revision + 1]]
    /\ UNCHANGED <<threads, blocks, reports, offers, wallets, connected, reservation, agreements>>

\* recordHostedRelease
RecordRelease(c) ==
    /\ c.seen = "released" /\ ~ c.close
    /\ reservation[c.offer] = "hosted"
    /\ listings[Listing(c.offer)].status = "active"
    /\ calls' = calls \ {c}
    /\ listings' = [listings EXCEPT ![Listing(c.offer)] = [status |-> "sold", revision |-> @.revision + 1]]
    /\ UNCHANGED <<threads, blocks, reports, offers, wallets, connected, reservation, agreements>>

\* Mutant: judged by the clock alone.
Overdue(c) == c.seen # "released"

\* The answer proves that the time to pay is over and nothing was paid.
ProvesExpiry(c) == c.seen = "lapsed"

\* closeExpiredHosted: the listing is for sale again, unless it was removed.
CloseExpired(c) ==
    /\ c.close
    /\ ProvesExpiry(c)
    /\ reservation[c.offer] = "hosted"
    /\ offers[c.offer].status = "accepted"
    /\ listings[Listing(c.offer)].status # "sold"
    /\ calls' = calls \ {c}
    /\ reservation' = [reservation EXCEPT ![c.offer] = "retired"]
    /\ offers' = [offers EXCEPT ![c.offer].status = "cancelled"]
    /\ UNCHANGED <<listings, threads, blocks, reports, wallets, connected, agreements>>

\* The call only shows what it saw, is refused, or dies at any point.
End(c) ==
    /\ calls' = calls \ {c}
    /\ UNCHANGED <<listings, threads, blocks, reports, offers, wallets, connected, reservation, agreements>>

-----------------------------------------------------------------------------
(* Hash PayLink and the chain: a checkout is paid in time or never.        *)

Settle(o, from, to) ==
    /\ agreements[o] = from
    /\ agreements' = [agreements EXCEPT ![o] = to]
    /\ UNCHANGED <<listings, threads, blocks, reports, offers, wallets, connected, reservation, calls>>

Pay(o) == Settle(o, "open", "paid")
Lapse(o) == Settle(o, "open", "lapsed")
Release(o) == Settle(o, "paid", "released")
Refund(o) == Settle(o, "paid", "refunded")

-----------------------------------------------------------------------------
MarketInit ==
    /\ listings = [l \in Listings |-> [status |-> "none", revision |-> 0]]
    /\ threads = {} /\ reports = {} /\ calls = {}
    /\ blocks = {}
    /\ offers = [o \in Offers |-> [thread |-> NoThread, status |-> "none", revision |-> 0, late |-> FALSE]]
    /\ wallets = [o \in Offers |-> {}]
    /\ connected = [o \in Offers |-> {}]
    /\ reservation = [o \in Offers |-> "none"]
    /\ agreements = [o \in Offers |-> "none"]

ListingStep(l) ==
    \/ Publish(l) \/ MarkSold(l) \/ Remove(l) \/ Report(l) \/ Moderate(l)
    \/ \E b \in Buyers : Start(l, b) \/ \E o \in Offers : Propose(l, b, o)

OfferStep(o) ==
    \/ Expire(o) \/ Accept(o) \/ Decline(o) \/ Withdraw(o) \/ Cancel(o)
    \/ ReserveLegacy(o) \/ Reserve(o)
    \/ \E role \in Roles : SelectWallet(o, role) \/ Connect(o, role)
    \/ \E close \in BOOLEAN : Resume(o, close)
    \/ Pay(o) \/ Lapse(o) \/ Release(o) \/ Refund(o)

CallStep(c) == Ask(c) \/ RecordRelease(c) \/ CloseExpired(c) \/ End(c)

MarketNext ==
    \/ \E l \in Listings : ListingStep(l)
    \/ \E b \in Buyers : SetBlock(b)
    \/ \E o \in Offers : OfferStep(o)
    \/ \E c \in calls : CallStep(c)

MarketSpec == MarketInit /\ [][MarketNext]_marketVars

Symmetry == Permutations(Buyers) \cup Permutations(Offers)

-----------------------------------------------------------------------------
(* Properties.                                                             *)

MarketTypeOK ==
    /\ listings \in [Listings -> [status : ListingStatuses, revision : Nat]]
    /\ threads \subseteq Threads
    /\ blocks \subseteq Buyers
    /\ reports \subseteq Listings
    /\ offers \in [Offers -> [thread : Threads \cup {NoThread}, status : OfferStatuses,
                              revision : Nat, late : BOOLEAN]]
    /\ \A o \in Offers : Exists(o) => offers[o].thread \in Threads
    /\ wallets \in [Offers -> SUBSET Roles]
    /\ connected \in [Offers -> SUBSET Roles]
    /\ reservation \in [Offers -> Reservations]
    /\ calls \subseteq Calls
    /\ agreements \in [Offers -> AgreementStates]

\* An offer somebody may be paying, or has paid, for: its checkout is being
\* created, open, or paid; a legacy escrow can be funded from its reservation on.
Payable(o) ==
    \/ reservation[o] = "legacy"
    \/ reservation[o] = "hosted" /\ agreements[o] = "none"
    \/ agreements[o] \in {"open", "paid", "released", "refunded"}

OneBuyer ==
    \A o, p \in Offers :
        Exists(o) /\ Exists(p) /\ Listing(o) = Listing(p) /\ o # p =>
            ~ ((Payable(o) \/ offers[o].status = "accepted")
               /\ (Payable(p) \/ offers[p].status = "accepted"))

OneWayToPay ==
    \A o \in Offers :
        /\ wallets[o] = {} \/ connected[o] = {}
        /\ reservation[o] = "legacy" => wallets[o] = Roles
        /\ reservation[o] \in {"hosted", "retired"} => connected[o] = Roles

\* An item is promised to one buyer at a time, and that buyer is sent to one place
\* to pay: however offers are accepted, cancelled, reserved and closed, no two
\* offers on a listing can be paid, and none both from a wallet and hosted.
OneDealPerItem == OneBuyer /\ OneWayToPay

\* A payment is never orphaned: the offer it was made for stays accepted and
\* keeps its reservation, whatever the calls under way believed they saw.
PaidOffersStand ==
    \A o \in Offers : agreements[o] \in {"open", "paid", "released", "refunded"} =>
        offers[o].status = "accepted" /\ reservation[o] = "hosted"

\* A listing taken down stays down: no edit from an older page, release seen
\* late or closed checkout brings it back.
HiddenStaysHidden ==
    [][\A l \in Listings : listings[l].status = "removed" => listings'[l].status = "removed"]_marketVars

\* What the sale of an item sees of the market: an offer of a listing counts for a
\* deal as long as it is accepted or can be, or was, paid.
DealsOn(l) == {o \in OffersOn(l) : offers[o].status = "accepted" \/ Payable(o)}
Deal(o) == [offer |-> o, way |-> reservation[o], checkout |-> agreements[o]]
Deals == [l \in Listings |-> {Deal(o) : o \in DealsOn(l)}]
Shown == [l \in Listings |-> listings[l].status]
GivenUp == {o \in Offers : offers[o].status = "cancelled"}

Sales == INSTANCE ItemSales WITH
    Items <- Listings, shown <- Shown, deal <- Deals, givenUp <- GivenUp

\* Every step of the two stores and of Hash PayLink is a step of a sale, or none: a deal
\* goes forward, or ends while nobody can have paid for it, whatever order the answers
\* about its checkout come in.
KeepsSales == Sales!Spec
=============================================================================

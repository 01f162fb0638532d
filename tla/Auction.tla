------------------------------- MODULE Auction -------------------------------
(***************************************************************************)
(* The cycle auction (ic-auction/src/api.rs and state.rs).  Users bid      *)
(* cycles; once in a period the fees of the canister are distributed among *)
(* the bidders.  Every method is an update method, and the hook of the     *)
(* canister holds a due auction before the method that was called runs.    *)
(***************************************************************************)
EXTENDS Interval, Sequences, FiniteSets, FiniteSetsExt

CONSTANTS
  Bidders,         \* principals
  Owner,           \* the first controller, a principal
  Bids,            \* cycles sent with a bid
  MinBid,          \* MIN_BIDDING_AMOUNT
  Seconds,         \* periods that are set, in seconds
  NanosPerMilli,   \* 10^6 in the code
  MaxTime,         \* bound: time
  MaxBid           \* bound: cycles of one bidder

ASSUME AuctionAssumption ==
  /\ IsFiniteSet(Bidders) /\ Owner \in Bidders
  /\ Bids \cup Seconds \cup {MinBid, MaxBid} \subseteq Nat
  /\ NanosPerMilli \in Nat /\ NanosPerMilli < NanosPerSec

VARIABLES
  auction,    \* AuctionState with its BiddingState
  time,       \* ic::time()
  cooldown,   \* the content of the last TooEarlyToBeginAuction
  settled,    \* ghost: cycles of each bidder that were in an auction
  bidden      \* ghost: cycles accepted from each bidder

auctionVars == << auction, time, cooldown, settled, bidden >>

NoBids == [b \in Bidders |-> 0]

\* AuctionState::new: a day, which is one second here; min_cycles is
\* MIN_BIDDING_AMOUNT.
AuctionInit ==
  /\ auction = [controller |-> Owner, min_cycles |-> MinBid, fee_ratio |-> "zero",
                last_auction |-> 0, auction_period |-> Nanos(1),
                cycles_since_auction |-> 0, bids |-> NoBids, history |-> << >>]
  /\ time = 0 /\ cooldown = 0
  /\ settled = NoBids /\ bidden = NoBids

\* The cycles of the canister are the ones it was given in bids.
Balance == MapThenSumSet(LAMBDA b : bidden[b], Bidders)

NextAuction(a) == a.last_auction + a.auction_period

IsAuctionDue(a) == time >= NextAuction(a)

\* cooldown_secs_remaining, asked for when no auction is due: in milliseconds,
\* whatever its name says.
CooldownSecsRemaining(a) == (NextAuction(a) - time) \div NanosPerMilli

\* get_fee_ratio: all of the fees, none, or a part that falls with the
\* balance.
FeeRatio(a) ==
  IF a.min_cycles = 0 THEN "zero" ELSE IF Balance <= a.min_cycles THEN "one" ELSE "part"

ResetBiddingState(a) ==
  [a EXCEPT !.fee_ratio = FeeRatio(a), !.last_auction = time,
            !.cycles_since_auction = 0, !.bids = NoBids]

\* run_auction past its checks.  disburse_rewards is the canister's own: it
\* pays the bidders, or fails; the bids are reset in both cases.
Held(a, paid) ==
  LET reset == ResetBiddingState(a) IN
  IF paid THEN [reset EXCEPT !.history = Append(@, a.cycles_since_auction)] ELSE reset

CanRun(a) == a.bids # NoBids /\ IsAuctionDue(a)

\* The state after canister_pre_update: run_auction, its errors ignored.
PreUpdate(a, paid) == IF CanRun(a) THEN Held(a, paid) ELSE a

\* What the ghost knows of the bids when an auction is held.
Settle ==
  settled' = IF CanRun(auction) THEN [b \in Bidders |-> settled[b] + auction.bids[b]]
             ELSE settled

----------------------------------------------------------------------------
\* run_auction called by a user: the hook leaves this method alone.
RunAuction(paid) ==
  /\ CanRun(auction)
  /\ auction' = Held(auction, paid)
  /\ Settle
  /\ UNCHANGED << time, cooldown, bidden >>

\* run_auction with bids and before its time.
RunAuctionTooEarly ==
  /\ auction.bids # NoBids /\ ~IsAuctionDue(auction)
  /\ cooldown' = CooldownSecsRemaining(auction)
  /\ UNCHANGED << auction, time, settled, bidden >>

\* Mutant: the bid is made before the hook runs.
BidCyclesFirst(bidder, n, paid) ==
  /\ n >= MinBid /\ bidden[bidder] + n <= MaxBid
  /\ auction' = PreUpdate([auction EXCEPT !.cycles_since_auction = @ + n,
                                          !.bids[bidder] = @ + n], paid)
  /\ bidden' = [bidden EXCEPT ![bidder] = @ + n]
  /\ Settle
  /\ UNCHANGED << time, cooldown >>

\* bid_cycles, for the given bidder, whoever calls.
BidCycles(bidder, n, paid) ==
  /\ n >= MinBid /\ bidden[bidder] + n <= MaxBid
  /\ auction' = [PreUpdate(auction, paid) EXCEPT !.cycles_since_auction = @ + n,
                                                 !.bids[bidder] = @ + n]
  /\ bidden' = [bidden EXCEPT ![bidder] = @ + n]
  /\ Settle
  /\ UNCHANGED << time, cooldown >>

\* The setters after authorize_owner.
Authorized(caller, paid, changed) ==
  /\ caller = auction.controller
  /\ auction' = changed
  /\ Settle
  /\ UNCHANGED << time, cooldown, bidden >>

SetController(caller, c, paid) ==
  Authorized(caller, paid, [PreUpdate(auction, paid) EXCEPT !.controller = c])

SetMinCycles(caller, n, paid) ==
  Authorized(caller, paid, [PreUpdate(auction, paid) EXCEPT !.min_cycles = n])

SetAuctionPeriod(caller, secs, paid) ==
  Authorized(caller, paid, [PreUpdate(auction, paid) EXCEPT !.auction_period = Nanos(secs)])

\* bidding_info, auction_info, get_min_cycles, a bid that is too small and a
\* setter that is not authorized: only the hook changes anything.
OnlyHook(paid) ==
  /\ CanRun(auction)
  /\ auction' = PreUpdate(auction, paid)
  /\ Settle
  /\ UNCHANGED << time, cooldown, bidden >>

AuctionTick ==
  /\ time < MaxTime
  /\ time' = time + 1
  /\ UNCHANGED << auction, cooldown, settled, bidden >>

AuctionNext ==
  \/ RunAuctionTooEarly \/ AuctionTick
  \/ \E paid \in BOOLEAN :
       \/ RunAuction(paid) \/ OnlyHook(paid)
       \/ \E b \in Bidders, n \in Bids : BidCycles(b, n, paid)
       \/ \E caller \in Bidders :
            \/ \E c \in Bidders : SetController(caller, c, paid)
            \/ \E n \in {0, MinBid} : SetMinCycles(caller, n, paid)
            \/ \E s \in Seconds : SetAuctionPeriod(caller, s, paid)

AuctionSpec == AuctionInit /\ [][AuctionNext]_auctionVars

----------------------------------------------------------------------------
\* The fields of the auction have their types.
AuctionTypeOK ==
  /\ auction.controller \in Bidders
  /\ auction.bids \in [Bidders -> 0 .. MaxBid]
  /\ auction.fee_ratio \in {"zero", "one", "part"}
  /\ auction.last_auction <= time

Total(bids) == MapThenSumSet(LAMBDA b : bids[b], Bidders)

\* Every cycle that was accepted is in the bids of this round or was in one
\* auction, with the bidder it came from: a call that holds the auction
\* through the hook and bids at once does not lose its bid with the round that
\* ends, and the total that bidding_info shows is the sum of the bids.
BidsSettledOnce ==
  /\ \A b \in Bidders : bidden[b] = settled[b] + auction.bids[b]
  /\ auction.cycles_since_auction = Total(auction.bids)

----------------------------------------------------------------------------
(* Inductive invariant *)

AuctionRecord ==
  [controller : Bidders, min_cycles : Nat, fee_ratio : {"zero", "one", "part"}, last_auction : Nat,
   auction_period : Nat, cycles_since_auction : Nat, bids : [Bidders -> Nat], history : Seq(Nat)]

\* What makes AuctionTypeOK and BidsSettledOnce inductive
AuctionInv ==
  /\ auction \in AuctionRecord /\ time \in Nat /\ auction.last_auction <= time
  /\ settled \in [Bidders -> Nat] /\ bidden \in [Bidders -> 0 .. MaxBid]
  /\ BidsSettledOnce
=============================================================================

------------------------------ MODULE NFTexchange ------------------------------
(***************************************************************************)
(* The exchange contract (src/contract/NFTexchange_v3.sol): three ways to  *)
(* exchange an NFT for money, and the administrators of ExchangeAdmins.    *)
(*                                                                         *)
(*   buyNFT              a buyer pays a signed sell order in ETH           *)
(*   sellNFT             an owner accepts a signed buy order in a token    *)
(*   exchangeNFTauction  an administrator matches a signed sell and a      *)
(*                       signed buy order                                  *)
(*                                                                         *)
(* A transaction is one step.  It either takes effect as a whole or        *)
(* reverts; a revert is a stuttering step, except for the refusal for want *)
(* of tokens, which `receipt` keeps because a property is about it.        *)
(* Wallets sign orders off the chain and the contract keeps no record of   *)
(* them, so the signed orders are a constant: a signature may be used at   *)
(* any time and any number of times.  The ERC721 and ERC20 contracts are   *)
(* external; transferFrom of a token may report failure by returning false, *)
(* which the exchange does not look at.                                    *)
(***************************************************************************)
EXTENDS ExchangeAdmins

CONSTANTS
    Exchange,       \* the address of the contract
    NoAddress,      \* the zero address
    NFTs,           \* the NFTs of an ERC721 contract
    Tokens,         \* payment token contracts
    SellOrders,     \* orders the calls present, signed or not
    BuyOrders,
    Signed,         \* the orders their seller or buyer has signed
    NoOrder,        \* a call without sell or buy order
    MinBids,        \* values of minBidAmountToExecute
    Amounts,        \* amounts of withdrawals and of transfers beside the exchange
    Grants,         \* for each account, the amounts it may approve for the exchange
    MaxTime,        \* bound of block.timestamp
    FirstOwner,     \* owner of each NFT at deployment
    EthAtStart,     \* ETH of each account at deployment
    TokenAtStart    \* tokens of each account at deployment

Holders == Accounts \cup {Exchange}

(* What both kinds of orders share.  Their times are compared only. *)
IsOrder(o) ==
    /\ o.nft \in NFTs
    /\ o.royaltyTo \in Accounts \cup {NoAddress}
    /\ {o.sellerAmount, o.feeAmount, o.royaltyAmount, o.totalAmount} \subseteq Nat

ASSUME AddressAssumption == Exchange \notin Accounts
ASSUME SellOrdersAssumption == \A o \in SellOrders : IsOrder(o) /\ o.seller \in Accounts
ASSUME BuyOrdersAssumption ==
    \A o \in BuyOrders : IsOrder(o) /\ o.buyer \in Accounts /\ o.payWith \in Tokens
ASSUME NoOrderAssumption == NoOrder \notin SellOrders \cup BuyOrders
ASSUME AmountsAssumption == Amounts \subseteq Nat /\ Grants \in [Accounts -> SUBSET Nat]
ASSUME TimeAssumption == MaxTime \in Nat
ASSUME StartAssumption ==
    /\ FirstOwner \in [NFTs -> Accounts]
    /\ EthAtStart \in [Accounts -> Nat]
    /\ TokenAtStart \in [Accounts -> Nat]

VARIABLES
    now,        \* block.timestamp
    owner,      \* ownerOf
    approvedAll, \* accounts whose NFTs the exchange may move: isApprovedForAll
    eth,        \* balance in ETH
    token,      \* balances and allowances for the exchange, for each token
    receipt     \* how the last transaction of the exchange ended

nftVars == <<owner, approvedAll>>
marketVars == <<now, owner, approvedAll, eth, token, receipt>>
vars == <<adminVars, marketVars>>

NoReceipt == [outcome |-> "none", sell |-> NoOrder, buy |-> NoOrder, sender |-> Deployer]

Receipt == [outcome: {"none", "exchanged", "short"},
            sell: SellOrders \cup {NoOrder}, buy: BuyOrders \cup {NoOrder},
            sender: Accounts]

TokenState == [balance: [Holders -> Nat], allowance: [Accounts -> Nat]]

TypeOK ==
    /\ AdminTypeOK
    /\ now \in 0..MaxTime
    /\ owner \in [NFTs -> Accounts]
    /\ approvedAll \subseteq Accounts
    /\ eth \in [Holders -> Nat]
    /\ token \in [Tokens -> TokenState]
    /\ receipt \in Receipt

Init ==
    /\ AdminInit
    /\ now = 0
    /\ owner = FirstOwner
    /\ approvedAll = {}
    /\ eth = [h \in Holders |-> IF h = Exchange THEN 0 ELSE EthAtStart[h]]
    /\ token = [t \in Tokens |->
                   [balance   |-> [h \in Holders |-> IF h = Exchange THEN 0
                                                     ELSE TokenAtStart[h]],
                    allowance |-> [a \in Accounts |-> 0]]]
    /\ receipt = NoReceipt

--------------------------------------------------------------------------------
(* Money and NFTs outside the exchange. *)

Move(balance, from, to, amount) ==
    [h \in DOMAIN balance |->
        balance[h] - (IF h = from THEN amount ELSE 0) + (IF h = to THEN amount ELSE 0)]

(* IERC20.transferFrom called by the exchange: moves the amount and uses up *)
(* the allowance, or returns false and does nothing.                       *)
transferFrom(t, from, to, amount) ==
    IF t.balance[from] < amount \/ t.allowance[from] < amount THEN t
    ELSE [balance   |-> Move(t.balance, from, to, amount),
          allowance |-> [t.allowance EXCEPT ![from] = @ - amount]]

(* Variant: one of several transfers is left out. *)
settleTokens_NoFee(t, buyer, seller, sellerAmount, feeAmount, royaltyTo, royaltyAmount) ==
    LET paid == transferFrom(t, buyer, seller, sellerAmount)
    IN  IF royaltyAmount = 0 THEN paid
        ELSE transferFrom(paid, buyer, royaltyTo, royaltyAmount)

(* The transfers that end sellNFT and exchangeNFTauction. *)
settleTokens(t, buyer, seller, sellerAmount, feeAmount, royaltyTo, royaltyAmount) ==
    LET paid == transferFrom(t, buyer, seller, sellerAmount)
        kept == transferFrom(paid, buyer, Exchange, feeAmount)
    IN  IF royaltyAmount = 0 THEN kept
        ELSE transferFrom(kept, buyer, royaltyTo, royaltyAmount)

HasRoyaltyAddress(o, royaltyTo) == o.royaltyAmount > 0 => royaltyTo # NoAddress

Open(o) == o.startsAt <= now /\ now < o.expiresAt

Exchanged(sell, buy, sender) ==
    [outcome |-> "exchanged", sell |-> sell, buy |-> buy, sender |-> sender]

TakesTransaction == UNCHANGED <<adminVars, now, approvedAll>>

--------------------------------------------------------------------------------
(* msg.value is paid to the contract, which passes on the seller's amount   *)
(* and the royalty and keeps the rest.                                     *)
payout(o, sender) ==
    LET received == Move(eth, sender, Exchange, o.totalAmount)
        sold == Move(received, Exchange, o.seller, o.sellerAmount)
    IN  IF o.royaltyAmount = 0 THEN sold
        ELSE Move(sold, Exchange, o.royaltyTo, o.royaltyAmount)

buyNFT(sender, o) ==
    /\ ~paused
    /\ HasRoyaltyAddress(o, o.royaltyTo)
    /\ o.seller \in approvedAll
    /\ owner[o.nft] = o.seller
    /\ Open(o)
    /\ o.totalAmount > 0
    /\ eth[sender] >= o.totalAmount
    /\ o \in Signed
    /\ owner' = [owner EXCEPT ![o.nft] = sender]
    /\ eth' = payout(o, sender)
    /\ eth'[Exchange] >= 0
    /\ receipt' = Exchanged(o, NoOrder, sender)
    /\ TakesTransaction
    /\ UNCHANGED token

(* The buyer must have approved and must hold more than the total. *)
HasApproved(o) == token[o.payWith].allowance[o.buyer] > o.totalAmount

(* Variant: only the seller's share must be there. *)
HasTokens_SellerShare(o) == token[o.payWith].balance[o.buyer] >= o.sellerAmount

HasTokens(o) == token[o.payWith].balance[o.buyer] > o.totalAmount

sellNFT(sender, o) ==
    /\ ~paused
    /\ HasRoyaltyAddress(o, o.royaltyTo)
    /\ HasApproved(o)
    /\ HasTokens(o)
    /\ sender \in approvedAll
    /\ owner[o.nft] = sender
    /\ Open(o)
    /\ o \in Signed
    /\ owner' = [owner EXCEPT ![o.nft] = o.buyer]
    /\ token' = [token EXCEPT ![o.payWith] =
                    settleTokens(@, o.buyer, sender, o.sellerAmount, o.feeAmount,
                                 o.royaltyTo, o.royaltyAmount)]
    /\ receipt' = Exchanged(NoOrder, o, sender)
    /\ TakesTransaction
    /\ UNCHANGED eth

(* "Sorry!! Currently Buyer doesn't have enough Token." *)
sellNFTRefused(sender, o) ==
    /\ ~paused
    /\ HasRoyaltyAddress(o, o.royaltyTo)
    /\ HasApproved(o)
    /\ ~HasTokens(o)
    /\ receipt' = [outcome |-> "short", sell |-> NoOrder, buy |-> o, sender |-> sender]
    /\ UNCHANGED <<adminVars, now, nftVars, eth, token>>

(* The conditions exchangeNFTauction puts on its two orders.  It does not   *)
(* look at their periods.                                                  *)
Matches(s, b, minBid) ==
    /\ HasRoyaltyAddress(s, b.royaltyTo)
    /\ s.nft = b.nft
    /\ s.payWith = b.payWith
    /\ b.totalAmount >= minBid
    /\ b.totalAmount >= s.totalAmount

(* Variant: the signature of the seller is not looked at. *)
exchangeNFTauction_Unsigned(sender, s, b, minBid) ==
    /\ sender \in admins
    /\ ~paused
    /\ Matches(s, b, minBid)
    /\ b \in Signed
    /\ s.seller \in approvedAll
    /\ owner[s.nft] = s.seller
    /\ HasApproved(b)
    /\ HasTokens(b)
    /\ owner' = [owner EXCEPT ![s.nft] = b.buyer]
    /\ token' = [token EXCEPT ![b.payWith] =
                    settleTokens(@, b.buyer, s.seller, b.sellerAmount, b.feeAmount,
                                 b.royaltyTo, s.royaltyAmount)]
    /\ receipt' = Exchanged(s, b, sender)
    /\ TakesTransaction
    /\ UNCHANGED eth

exchangeNFTauction(sender, s, b, minBid) ==
    /\ sender \in admins
    /\ ~paused
    /\ Matches(s, b, minBid)
    /\ s \in Signed /\ b \in Signed
    /\ s.seller \in approvedAll
    /\ owner[s.nft] = s.seller
    /\ HasApproved(b)
    /\ HasTokens(b)
    /\ owner' = [owner EXCEPT ![s.nft] = b.buyer]
    /\ token' = [token EXCEPT ![b.payWith] =
                    settleTokens(@, b.buyer, s.seller, b.sellerAmount, b.feeAmount,
                                 b.royaltyTo, s.royaltyAmount)]
    /\ receipt' = Exchanged(s, b, sender)
    /\ TakesTransaction
    /\ UNCHANGED eth

(* "Buyer doesn't have enough Token.": the last condition of all. *)
exchangeNFTauctionRefused(sender, s, b, minBid) ==
    /\ sender \in admins
    /\ ~paused
    /\ Matches(s, b, minBid)
    /\ s \in Signed /\ b \in Signed
    /\ s.seller \in approvedAll
    /\ owner[s.nft] = s.seller
    /\ HasApproved(b)
    /\ ~HasTokens(b)
    /\ receipt' = [outcome |-> "short", sell |-> s, buy |-> b, sender |-> sender]
    /\ UNCHANGED <<adminVars, now, nftVars, eth, token>>

(* withdrawETH, to an account. *)
withdrawETH(sender, to, amount) ==
    /\ sender \in admins
    /\ amount <= eth[Exchange]
    /\ eth' = Move(eth, Exchange, to, amount)
    /\ receipt' = NoReceipt
    /\ UNCHANGED <<adminVars, now, nftVars, token>>

(* Variant: the balance of the contract is not looked at. *)
withdrawERC20Token_Unchecked(sender, t, to, amount) ==
    /\ sender \in admins
    /\ token' = [token EXCEPT ![t].balance = Move(@, Exchange, to, amount)]
    /\ receipt' = NoReceipt
    /\ UNCHANGED <<adminVars, now, nftVars, eth>>

(* withdrawERC20Token, to an account. *)
withdrawERC20Token(sender, t, to, amount) ==
    /\ sender \in admins
    /\ amount <= token[t].balance[Exchange]
    /\ token' = [token EXCEPT ![t].balance = Move(@, Exchange, to, amount)]
    /\ receipt' = NoReceipt
    /\ UNCHANGED <<adminVars, now, nftVars, eth>>

administer == AdminNext /\ receipt' = NoReceipt /\ UNCHANGED <<now, nftVars, eth, token>>

--------------------------------------------------------------------------------
(* What happens beside the exchange: time passes and accounts use the NFT  *)
(* and token contracts directly.                                           *)

tick ==
    /\ now < MaxTime
    /\ now' = now + 1
    /\ receipt' = NoReceipt
    /\ UNCHANGED <<adminVars, nftVars, eth, token>>

transferNFT(holder, n, to) ==
    /\ owner[n] = holder
    /\ owner' = [owner EXCEPT ![n] = to]
    /\ receipt' = NoReceipt
    /\ UNCHANGED <<adminVars, now, approvedAll, eth, token>>

setApprovalForAll(holder, approved) ==
    /\ approvedAll' = IF approved THEN approvedAll \cup {holder} ELSE approvedAll \ {holder}
    /\ receipt' = NoReceipt
    /\ UNCHANGED <<adminVars, now, owner, eth, token>>

approve(t, holder, amount) ==
    /\ token' = [token EXCEPT ![t].allowance[holder] = amount]
    /\ receipt' = NoReceipt
    /\ UNCHANGED <<adminVars, now, nftVars, eth>>

transferToken(t, from, to, amount) ==
    /\ token[t].balance[from] >= amount
    /\ token' = [token EXCEPT ![t].balance = Move(@, from, to, amount)]
    /\ receipt' = NoReceipt
    /\ UNCHANGED <<adminVars, now, nftVars, eth>>

--------------------------------------------------------------------------------
trade(sender) ==
    \/ \E o \in SellOrders : buyNFT(sender, o)
    \/ \E o \in BuyOrders : sellNFT(sender, o) \/ sellNFTRefused(sender, o)
    \/ \E s \in SellOrders, b \in BuyOrders, minBid \in MinBids :
           \/ exchangeNFTauction(sender, s, b, minBid)
           \/ exchangeNFTauctionRefused(sender, s, b, minBid)

withdraw(sender) ==
    \E to \in Accounts, amount \in Amounts :
        \/ withdrawETH(sender, to, amount)
        \/ \E t \in Tokens : withdrawERC20Token(sender, t, to, amount)

elsewhere(holder) ==
    \/ \E n \in NFTs, to \in Accounts : transferNFT(holder, n, to)
    \/ \E approved \in BOOLEAN : setApprovalForAll(holder, approved)
    \/ \E t \in Tokens, amount \in Grants[holder] : approve(t, holder, amount)
    \/ \E t \in Tokens, to \in Accounts, amount \in Amounts :
           transferToken(t, holder, to, amount)

Next ==
    \/ administer
    \/ tick
    \/ \E a \in Accounts : trade(a) \/ withdraw(a) \/ elsewhere(a)

Spec == Init /\ [][Next]_vars

--------------------------------------------------------------------------------
(* Properties of the transactions that exchange an NFT: receipt' tells the *)
(* orders and the sender of the transaction that ends in the new state.    *)

Exchanges == receipt'.outcome = "exchanged"

Seller(r) == IF r.sell = NoOrder THEN r.sender ELSE r.sell.seller
Buyer(r) == IF r.buy = NoOrder THEN r.sender ELSE r.buy.buyer
NFTOf(r) == IF r.sell = NoOrder THEN r.buy.nft ELSE r.sell.nft

(* The order whose amounts are paid, and what an account gains by it. *)
Priced(r) == IF r.buy = NoOrder THEN r.sell ELSE r.buy
Gain(r, h) ==
    IF r.buy = NoOrder THEN eth'[h] - eth[h]
    ELSE token'[r.buy.payWith].balance[h] - token[r.buy.payWith].balance[h]

AddsUp(o) == o.sellerAmount + o.feeAmount + o.royaltyAmount = o.totalAmount

(* The royalty of an auction is the one of the sell order, its other parts  *)
(* are the ones of the buy order.                                          *)
RoyaltyOf(r) == IF r.sell = NoOrder THEN r.buy.royaltyAmount ELSE r.sell.royaltyAmount

(* What the transfers of an exchange ask of the buyer.  The contract checks *)
(* that a buyer has more than the total, and compares the total with none  *)
(* of the parts.                                                           *)
Due(r) == Priced(r).sellerAmount + Priced(r).feeAmount + RoyaltyOf(r)
InETH(r) == r.buy = NoOrder

Consent ==
    Exchanges =>
        LET r == receipt'
            n == NFTOf(r)
        IN  /\ ~paused
            /\ r.sell \in Signed \/ Seller(r) = r.sender
            /\ r.buy \in Signed \/ Buyer(r) = r.sender
            /\ owner[n] = Seller(r) /\ Seller(r) \in approvedAll
            /\ owner'[n] = Buyer(r)

(* The exchange moves an NFT only from the owner, who has approved it and   *)
(* either sends the transaction or signed the sell order, to a buyer who    *)
(* sends it or signed the buy order, and never while it is paused.          *)
BothSidesConsented == [][Consent]_vars

Ask ==
    Exchanges =>
        LET r == receipt'
            share == Priced(r).sellerAmount
        IN  /\ Seller(r) # Buyer(r)
            /\ InETH(r) \/ share <= Priced(r).totalAmount
            => Gain(r, Seller(r)) >= share

(* The seller gets the seller's part of the order that prices the exchange, *)
(* although the results of the token transfers are ignored, unless that     *)
(* part alone exceeds a total in tokens.  In an auction it is the part of   *)
(* the buy order, whatever the seller has signed: a bid whose total is high *)
(* enough may leave the seller less than the sell order says, or nothing.   *)
SellerReceivesShare == [][Ask]_vars

Royalty ==
    Exchanges =>
        LET r == receipt'
            artist == Priced(r).royaltyTo
        IN  /\ RoyaltyOf(r) > 0 /\ artist # Buyer(r)
            /\ InETH(r) \/ Due(r) <= Priced(r).totalAmount
            => Gain(r, artist) >= RoyaltyOf(r)

(* The royalty reaches the artist, out of what the buyer has left after the *)
(* seller and the contract have been paid: always in ETH, and in tokens     *)
(* unless the three parts together exceed the total.                       *)
RoyaltyIsPaid == [][Royalty]_vars

Price ==
    Exchanges =>
        LET r == receipt'
        IN  0 - Gain(r, Buyer(r)) <= IF InETH(r) THEN Priced(r).totalAmount ELSE Due(r)

(* A buyer pays no more than the total in ETH, and in tokens no more than   *)
(* the three parts, which may exceed the total the buyer has signed: the    *)
(* check of the balance looks at the total only.                           *)
BuyerPaysAtMostDue == [][Price]_vars

(* For every pair of orders, whether their parts add up or not: who is paid *)
(* what, and what the buyer is charged, in a purchase, a sale to a bidder   *)
(* and an auction.                                                         *)
SalesArePaid == SellerReceivesShare /\ RoyaltyIsPaid /\ BuyerPaysAtMostDue

(* What the contract holds falls. *)
PaysOut ==
    \/ eth'[Exchange] < eth[Exchange]
    \/ \E t \in Tokens : token'[t].balance[Exchange] < token[t].balance[Exchange]

Fee ==
    /\ (Exchanges /\ AddsUp(Priced(receipt')))
           => Gain(receipt', Exchange) = Priced(receipt').feeAmount
    /\ PaysOut => \/ \E a \in admins : withdraw(a)
                  \/ Exchanges /\ ~AddsUp(Priced(receipt'))

(* The contract keeps exactly the fee of each exchange, and what it holds  *)
(* falls only when an administrator withdraws it, or in an exchange whose  *)
(* order asks for more than its total.                                     *)
FeesAreKept == [][Fee]_vars

(* sellNFT and exchangeNFTauction refuse a buyer for want of tokens only    *)
(* when the buyer has less than the total of the order.                    *)
BalanceRefusalIsTrue ==
    receipt.outcome = "short" =>
        token[receipt.buy.payWith].balance[receipt.buy.buyer] < receipt.buy.totalAmount
================================================================================

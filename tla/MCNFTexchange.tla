----------------------------- MODULE MCNFTexchange -----------------------------
(***************************************************************************)
(* NFTexchange on a small instance.  The deployer d administers and is the *)
(* artist, a and b trade.  An order is written with its parts, seller's    *)
(* amount, fee and royalty, and its total.                                 *)
(*                                                                         *)
(* `part` divides what one run explores: sales in ETH, sales in a token,   *)
(* which share no money, and the administrators on their own up to the     *)
(* largest count.  The other steps of NFTexchange are not taken in a part. *)
(***************************************************************************)
EXTENDS NFTexchange, TLC

CONSTANTS d, a, b, n1, t1

VARIABLE part

Order(parts, total, startsAt, expiresAt) ==
    [nft |-> n1, payWith |-> t1, royaltyTo |-> d,
     sellerAmount |-> parts[1], feeAmount |-> parts[2], royaltyAmount |-> parts[3],
     totalAmount |-> total, startsAt |-> startsAt, expiresAt |-> expiresAt]
SellOrder(seller, order) == [seller |-> seller] @@ order
BuyOrder(buyer, order) == [buyer |-> buyer] @@ order

FirstOwners == [n \in NFTs |-> a]

(* Sales in ETH: two offers of a that start at different times, one that b  *)
(* makes after buying and whose parts exceed its total, one nobody signed. *)
EthOffers == {SellOrder(a, Order(<<1, 1, 1>>, 3, 0, 1)),
              SellOrder(a, Order(<<2, 0, 0>>, 2, 1, 2)),
              SellOrder(b, Order(<<2, 0, 1>>, 2, 0, 2))}
EthUnsigned == {SellOrder(a, Order(<<1, 0, 0>>, 1, 0, 2))}
EthPurse == [h \in Accounts |-> IF h = b THEN 4 ELSE IF h = a THEN 2 ELSE 0]

(* Sales in a token: a asks for 3 and 5 and b bids 3 and 5, in shares at   *)
(* the same rates; b bids a total of 3 that leaves the seller nothing, and *)
(* a total of 2 with parts that exceed it; an ask nobody signed.           *)
TokenAsks == {SellOrder(a, Order(<<1, 1, 1>>, 3, 0, 1)),
              SellOrder(a, Order(<<2, 1, 2>>, 5, 0, 1))}
TokenBids == {BuyOrder(b, Order(<<1, 1, 1>>, 3, 0, 1)),
              BuyOrder(b, Order(<<2, 1, 2>>, 5, 1, 2)),
              BuyOrder(b, Order(<<0, 3, 0>>, 3, 0, 1)),
              BuyOrder(b, Order(<<0, 3, 3>>, 2, 0, 1))}
TokenUnsigned == {SellOrder(a, Order(<<1, 0, 0>>, 1, 0, 1))}
TokenSells == TokenAsks \cup TokenUnsigned
TokenPurse == [h \in Accounts |-> IF h = b THEN 6 ELSE 0]
TokenGrants == [h \in Accounts |-> IF h = b THEN {0, 4, 6} ELSE {}]

AllSells == EthOffers \cup EthUnsigned \cup TokenSells
AllSigned == EthOffers \cup TokenAsks \cup TokenBids

MCInit == Init /\ part \in {"eth", "tokens", "admins"}

EthNext ==
    /\ part = "eth"
    /\ Next
    /\ token' = token /\ receipt'.buy = NoOrder /\ adminCount' <= 2

TokensNext ==
    /\ part = "tokens"
    /\ Next
    /\ eth' = eth /\ receipt'.sell \in TokenSells \cup {NoOrder}
    /\ adminCount' = 1 /\ now' <= 1

AdminsNext == part = "admins" /\ administer

MCSpec == MCInit /\ [][(EthNext \/ TokensNext \/ AdminsNext) /\ UNCHANGED part]_<<vars, part>>
================================================================================

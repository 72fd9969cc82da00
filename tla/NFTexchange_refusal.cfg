SPECIFICATION MCSpec
CONSTANTS
    d = d
    a = a
    b = b
    n1 = n1
    t1 = t1
    Accounts = {d, a, b}
    Deployer = d
    Exchange = exchange
    NoAddress = zero
    NoOrder = none
    NFTs = {n1}
    FirstOwner <- FirstOwners
    MaxAdminCount = 5
    MaxTime = 2
    Tokens = {t1}
    SellOrders <- AllSells
    BuyOrders <- TokenBids
    Signed <- AllSigned
    MinBids = {0, 4}
    Amounts = {1}
    Grants <- TokenGrants
    EthAtStart <- EthPurse
    TokenAtStart <- TokenPurse
INVARIANT
    BalanceRefusalIsTrue

-------------------------- MODULE NFTexchange_proofs --------------------------
(***************************************************************************)
(* Theorems about NFTexchange, for all accounts, NFTs, tokens, orders and  *)
(* signatures.                                                             *)
(***************************************************************************)
EXTENDS NFTexchange, WellFoundedInduction, TLAPS

--------------------------------------------------------------------------------
(* The administrators, for every largest count (ExchangeAdmins). *)

(* The strict order of the naturals is well-founded, so a non-empty set of *)
(* naturals has a least element.                                           *)
Less == {pair \in Nat \X Nat : pair[1] < pair[2]}

LEMMA LessIsWellFounded == IsWellFoundedOn(Less, Nat)
<1>1. Less = OpToRel(<, Nat)
  BY DEF Less, OpToRel
<1>2. QED
  BY <1>1, NatLessThanWellFounded

LEMMA LeastElement ==
    ASSUME NEW T, T \subseteq Nat, T # {}
    PROVE  \E x \in T : \A y \in T : x <= y
<1>1. PICK x \in T : \A y \in T : <<y, x>> \notin Less
  BY LessIsWellFounded, WFMin
<1>2. ASSUME NEW y \in T PROVE x <= y
  <2>1. <<y, x>> \in Nat \X Nat /\ <<y, x>> \notin Less
    BY <1>1
  <2>2. ~(y < x)
    BY <2>1 DEF Less
  <2>3. QED
    BY <2>2
<1>3. QED
  BY <1>2

(* The loop of removeAddressArrayElement finds the element it looks for. *)
LEMMA FirstIndexFinds ==
    ASSUME NEW S, NEW arr \in Seq(S), NEW elem, \E i \in DOMAIN arr : arr[i] = elem
    PROVE  FirstIndex(arr, elem) \in DOMAIN arr /\ arr[FirstIndex(arr, elem)] = elem
<1> DEFINE hits == {i \in DOMAIN arr : arr[i] = elem}
<1>1. hits \subseteq Nat /\ hits # {}
  OBVIOUS
<1>2. \E i \in hits : \A j \in hits : i <= j
  <2> HIDE DEF hits
  <2>1. QED
    BY <1>1, LeastElement
<1>3. QED
  BY <1>2 DEF FirstIndex

(* Removing an element that is there shortens the array by one and keeps    *)
(* every other element in it.                                              *)
LEMMA RemoveKeepsOthers ==
    ASSUME NEW S, NEW arr \in Seq(S), NEW elem, \E i \in DOMAIN arr : arr[i] = elem
    PROVE  LET rest == removeAddressArrayElement(arr, elem)
           IN  /\ rest \in Seq(S)
               /\ Len(rest) = Len(arr) - 1
               /\ \A x \in S \ {elem} : (\E i \in DOMAIN arr : arr[i] = x)
                      => \E i \in DOMAIN rest : rest[i] = x
<1> DEFINE n == Len(arr)
           index == FirstIndex(arr, elem)
           rest == removeAddressArrayElement(arr, elem)
<1>1. index \in 1..n /\ arr[index] = elem
  BY FirstIndexFinds
<1>2. n \in Nat \ {0} /\ DOMAIN arr = 1..n
  BY <1>1
<1>3. rest = [j \in 1..(n - 1) |-> IF j = index THEN arr[n] ELSE arr[j]]
  BY <1>1 DEF removeAddressArrayElement
<1>4. rest \in Seq(S) /\ Len(rest) = n - 1 /\ DOMAIN rest = 1..(n - 1)
  <2>1. \A j \in 1..(n - 1) : rest[j] \in S
    BY <1>1, <1>2, <1>3
  <2>2. QED
    BY <1>2, <1>3, <2>1
<1>5. ASSUME NEW x \in S \ {elem}, NEW i \in 1..n, arr[i] = x
      PROVE  \E j \in 1..(n - 1) : rest[j] = x
  <2>1. CASE i < n
    <3>1. i # index /\ i \in 1..(n - 1)
      BY <1>1, <1>2, <1>5, <2>1
    <3>2. rest[i] = x
      BY <1>3, <1>5, <3>1
    <3>3. QED
      BY <3>1, <3>2
  <2>2. CASE i = n
    <3>1. index # n /\ index \in 1..(n - 1)
      BY <1>1, <1>2, <1>5, <2>2
    <3>2. rest[index] = x
      BY <1>3, <1>5, <2>2, <3>1
    <3>3. QED
      BY <3>1, <3>2
  <2>3. i < n \/ i = n
    <3>1. \A m \in Nat : \A k \in 1..m : k < m \/ k = m
      OBVIOUS
    <3>2. QED
      BY <1>2, <3>1, Zenon
  <2>4. QED
    BY <2>1, <2>2, <2>3
<1> HIDE DEF rest
<1>6. QED
  BY <1>2, <1>4, <1>5 DEF rest

--------------------------------------------------------------------------------
(* RosterIsSound is inductive as it stands.                                 *)
USE DeployerAssumption, MaxAdminCountAssumption

LEMMA InitAdminInv == AdminInit => RosterIsSound
<1> SUFFICES ASSUME AdminInit PROVE RosterIsSound
  OBVIOUS
<1>1. AdminTypeOK
  <2>1. admins \subseteq Accounts /\ paused \in BOOLEAN
    BY DEF AdminInit
  <2>2. adminCount \in 0..MaxAdminCount
    BY DEF AdminInit
  <2>3. allAdmins \in Seq(Accounts)
    BY DEF AdminInit
  <2>4. QED
    BY <2>1, <2>2, <2>3 DEF AdminTypeOK
<1>2. SomeoneAdministers /\ CountIsLength
  BY DEF AdminInit, SomeoneAdministers, CountIsLength
<1>3. AdminsAreListed
  <2>1. 1 \in DOMAIN allAdmins /\ allAdmins[1] = Deployer
    BY DEF AdminInit
  <2>2. QED
    BY <2>1 DEF AdminInit, AdminsAreListed
<1>4. QED
  BY <1>1, <1>2, <1>3 DEF RosterIsSound

(* An administrator is added: the array gains its last element. *)
LEMMA AddKeepsAdminInv ==
    ASSUME RosterIsSound, NEW sender \in Accounts, NEW account \in Accounts,
           addAdmin(sender, account)
    PROVE  RosterIsSound'
<1> USE DEF RosterIsSound, addAdmin
<1>1. AdminTypeOK'
  BY DEF AdminTypeOK
<1>2. CountIsLength'
  BY DEF CountIsLength, AdminTypeOK
<1>3. AdminsAreListed'
  <2> SUFFICES ASSUME NEW a \in admins'
               PROVE  \E i \in DOMAIN allAdmins' : allAdmins'[i] = a
    BY DEF AdminsAreListed
  <2>1. CASE a \in admins
    <3>1. PICK i \in DOMAIN allAdmins : allAdmins[i] = a
      BY <2>1 DEF AdminsAreListed
    <3>2. i \in DOMAIN allAdmins' /\ allAdmins'[i] = a
      BY <3>1 DEF AdminTypeOK
    <3>3. QED
      BY <3>2
  <2>2. CASE a = account
    <3>1. Len(allAdmins) + 1 \in DOMAIN allAdmins'
          /\ allAdmins'[Len(allAdmins) + 1] = a
      BY <2>2 DEF AdminTypeOK
    <3>2. QED
      BY <3>1
  <2>3. QED
    BY <2>1, <2>2
<1>4. SomeoneAdministers'
  BY DEF SomeoneAdministers
<1>5. QED
  BY <1>1, <1>2, <1>3, <1>4

(* An administrator is deleted: the caller remains one. *)
LEMMA DeleteKeepsAdminInv ==
    ASSUME RosterIsSound, NEW sender \in Accounts, NEW account \in Accounts,
           deleteAdmin(sender, account)
    PROVE  RosterIsSound'
<1> USE DEF RosterIsSound, deleteAdmin
<1>1. allAdmins \in Seq(Accounts) /\ \E i \in DOMAIN allAdmins : allAdmins[i] = account
  BY DEF AdminTypeOK, AdminsAreListed
<1>2. /\ allAdmins' \in Seq(Accounts)
      /\ Len(allAdmins') = Len(allAdmins) - 1
      /\ \A x \in Accounts \ {account} : (\E i \in DOMAIN allAdmins : allAdmins[i] = x)
             => \E i \in DOMAIN allAdmins' : allAdmins'[i] = x
  BY <1>1, RemoveKeepsOthers
<1>3. AdminTypeOK' /\ CountIsLength'
  <2>1. adminCount' = Len(allAdmins') /\ Len(allAdmins') \in Nat
    BY <1>2 DEF CountIsLength, AdminTypeOK
  <2>2. QED
    BY <1>2, <2>1 DEF AdminTypeOK, CountIsLength
<1>4. AdminsAreListed'
  BY <1>2 DEF AdminsAreListed, AdminTypeOK
<1>5. SomeoneAdministers'
  BY DEF SomeoneAdministers
<1>6. QED
  BY <1>3, <1>4, <1>5

LEMMA StepAdminInv == RosterIsSound /\ [AdminNext]_adminVars => RosterIsSound'
<1> SUFFICES ASSUME RosterIsSound, [AdminNext]_adminVars PROVE RosterIsSound'
  OBVIOUS
<1>1. CASE \E sender, account \in Accounts : addAdmin(sender, account)
  BY <1>1, AddKeepsAdminInv
<1>2. CASE \E sender, account \in Accounts : deleteAdmin(sender, account)
  BY <1>2, DeleteKeepsAdminInv
<1>3. CASE \E sender \in Accounts : pauseContract(sender) \/ unPauseContract(sender)
  BY <1>3 DEF RosterIsSound, AdminTypeOK, SomeoneAdministers, AdminsAreListed,
              CountIsLength, pauseContract, unPauseContract
<1>4. CASE UNCHANGED adminVars
  BY <1>4 DEF RosterIsSound, AdminTypeOK, SomeoneAdministers, AdminsAreListed,
              CountIsLength, adminVars
<1>5. QED
  BY <1>1, <1>2, <1>3, <1>4 DEF AdminNext

(* The mapping, the array and the count agree after any sequence of calls.  *)
THEOREM RosterSound == AdminSpec => []RosterIsSound
BY InitAdminInv, StepAdminInv, PTL DEF AdminSpec

(* The mapping, the array, the count and the switch keep their types; the   *)
(* count stays within uint16 and never goes below zero.                    *)
THEOREM AdminTypesCorrect == AdminSpec => []AdminTypeOK
<1>1. RosterIsSound => AdminTypeOK
  BY DEF RosterIsSound
<1>2. QED
  BY <1>1, RosterSound, PTL

(* addAdmin and deleteAdmin never leave the contract without administrator. *)
THEOREM ContractIsAdministered == AdminSpec => []SomeoneAdministers
<1>1. RosterIsSound => SomeoneAdministers
  BY DEF RosterIsSound
<1>2. QED
  BY <1>1, RosterSound, PTL

(* Whoever passes onlyAdmin is in the array of getAllAdmins, however often  *)
(* accounts were added again and removed.                                  *)
THEOREM ListedAdmins == AdminSpec => []AdminsAreListed
<1>1. RosterIsSound => AdminsAreListed
  BY DEF RosterIsSound
<1>2. QED
  BY <1>1, RosterSound, PTL

(* adminCount is the length of the array after every call. *)
THEOREM CountCorrect == AdminSpec => []CountIsLength
<1>1. RosterIsSound => CountIsLength
  BY DEF RosterIsSound
<1>2. QED
  BY <1>1, RosterSound, PTL

--------------------------------------------------------------------------------
(* Trades and withdrawals. *)

USE AddressAssumption, NoOrderAssumption, DeployerAssumption

--------------------------------------------------------------------------------
(* Money. *)

(* What an account gains by a payment of an amount to somebody. *)
Share(h, whom, amount) == IF h = whom THEN amount ELSE 0

LEMMA ShareIsNat ==
    ASSUME NEW h, NEW whom, NEW amount \in Nat
    PROVE  Share(h, whom, amount) \in Nat /\ Share(h, h, amount) = amount
BY DEF Share

LEMMA MoveIsNat ==
    ASSUME NEW balance \in [Holders -> Nat], NEW from \in Holders, NEW to \in Holders,
           NEW amount \in Nat, balance[from] >= amount
    PROVE  Move(balance, from, to, amount) \in [Holders -> Nat]
BY DEF Move

LEMMA TransferKeepsType ==
    ASSUME NEW t \in TokenState, NEW from \in Accounts, NEW to \in Holders,
           NEW amount \in Nat
    PROVE  transferFrom(t, from, to, amount) \in TokenState
<1>1. CASE t.balance[from] < amount \/ t.allowance[from] < amount
  BY <1>1 DEF transferFrom
<1>2. CASE ~(t.balance[from] < amount \/ t.allowance[from] < amount)
  <2>1. t.balance \in [Holders -> Nat] /\ t.allowance \in [Accounts -> Nat] /\ from \in Holders
    BY DEF TokenState, Holders
  <2>2. t.balance[from] >= amount /\ t.allowance[from] >= amount
    BY <1>2, <2>1
  <2>3. Move(t.balance, from, to, amount) \in [Holders -> Nat]
    BY <2>1, <2>2, MoveIsNat
  <2>4. [t.allowance EXCEPT ![from] = @ - amount] \in [Accounts -> Nat]
    BY <2>1, <2>2
  <2>5. QED
    BY <1>2, <2>3, <2>4 DEF transferFrom, TokenState
<1>3. QED
  BY <1>1, <1>2

(* A transfer that is covered by balance and allowance takes place. *)
LEMMA TransferMoves ==
    ASSUME NEW t \in TokenState, NEW from \in Accounts, NEW to \in Holders,
           NEW amount \in Nat,
           t.balance[from] >= amount, t.allowance[from] >= amount
    PROVE  /\ \A h \in Holders : transferFrom(t, from, to, amount).balance[h] =
                  t.balance[h] - (IF h = from THEN amount ELSE 0)
                               + (IF h = to THEN amount ELSE 0)
           /\ transferFrom(t, from, to, amount).allowance[from] = t.allowance[from] - amount
<1>1. t.balance \in [Holders -> Nat] /\ t.allowance \in [Accounts -> Nat]
  BY DEF TokenState
<1>2. from \in Holders
  BY DEF Holders
<1>3. ~(t.balance[from] < amount \/ t.allowance[from] < amount)
  BY <1>1, <1>2
<1>4. transferFrom(t, from, to, amount) =
         [balance   |-> Move(t.balance, from, to, amount),
          allowance |-> [t.allowance EXCEPT ![from] = @ - amount]]
  BY <1>3 DEF transferFrom
<1>5. QED
  BY <1>1, <1>4 DEF Move

(* No transfer on behalf of an account takes tokens from the exchange. *)
LEMMA TransferSparesExchange ==
    ASSUME NEW t \in TokenState, NEW from \in Accounts, NEW to \in Holders,
           NEW amount \in Nat
    PROVE  transferFrom(t, from, to, amount).balance[Exchange] >= t.balance[Exchange]
<1>1. t.balance \in [Holders -> Nat] /\ Exchange \in Holders
  BY DEF TokenState, Holders
<1>2. QED
  BY <1>1 DEF transferFrom, Move

(* The buyer holds an amount and lets the exchange move it. *)
Covers(t, buyer, amount) == t.balance[buyer] >= amount /\ t.allowance[buyer] >= amount

(* The arguments of a settlement. *)
Settlement(t, buyer, seller, sellerAmount, feeAmount, royaltyTo, royaltyAmount) ==
    /\ t \in TokenState /\ buyer \in Accounts /\ seller \in Accounts
    /\ sellerAmount \in Nat /\ feeAmount \in Nat /\ royaltyAmount \in Nat
    /\ royaltyAmount > 0 => royaltyTo \in Accounts

(* The three transfers of a settlement keep the types, *)
LEMMA SettleKeepsType ==
    ASSUME NEW t \in TokenState, NEW buyer \in Accounts, NEW seller \in Accounts,
           NEW sellerAmount \in Nat, NEW feeAmount \in Nat, NEW royaltyAmount \in Nat,
           NEW royaltyTo, royaltyAmount > 0 => royaltyTo \in Accounts
    PROVE  settleTokens(t, buyer, seller, sellerAmount, feeAmount, royaltyTo, royaltyAmount)
               \in TokenState
<1> DEFINE paid == transferFrom(t, buyer, seller, sellerAmount)
           kept == transferFrom(paid, buyer, Exchange, feeAmount)
<1>1. paid \in TokenState
  BY TransferKeepsType DEF Holders
<1>2. kept \in TokenState
  <2> HIDE DEF paid
  <2>1. QED
    BY <1>1, TransferKeepsType DEF Holders
<1>3. royaltyAmount # 0 => transferFrom(kept, buyer, royaltyTo, royaltyAmount) \in TokenState
  <2> HIDE DEF kept
  <2>1. QED
    BY <1>2, TransferKeepsType DEF Holders
<1>4. QED
  BY <1>2, <1>3 DEF settleTokens

(* take nothing from the exchange, *)
LEMMA SettleSparesExchange ==
    ASSUME NEW t \in TokenState, NEW buyer \in Accounts, NEW seller \in Accounts,
           NEW sellerAmount \in Nat, NEW feeAmount \in Nat, NEW royaltyAmount \in Nat,
           NEW royaltyTo, royaltyAmount > 0 => royaltyTo \in Accounts
    PROVE  settleTokens(t, buyer, seller, sellerAmount, feeAmount, royaltyTo,
                        royaltyAmount).balance[Exchange] >= t.balance[Exchange]
<1> DEFINE paid == transferFrom(t, buyer, seller, sellerAmount)
           kept == transferFrom(paid, buyer, Exchange, feeAmount)
           done == transferFrom(kept, buyer, royaltyTo, royaltyAmount)
<1>1. paid \in TokenState /\ paid.balance[Exchange] >= t.balance[Exchange]
  BY TransferKeepsType, TransferSparesExchange DEF Holders
<1>2. kept \in TokenState /\ kept.balance[Exchange] >= paid.balance[Exchange]
  <2> HIDE DEF paid
  <2>1. QED
    BY <1>1, TransferKeepsType, TransferSparesExchange DEF Holders
<1>3. royaltyAmount # 0 =>
         done \in TokenState /\ done.balance[Exchange] >= kept.balance[Exchange]
  <2> HIDE DEF kept
  <2>1. royaltyAmount # 0 => royaltyTo \in Accounts /\ royaltyTo \in Holders
    BY DEF Holders
  <2>2. royaltyAmount # 0 => done \in TokenState
    BY <1>2, <2>1, TransferKeepsType
  <2>3. royaltyAmount # 0 => done.balance[Exchange] >= kept.balance[Exchange]
    BY <1>2, <2>1, TransferSparesExchange
  <2>4. QED
    BY <2>2, <2>3
<1>4. settleTokens(t, buyer, seller, sellerAmount, feeAmount, royaltyTo, royaltyAmount)
         = IF royaltyAmount = 0 THEN kept ELSE done
  BY DEF settleTokens
<1> HIDE DEF paid, kept, done
<1>5. /\ t.balance[Exchange] \in Nat /\ paid.balance[Exchange] \in Nat
      /\ kept.balance[Exchange] \in Nat
      /\ royaltyAmount # 0 => done.balance[Exchange] \in Nat
  BY <1>1, <1>2, <1>3 DEF TokenState, Holders
<1>6. QED
  BY <1>1, <1>2, <1>3, <1>4, <1>5

(* and leave the fee with the exchange when the buyer can pay that far. *)
LEMMA SettlePaysFee ==
    ASSUME NEW t, NEW buyer, NEW seller, NEW sellerAmount, NEW feeAmount,
           NEW royaltyTo, NEW royaltyAmount,
           Settlement(t, buyer, seller, sellerAmount, feeAmount, royaltyTo, royaltyAmount),
           Covers(t, buyer, sellerAmount + feeAmount)
    PROVE  settleTokens(t, buyer, seller, sellerAmount, feeAmount, royaltyTo,
                        royaltyAmount).balance[Exchange] = t.balance[Exchange] + feeAmount
<1> DEFINE paid == transferFrom(t, buyer, seller, sellerAmount)
           kept == transferFrom(paid, buyer, Exchange, feeAmount)
           done == transferFrom(kept, buyer, royaltyTo, royaltyAmount)
<1> USE DEF Settlement
<1>0. /\ Exchange \in Holders /\ Accounts \subseteq Holders
      /\ t.balance \in [Holders -> Nat] /\ t.allowance \in [Accounts -> Nat]
  BY DEF TokenState, Holders
<1>1. t.balance[buyer] \in Nat /\ t.allowance[buyer] \in Nat /\ t.balance[Exchange] \in Nat
  BY <1>0
<1>2. /\ paid \in TokenState
      /\ paid.balance[buyer] >= feeAmount /\ paid.allowance[buyer] >= feeAmount
      /\ paid.balance[Exchange] = t.balance[Exchange]
  <2>1. t.balance[buyer] >= sellerAmount /\ t.allowance[buyer] >= sellerAmount
    BY <1>1 DEF Covers
  <2>2. /\ \A h \in Holders : paid.balance[h] =
               t.balance[h] - (IF h = buyer THEN sellerAmount ELSE 0)
                            + (IF h = seller THEN sellerAmount ELSE 0)
        /\ paid.allowance[buyer] = t.allowance[buyer] - sellerAmount
    BY <2>1, <1>0, TransferMoves
  <2>3. paid \in TokenState
    BY <1>0, TransferKeepsType
  <2> HIDE DEF paid
  <2>4. QED
    BY <1>0, <1>1, <2>2, <2>3 DEF Covers
<1>3. kept \in TokenState /\ kept.balance[Exchange] = t.balance[Exchange] + feeAmount
  <2> HIDE DEF paid
  <2>1. \A h \in Holders : kept.balance[h] =
               paid.balance[h] - (IF h = buyer THEN feeAmount ELSE 0)
                               + (IF h = Exchange THEN feeAmount ELSE 0)
    BY <1>0, <1>2, TransferMoves
  <2>2. kept \in TokenState
    BY <1>0, <1>2, TransferKeepsType
  <2>3. kept.balance[Exchange] = paid.balance[Exchange] - 0 + feeAmount
    BY <1>0, <2>1
  <2>4. QED
    BY <1>1, <1>2, <2>2, <2>3
<1>4. royaltyAmount # 0 => done.balance[Exchange] = kept.balance[Exchange]
  <2> HIDE DEF kept
  <2>1. SUFFICES ASSUME royaltyAmount # 0 PROVE done.balance[Exchange] = kept.balance[Exchange]
    OBVIOUS
  <2>2. kept.balance \in [Holders -> Nat] /\ royaltyTo # Exchange /\ buyer # Exchange
    BY <1>3, <2>1 DEF TokenState
  <2>3. QED
    BY <1>0, <2>2 DEF transferFrom, Move
<1>5. QED
  BY <1>3, <1>4 DEF settleTokens

(* When the buyer can pay the three amounts, all three are paid. *)
LEMMA SettlePaysAll ==
    ASSUME NEW t, NEW buyer, NEW seller, NEW sellerAmount, NEW feeAmount,
           NEW royaltyTo, NEW royaltyAmount,
           Settlement(t, buyer, seller, sellerAmount, feeAmount, royaltyTo, royaltyAmount),
           Covers(t, buyer, sellerAmount + feeAmount + royaltyAmount),
           NEW h \in Accounts
    PROVE  settleTokens(t, buyer, seller, sellerAmount, feeAmount, royaltyTo,
                        royaltyAmount).balance[h] =
               t.balance[h] - Share(h, buyer, sellerAmount + feeAmount + royaltyAmount)
                 + Share(h, seller, sellerAmount) + Share(h, royaltyTo, royaltyAmount)
<1> DEFINE paid == transferFrom(t, buyer, seller, sellerAmount)
           kept == transferFrom(paid, buyer, Exchange, feeAmount)
           done == transferFrom(kept, buyer, royaltyTo, royaltyAmount)
           rest == feeAmount + royaltyAmount
<1> USE DEF Settlement
<1>0. /\ Exchange \in Holders /\ Accounts \subseteq Holders
      /\ t.balance \in [Holders -> Nat] /\ t.allowance \in [Accounts -> Nat]
  BY DEF TokenState, Holders
<1>1. t.balance[buyer] \in Nat /\ t.allowance[buyer] \in Nat /\ t.balance[h] \in Nat
  BY <1>0
<1>2. /\ paid \in TokenState
      /\ paid.balance[buyer] >= rest /\ paid.allowance[buyer] >= rest
      /\ paid.balance[h] = t.balance[h] - (IF h = buyer THEN sellerAmount ELSE 0)
                                        + (IF h = seller THEN sellerAmount ELSE 0)
  <2>1. t.balance[buyer] >= sellerAmount /\ t.allowance[buyer] >= sellerAmount
    BY <1>1 DEF Covers
  <2>2. /\ \A g \in Holders : paid.balance[g] =
               t.balance[g] - (IF g = buyer THEN sellerAmount ELSE 0)
                            + (IF g = seller THEN sellerAmount ELSE 0)
        /\ paid.allowance[buyer] = t.allowance[buyer] - sellerAmount
    BY <2>1, <1>0, TransferMoves
  <2>3. paid \in TokenState
    BY <1>0, TransferKeepsType
  <2> HIDE DEF paid
  <2>4. QED
    BY <1>0, <1>1, <2>2, <2>3 DEF Covers
<1>3. /\ kept \in TokenState
      /\ kept.balance[buyer] >= royaltyAmount /\ kept.allowance[buyer] >= royaltyAmount
      /\ kept.balance[h] = paid.balance[h] - (IF h = buyer THEN feeAmount ELSE 0)
  <2> HIDE DEF paid
  <2>1. /\ paid.balance \in [Holders -> Nat] /\ paid.allowance \in [Accounts -> Nat]
    BY <1>2 DEF TokenState
  <2>2. paid.balance[buyer] \in Nat /\ paid.allowance[buyer] \in Nat /\ paid.balance[h] \in Nat
    BY <1>0, <2>1
  <2>3. paid.balance[buyer] >= feeAmount /\ paid.allowance[buyer] >= feeAmount
    BY <1>2, <2>2
  <2>4. /\ \A g \in Holders : kept.balance[g] =
               paid.balance[g] - (IF g = buyer THEN feeAmount ELSE 0)
                               + (IF g = Exchange THEN feeAmount ELSE 0)
        /\ kept.allowance[buyer] = paid.allowance[buyer] - feeAmount
    BY <1>0, <1>2, <2>3, TransferMoves
  <2>5. kept \in TokenState
    BY <1>0, <1>2, TransferKeepsType
  <2> HIDE DEF kept
  <2>6. h # Exchange /\ buyer # Exchange
    OBVIOUS
  <2>7. QED
    BY <1>0, <1>2, <2>2, <2>4, <2>5, <2>6
<1>4. royaltyAmount # 0 =>
        done.balance[h] = kept.balance[h] - (IF h = buyer THEN royaltyAmount ELSE 0)
                                          + (IF h = royaltyTo THEN royaltyAmount ELSE 0)
  <2> HIDE DEF kept
  <2>1. SUFFICES ASSUME royaltyAmount # 0
                 PROVE  done.balance[h] =
                          kept.balance[h] - (IF h = buyer THEN royaltyAmount ELSE 0)
                                          + (IF h = royaltyTo THEN royaltyAmount ELSE 0)
    OBVIOUS
  <2>2. QED
    BY <1>0, <1>3, <2>1, TransferMoves
<1>5. settleTokens(t, buyer, seller, sellerAmount, feeAmount, royaltyTo, royaltyAmount)
         = IF royaltyAmount = 0 THEN kept ELSE done
  BY DEF settleTokens
<1> HIDE DEF paid, kept, done
<1>6. QED
  BY <1>1, <1>2, <1>3, <1>4, <1>5 DEF Share

(* A transfer costs nobody but the payer, and the payer at most the amount. *)
LEMMA TransferBounds ==
    ASSUME NEW t \in TokenState, NEW from \in Accounts, NEW to \in Holders,
           NEW amount \in Nat
    PROVE  /\ transferFrom(t, from, to, amount).balance[from] >= t.balance[from] - amount
           /\ \A h \in Holders \ {from} :
                  transferFrom(t, from, to, amount).balance[h] >= t.balance[h]
<1>1. t.balance \in [Holders -> Nat] /\ Accounts \subseteq Holders
  BY DEF TokenState, Holders
<1>2. QED
  BY <1>1 DEF transferFrom, Move

(* Whatever the buyer can pay: a settlement takes at most its three amounts *)
(* from the buyer, and nothing back that the first transfer has paid.      *)
LEMMA SettleBounds ==
    ASSUME NEW t, NEW buyer, NEW seller, NEW sellerAmount, NEW feeAmount,
           NEW royaltyTo, NEW royaltyAmount,
           Settlement(t, buyer, seller, sellerAmount, feeAmount, royaltyTo, royaltyAmount)
    PROVE
      LET u == settleTokens(t, buyer, seller, sellerAmount, feeAmount, royaltyTo,
                            royaltyAmount)
      IN  /\ u.balance[buyer] >= t.balance[buyer] - (sellerAmount + feeAmount + royaltyAmount)
          /\ \A h \in Accounts \ {buyer} :
                 u.balance[h] >= transferFrom(t, buyer, seller, sellerAmount).balance[h]
<1> DEFINE paid == transferFrom(t, buyer, seller, sellerAmount)
           kept == transferFrom(paid, buyer, Exchange, feeAmount)
           done == transferFrom(kept, buyer, royaltyTo, royaltyAmount)
<1> USE DEF Settlement
<1>0. Exchange \in Holders /\ Accounts \subseteq Holders
  BY DEF Holders
<1>1. paid \in TokenState /\ paid.balance[buyer] >= t.balance[buyer] - sellerAmount
  BY <1>0, TransferKeepsType, TransferBounds
<1> HIDE DEF paid
<1>2. /\ kept \in TokenState /\ kept.balance[buyer] >= paid.balance[buyer] - feeAmount
      /\ \A h \in Holders \ {buyer} : kept.balance[h] >= paid.balance[h]
  BY <1>0, <1>1, TransferKeepsType, TransferBounds
<1> HIDE DEF kept
<1>3. royaltyAmount # 0 =>
        /\ done \in TokenState /\ done.balance[buyer] >= kept.balance[buyer] - royaltyAmount
        /\ \A h \in Holders \ {buyer} : done.balance[h] >= kept.balance[h]
  <2>1. royaltyAmount # 0 => royaltyTo \in Holders
    BY <1>0
  <2>2. QED
    BY <1>2, <2>1, TransferKeepsType, TransferBounds
<1> HIDE DEF done
<1>4. settleTokens(t, buyer, seller, sellerAmount, feeAmount, royaltyTo, royaltyAmount)
         = IF royaltyAmount = 0 THEN kept ELSE done
  BY DEF settleTokens, kept, paid, done
<1>5. /\ t.balance \in [Holders -> Nat] /\ paid.balance \in [Holders -> Nat]
      /\ kept.balance \in [Holders -> Nat]
      /\ royaltyAmount # 0 => done.balance \in [Holders -> Nat]
  BY <1>1, <1>2, <1>3 DEF TokenState
<1>6. CASE royaltyAmount = 0
  BY <1>0, <1>1, <1>2, <1>4, <1>5, <1>6 DEF paid
<1>7. CASE royaltyAmount # 0
  <2> DEFINE u == settleTokens(t, buyer, seller, sellerAmount, feeAmount, royaltyTo,
                               royaltyAmount)
  <2>1. u = done
    BY <1>4, <1>7
  <2>2. done.balance[buyer] >= t.balance[buyer] - (sellerAmount + feeAmount + royaltyAmount)
    BY <1>0, <1>1, <1>2, <1>3, <1>5, <1>7
  <2>3. \A h \in Accounts \ {buyer} : done.balance[h] >= paid.balance[h]
    BY <1>0, <1>2, <1>3, <1>5, <1>7
  <2>4. QED
    BY <2>1, <2>2, <2>3 DEF paid
<1>8. QED
  BY <1>6, <1>7

--------------------------------------------------------------------------------
(* The orders of the calls. *)

LEMMA SellOrderTypes ==
    ASSUME NEW o \in SellOrders
    PROVE  /\ o.nft \in NFTs /\ o.seller \in Accounts
           /\ o.royaltyTo \in Accounts \cup {NoAddress}
           /\ o.sellerAmount \in Nat /\ o.feeAmount \in Nat
           /\ o.royaltyAmount \in Nat /\ o.totalAmount \in Nat
           /\ o # NoOrder
BY SellOrdersAssumption DEF IsOrder

LEMMA BuyOrderTypes ==
    ASSUME NEW o \in BuyOrders
    PROVE  /\ o.nft \in NFTs /\ o.buyer \in Accounts /\ o.payWith \in Tokens
           /\ o.royaltyTo \in Accounts \cup {NoAddress}
           /\ o.sellerAmount \in Nat /\ o.feeAmount \in Nat
           /\ o.royaltyAmount \in Nat /\ o.totalAmount \in Nat
           /\ o # NoOrder
BY BuyOrdersAssumption DEF IsOrder

(* The inductive invariant: types, and the roster of the administrators,   *)
(* whose types rest on the agreement of mapping, array and count.          *)
MarketInv == TypeOK /\ RosterIsSound

LEMMA InitMarketInv == Init => MarketInv
<1> SUFFICES ASSUME Init PROVE MarketInv
  OBVIOUS
<1> USE DEF Init
<1>1. RosterIsSound
  BY InitAdminInv
<1>2. now \in 0..MaxTime /\ owner \in [NFTs -> Accounts] /\ approvedAll \subseteq Accounts
  BY TimeAssumption, StartAssumption
<1>3. eth \in [Holders -> Nat]
  BY StartAssumption DEF Holders
<1>4. token \in [Tokens -> TokenState]
  BY StartAssumption DEF Holders, TokenState
<1>5. receipt \in Receipt
  BY DEF NoReceipt, Receipt
<1>6. QED
  BY <1>1, <1>2, <1>3, <1>4, <1>5 DEF TypeOK, MarketInv, RosterIsSound

(* What buyNFT leaves each account and the contract with. *)
LEMMA PayoutMoves ==
    ASSUME eth \in [Holders -> Nat], NEW sender \in Accounts, NEW o \in SellOrders,
           HasRoyaltyAddress(o, o.royaltyTo)
    PROVE  /\ DOMAIN payout(o, sender) = Holders
           /\ payout(o, sender)[Exchange] =
                  eth[Exchange] + o.totalAmount - o.sellerAmount - o.royaltyAmount
           /\ \A h \in Accounts : payout(o, sender)[h] =
                  eth[h] - Share(h, sender, o.totalAmount)
                         + Share(h, o.seller, o.sellerAmount)
                         + Share(h, o.royaltyTo, o.royaltyAmount)
           /\ payout(o, sender) = [h \in Holders |-> payout(o, sender)[h]]
<1>1. /\ o.seller \in Accounts /\ o.royaltyAmount \in Nat
      /\ o.sellerAmount \in Nat /\ o.totalAmount \in Nat
      /\ o.royaltyAmount > 0 => o.royaltyTo \in Accounts
  BY SellOrderTypes DEF HasRoyaltyAddress
<1>2. \A h \in Holders : eth[h] \in Nat
  OBVIOUS
<1>3. CASE o.royaltyAmount = 0
  BY <1>1, <1>2, <1>3 DEF payout, Move, Holders, Share
<1>4. CASE o.royaltyAmount > 0
  <2> DEFINE received == Move(eth, sender, Exchange, o.totalAmount)
             sold == Move(received, Exchange, o.seller, o.sellerAmount)
  <2>1. /\ DOMAIN sold = Holders
        /\ \A h \in Holders : sold[h] =
               eth[h] - (IF h = sender THEN o.totalAmount ELSE 0)
                      + (IF h = Exchange THEN o.totalAmount ELSE 0)
                      - (IF h = Exchange THEN o.sellerAmount ELSE 0)
                      + (IF h = o.seller THEN o.sellerAmount ELSE 0)
    <3>1. received = [h \in Holders |->
                        eth[h] - (IF h = sender THEN o.totalAmount ELSE 0)
                               + (IF h = Exchange THEN o.totalAmount ELSE 0)]
      BY DEF Move
    <3>2. sold = [h \in DOMAIN received |->
                    received[h] - (IF h = Exchange THEN o.sellerAmount ELSE 0)
                                + (IF h = o.seller THEN o.sellerAmount ELSE 0)]
      BY Zenon DEF Move
    <3> HIDE DEF received, sold
    <3>3. DOMAIN received = Holders
      BY <3>1
    <3>4. QED
      BY <1>1, <1>2, <3>1, <3>2, <3>3
  <2>2. payout(o, sender) = Move(sold, Exchange, o.royaltyTo, o.royaltyAmount)
    BY <1>1, <1>4 DEF payout
  <2> HIDE DEF sold
  <2>3. payout(o, sender) = [h \in Holders |->
            sold[h] - (IF h = Exchange THEN o.royaltyAmount ELSE 0)
                    + (IF h = o.royaltyTo THEN o.royaltyAmount ELSE 0)]
    BY <2>1, <2>2 DEF Move
  <2>4. payout(o, sender)[Exchange] =
            eth[Exchange] + o.totalAmount - o.sellerAmount - o.royaltyAmount
    <3>1. Exchange \in Holders /\ eth[Exchange] \in Nat /\ sender # Exchange
          /\ o.seller # Exchange /\ o.royaltyTo # Exchange
      BY <1>1, <1>2, <1>4 DEF Holders
    <3>2. QED
      BY <1>1, <2>1, <2>3, <3>1
  <2>5. ASSUME NEW h \in Accounts
        PROVE  payout(o, sender)[h] =
                  eth[h] - Share(h, sender, o.totalAmount)
                         + Share(h, o.seller, o.sellerAmount)
                         + Share(h, o.royaltyTo, o.royaltyAmount)
    <3>1. h \in Holders /\ h # Exchange /\ eth[h] \in Nat
      BY <1>2 DEF Holders
    <3>2. QED
      BY <1>1, <2>1, <2>3, <3>1 DEF Share
  <2>6. QED
    BY <1>4, <2>3, <2>4, <2>5
<1>5. QED
  BY <1>1, <1>3, <1>4

LEMMA PayoutIsNat ==
    ASSUME eth \in [Holders -> Nat], NEW sender \in Accounts, NEW o \in SellOrders,
           HasRoyaltyAddress(o, o.royaltyTo), eth[sender] >= o.totalAmount,
           payout(o, sender)[Exchange] >= 0
    PROVE  payout(o, sender) \in [Holders -> Nat]
<1>1. /\ o.royaltyAmount \in Nat /\ o.sellerAmount \in Nat /\ o.totalAmount \in Nat
  BY SellOrderTypes
<1>2. \A h \in Holders : eth[h] \in Nat
  OBVIOUS
<1>3. payout(o, sender)[Exchange] \in Nat
  BY <1>1, <1>2, PayoutMoves DEF Holders
<1>4. \A h \in Accounts : payout(o, sender)[h] \in Nat
  <2> SUFFICES ASSUME NEW h \in Accounts PROVE payout(o, sender)[h] \in Nat
    OBVIOUS
  <2>1. payout(o, sender)[h] =
            eth[h] - Share(h, sender, o.totalAmount) + Share(h, o.seller, o.sellerAmount)
                   + Share(h, o.royaltyTo, o.royaltyAmount)
    BY PayoutMoves
  <2>2. eth[h] \in Nat /\ (h = sender => eth[h] >= o.totalAmount)
    BY <1>2 DEF Holders
  <2>3. QED
    BY <1>1, <2>1, <2>2 DEF Share
<1>5. QED
  BY <1>3, <1>4, PayoutMoves DEF Holders

LEMMA QuietRoster == ASSUME RosterIsSound, UNCHANGED adminVars PROVE RosterIsSound'
BY StepAdminInv

LEMMA StepMarketInv == MarketInv /\ [Next]_vars => MarketInv'
<1> SUFFICES ASSUME MarketInv, [Next]_vars PROVE MarketInv'
  OBVIOUS
<1> USE DEF MarketInv
<1>0. /\ now \in 0..MaxTime /\ owner \in [NFTs -> Accounts] /\ approvedAll \subseteq Accounts
      /\ eth \in [Holders -> Nat] /\ token \in [Tokens -> TokenState] /\ receipt \in Receipt
      /\ RosterIsSound /\ AdminTypeOK /\ admins \subseteq Accounts
      /\ Accounts \subseteq Holders /\ Exchange \in Holders
  BY DEF TypeOK, AdminTypeOK, Holders
<1>a. NoReceipt \in Receipt
  BY DEF NoReceipt, Receipt
<1>b. RosterIsSound' => AdminTypeOK'
  BY DEF RosterIsSound
<1>1. ASSUME NEW sender \in Accounts, NEW o \in SellOrders, buyNFT(sender, o)
      PROVE  MarketInv'
  <2>1. eth' \in [Holders -> Nat]
    BY <1>0, <1>1, PayoutIsNat DEF buyNFT
  <2>2. owner' \in [NFTs -> Accounts]
    BY <1>0, <1>1, SellOrderTypes DEF buyNFT
  <2>3. receipt' \in Receipt
    BY <1>1 DEF buyNFT, Exchanged, Receipt
  <2>4. RosterIsSound' /\ UNCHANGED <<now, approvedAll, token>>
    BY <1>0, <1>1, QuietRoster DEF buyNFT, TakesTransaction
  <2>5. QED
    BY <1>0, <1>b, <2>1, <2>2, <2>3, <2>4 DEF TypeOK
<1>2. ASSUME NEW sender \in Accounts, NEW o \in BuyOrders, sellNFT(sender, o)
      PROVE  MarketInv'
  <2>1. token' \in [Tokens -> TokenState]
    <3>1. /\ token[o.payWith] \in TokenState /\ o.payWith \in Tokens
          /\ o.royaltyAmount > 0 => o.royaltyTo \in Accounts
      BY <1>0, <1>2, BuyOrderTypes DEF sellNFT, HasRoyaltyAddress
    <3>2. settleTokens(token[o.payWith], o.buyer, sender, o.sellerAmount, o.feeAmount,
                       o.royaltyTo, o.royaltyAmount) \in TokenState
      BY <3>1, BuyOrderTypes, SettleKeepsType
    <3>3. QED
      BY <1>0, <1>2, <3>1, <3>2 DEF sellNFT
  <2>2. owner' \in [NFTs -> Accounts]
    BY <1>0, <1>2, BuyOrderTypes DEF sellNFT
  <2>3. receipt' \in Receipt
    BY <1>2 DEF sellNFT, Exchanged, Receipt
  <2>4. RosterIsSound' /\ UNCHANGED <<now, approvedAll, eth>>
    BY <1>0, <1>2, QuietRoster DEF sellNFT, TakesTransaction
  <2>5. QED
    BY <1>0, <1>b, <2>1, <2>2, <2>3, <2>4 DEF TypeOK
<1>3. ASSUME NEW sender \in Accounts, NEW s \in SellOrders, NEW b \in BuyOrders,
             NEW minBid \in MinBids, exchangeNFTauction(sender, s, b, minBid)
      PROVE  MarketInv'
  <2>1. token' \in [Tokens -> TokenState]
    <3>1. /\ token[b.payWith] \in TokenState /\ b.payWith \in Tokens
          /\ s.royaltyAmount > 0 => b.royaltyTo \in Accounts
      BY <1>0, <1>3, BuyOrderTypes DEF exchangeNFTauction, Matches, HasRoyaltyAddress
    <3>2. settleTokens(token[b.payWith], b.buyer, s.seller, b.sellerAmount, b.feeAmount,
                       b.royaltyTo, s.royaltyAmount) \in TokenState
      BY <3>1, BuyOrderTypes, SellOrderTypes, SettleKeepsType
    <3>3. QED
      BY <1>0, <1>3, <3>1, <3>2 DEF exchangeNFTauction
  <2>2. owner' \in [NFTs -> Accounts]
    BY <1>0, <1>3, BuyOrderTypes DEF exchangeNFTauction
  <2>3. receipt' \in Receipt
    BY <1>3 DEF exchangeNFTauction, Exchanged, Receipt
  <2>4. RosterIsSound' /\ UNCHANGED <<now, approvedAll, eth>>
    BY <1>0, <1>3, QuietRoster DEF exchangeNFTauction, TakesTransaction
  <2>5. QED
    BY <1>0, <1>b, <2>1, <2>2, <2>3, <2>4 DEF TypeOK
<1>4. ASSUME NEW sender \in Accounts, NEW s \in SellOrders, NEW b \in BuyOrders,
             NEW minBid \in MinBids, exchangeNFTauctionRefused(sender, s, b, minBid)
      PROVE  MarketInv'
  <2>1. receipt' \in Receipt /\ RosterIsSound' /\ UNCHANGED <<now, nftVars, eth, token>>
    BY <1>0, <1>4, QuietRoster DEF exchangeNFTauctionRefused, Receipt
  <2>2. QED
    BY <1>0, <1>b, <2>1 DEF TypeOK, nftVars
<1>5. ASSUME NEW sender \in Accounts, NEW b \in BuyOrders, sellNFTRefused(sender, b)
      PROVE  MarketInv'
  <2>1. receipt' \in Receipt /\ RosterIsSound' /\ UNCHANGED <<now, nftVars, eth, token>>
    BY <1>0, <1>5, QuietRoster DEF sellNFTRefused, Receipt
  <2>2. QED
    BY <1>0, <1>b, <2>1 DEF TypeOK, nftVars
<1>6. ASSUME NEW sender \in Accounts, withdraw(sender) PROVE MarketInv'
  <2>1. PICK to \in Accounts, amount \in Amounts :
            \/ withdrawETH(sender, to, amount)
            \/ \E t \in Tokens : withdrawERC20Token(sender, t, to, amount)
    BY <1>6 DEF withdraw
  <2>2. amount \in Nat /\ to \in Holders
    BY <1>0, AmountsAssumption
  <2>3. CASE withdrawETH(sender, to, amount)
    <3>1. eth[Exchange] \in Nat /\ eth[Exchange] >= amount
      BY <1>0, <2>2, <2>3 DEF withdrawETH
    <3>2. eth' \in [Holders -> Nat]
      BY <1>0, <2>2, <2>3, <3>1, MoveIsNat DEF withdrawETH
    <3>3. RosterIsSound' /\ receipt' \in Receipt /\ UNCHANGED <<now, nftVars, token>>
      BY <1>0, <1>a, <2>3, QuietRoster DEF withdrawETH
    <3>4. QED
      BY <1>0, <1>b, <3>2, <3>3 DEF TypeOK, nftVars
  <2>4. ASSUME NEW t \in Tokens, withdrawERC20Token(sender, t, to, amount)
        PROVE  MarketInv'
    <3>1. /\ token[t].balance \in [Holders -> Nat] /\ token[t].allowance \in [Accounts -> Nat]
          /\ token[t] = [balance |-> token[t].balance, allowance |-> token[t].allowance]
      BY <1>0 DEF TokenState
    <3>2. token[t].balance[Exchange] \in Nat /\ token[t].balance[Exchange] >= amount
      BY <1>0, <2>2, <2>4, <3>1 DEF withdrawERC20Token
    <3>3. Move(token[t].balance, Exchange, to, amount) \in [Holders -> Nat]
      BY <1>0, <2>2, <3>1, <3>2, MoveIsNat
    <3>4. token' \in [Tokens -> TokenState]
      BY <1>0, <2>4, <3>1, <3>3 DEF withdrawERC20Token, TokenState
    <3>5. RosterIsSound' /\ receipt' \in Receipt /\ UNCHANGED <<now, nftVars, eth>>
      BY <1>0, <1>a, <2>4, QuietRoster DEF withdrawERC20Token
    <3>6. QED
      BY <1>0, <1>b, <3>4, <3>5 DEF TypeOK, nftVars
  <2>5. QED
    BY <2>1, <2>3, <2>4
<1>7. ASSUME NEW holder \in Accounts, elsewhere(holder) PROVE MarketInv'
  <2>1. ASSUME NEW n \in NFTs, NEW to \in Accounts, transferNFT(holder, n, to)
        PROVE  MarketInv'
    BY <1>0, <1>a, <1>b, <2>1, QuietRoster DEF transferNFT, TypeOK
  <2>2. ASSUME NEW approved \in BOOLEAN, setApprovalForAll(holder, approved)
        PROVE  MarketInv'
    BY <1>0, <1>a, <1>b, <2>2, QuietRoster DEF setApprovalForAll, TypeOK
  <2>3. ASSUME NEW t \in Tokens, NEW amount \in Grants[holder], approve(t, holder, amount)
        PROVE  MarketInv'
    <3>1. /\ token[t].balance \in [Holders -> Nat] /\ token[t].allowance \in [Accounts -> Nat]
          /\ amount \in Nat
      BY <1>0, AmountsAssumption DEF TokenState
    <3>2. token' \in [Tokens -> TokenState]
      BY <1>0, <2>3, <3>1 DEF approve, TokenState
    <3>3. QED
      BY <1>0, <1>a, <1>b, <2>3, <3>2, QuietRoster DEF approve, TypeOK, nftVars
  <2>4. ASSUME NEW t \in Tokens, NEW to \in Accounts, NEW amount \in Amounts,
               transferToken(t, holder, to, amount)
        PROVE  MarketInv'
    <3>1. /\ token[t].balance \in [Holders -> Nat] /\ token[t].allowance \in [Accounts -> Nat]
          /\ amount \in Nat /\ token[t].balance[holder] >= amount
      BY <1>0, <2>4, AmountsAssumption DEF TokenState, transferToken
    <3>2. Move(token[t].balance, holder, to, amount) \in [Holders -> Nat]
      BY <1>0, <3>1, MoveIsNat
    <3>3. token' \in [Tokens -> TokenState]
      BY <1>0, <2>4, <3>1, <3>2 DEF transferToken, TokenState
    <3>4. QED
      BY <1>0, <1>a, <1>b, <2>4, <3>3, QuietRoster DEF transferToken, TypeOK, nftVars
  <2>5. QED
    BY <1>7, <2>1, <2>2, <2>3, <2>4 DEF elsewhere
<1>8. CASE tick
  BY <1>0, <1>a, <1>b, <1>8, TimeAssumption, QuietRoster DEF tick, TypeOK, nftVars
<1>9. CASE administer
  BY <1>0, <1>a, <1>b, <1>9, StepAdminInv DEF administer, TypeOK, nftVars
<1>10. CASE UNCHANGED vars
  BY <1>0, <1>b, <1>10, QuietRoster DEF vars, marketVars, TypeOK
<1>11. QED
  BY <1>1, <1>2, <1>3, <1>4, <1>5, <1>6, <1>7, <1>8, <1>9, <1>10 DEF Next, trade

THEOREM MarketInvHolds == Spec => []MarketInv
BY InitMarketInv, StepMarketInv, PTL DEF Spec

(* No balance of the contract or of an account becomes negative, whatever   *)
(* the parts of the signed orders, and the roster stays well formed.       *)
THEOREM MarketTypesCorrect == Spec => []TypeOK
<1>1. MarketInv => TypeOK
  BY DEF MarketInv
<1>2. QED
  BY <1>1, MarketInvHolds, PTL

--------------------------------------------------------------------------------
(* The transactions that exchange an NFT, as the properties see them. *)

LEMMA ExchangeStep ==
    ASSUME Next, Exchanges
    PROVE  \/ \E sender \in Accounts, o \in SellOrders : buyNFT(sender, o)
           \/ \E sender \in Accounts, o \in BuyOrders : sellNFT(sender, o)
           \/ \E sender \in Accounts, s \in SellOrders, b \in BuyOrders, minBid \in MinBids :
                  exchangeNFTauction(sender, s, b, minBid)
BY DEF Next, trade, withdraw, elsewhere, Exchanges, NoReceipt, administer, tick,
       sellNFTRefused, exchangeNFTauctionRefused, withdrawETH, withdrawERC20Token,
       transferNFT, setApprovalForAll, approve, transferToken

LEMMA BuyReceipt ==
    ASSUME NEW sender \in Accounts, NEW o \in SellOrders, buyNFT(sender, o)
    PROVE  /\ receipt'.sell = o /\ receipt'.buy = NoOrder /\ receipt'.sender = sender
           /\ Seller(receipt') = o.seller /\ Buyer(receipt') = sender
           /\ Priced(receipt') = o /\ NFTOf(receipt') = o.nft
           /\ \A h \in Holders : Gain(receipt', h) = eth'[h] - eth[h]
BY SellOrderTypes DEF buyNFT, Exchanged, Seller, Buyer, Priced, NFTOf, Gain

LEMMA SellReceipt ==
    ASSUME NEW sender \in Accounts, NEW o \in BuyOrders, sellNFT(sender, o)
    PROVE  /\ receipt'.sell = NoOrder /\ receipt'.buy = o /\ receipt'.sender = sender
           /\ Seller(receipt') = sender /\ Buyer(receipt') = o.buyer
           /\ Priced(receipt') = o /\ NFTOf(receipt') = o.nft
           /\ \A h \in Holders : Gain(receipt', h) =
                  token'[o.payWith].balance[h] - token[o.payWith].balance[h]
BY BuyOrderTypes DEF sellNFT, Exchanged, Seller, Buyer, Priced, NFTOf, Gain

LEMMA AuctionReceipt ==
    ASSUME NEW sender \in Accounts, NEW s \in SellOrders, NEW b \in BuyOrders,
           NEW minBid, exchangeNFTauction(sender, s, b, minBid)
    PROVE  /\ receipt'.sell = s /\ receipt'.buy = b /\ receipt'.sender = sender
           /\ Seller(receipt') = s.seller /\ Buyer(receipt') = b.buyer
           /\ Priced(receipt') = b /\ NFTOf(receipt') = s.nft
           /\ \A h \in Holders : Gain(receipt', h) =
                  token'[b.payWith].balance[h] - token[b.payWith].balance[h]
BY BuyOrderTypes, SellOrderTypes
   DEF exchangeNFTauction, Exchanged, Seller, Buyer, Priced, NFTOf, Gain

(* buyNFT, sellNFT and exchangeNFTauction move the NFT of an owner who has  *)
(* approved the exchange, with the signature of whoever did not send.      *)
THEOREM ConsentOfBoth == Spec => BothSidesConsented
<1>1. MarketInv /\ [Next]_vars => [Consent]_vars
  <2> SUFFICES ASSUME MarketInv, Next, Exchanges PROVE Consent
    BY DEF Consent
  <2>0. owner \in [NFTs -> Accounts]
    BY DEF MarketInv, TypeOK
  <2>1. ASSUME NEW sender \in Accounts, NEW o \in SellOrders, buyNFT(sender, o)
        PROVE  Consent
    BY <2>0, <2>1, BuyReceipt, SellOrderTypes DEF buyNFT, Consent
  <2>2. ASSUME NEW sender \in Accounts, NEW o \in BuyOrders, sellNFT(sender, o)
        PROVE  Consent
    BY <2>0, <2>2, SellReceipt, BuyOrderTypes DEF sellNFT, Consent
  <2>3. ASSUME NEW sender \in Accounts, NEW s \in SellOrders, NEW b \in BuyOrders,
               NEW minBid \in MinBids, exchangeNFTauction(sender, s, b, minBid)
        PROVE  Consent
    <3>1. /\ ~paused /\ s \in Signed /\ b \in Signed /\ s.seller \in approvedAll
          /\ owner[s.nft] = s.seller /\ owner' = [owner EXCEPT ![s.nft] = b.buyer]
      BY <2>3 DEF exchangeNFTauction
    <3>2. owner'[s.nft] = b.buyer
      BY <2>0, <3>1, SellOrderTypes
    <3>3. /\ receipt'.sell = s /\ receipt'.buy = b
          /\ Seller(receipt') = s.seller /\ Buyer(receipt') = b.buyer
          /\ NFTOf(receipt') = s.nft
      BY <2>3, AuctionReceipt
    <3>4. QED
      BY <3>1, <3>2, <3>3 DEF Consent
  <2>4. QED
    BY <2>1, <2>2, <2>3, ExchangeStep
<1>2. QED
  BY <1>1, MarketInvHolds, PTL DEF Spec, BothSidesConsented

(* The gains of a sale in ETH. *)
LEMMA BuyGains ==
    ASSUME MarketInv, NEW sender \in Accounts, NEW o \in SellOrders, buyNFT(sender, o)
    PROVE  /\ Gain(receipt', Exchange) = o.totalAmount - (o.sellerAmount + o.royaltyAmount)
           /\ \A h \in Accounts : Gain(receipt', h) =
                  Share(h, o.seller, o.sellerAmount) + Share(h, o.royaltyTo, o.royaltyAmount)
                    - Share(h, sender, o.totalAmount)
<1>1. /\ eth \in [Holders -> Nat] /\ eth' = payout(o, sender)
      /\ HasRoyaltyAddress(o, o.royaltyTo)
      /\ Exchange \in Holders /\ Accounts \subseteq Holders
  BY DEF MarketInv, TypeOK, buyNFT, Holders
<1>2. /\ o.royaltyAmount \in Nat /\ o.sellerAmount \in Nat /\ o.totalAmount \in Nat
  BY SellOrderTypes
<1>3. Gain(receipt', Exchange) = o.totalAmount - (o.sellerAmount + o.royaltyAmount)
  BY <1>1, <1>2, BuyReceipt, PayoutMoves
<1>4. ASSUME NEW h \in Accounts
      PROVE  Gain(receipt', h) =
                  Share(h, o.seller, o.sellerAmount) + Share(h, o.royaltyTo, o.royaltyAmount)
                    - Share(h, sender, o.totalAmount)
  <2>1. eth'[h] = eth[h] - Share(h, sender, o.totalAmount)
                         + Share(h, o.seller, o.sellerAmount)
                         + Share(h, o.royaltyTo, o.royaltyAmount)
    BY <1>1, PayoutMoves
  <2>2. eth[h] \in Nat /\ Gain(receipt', h) = eth'[h] - eth[h]
    BY <1>1, BuyReceipt
  <2>3. QED
    BY <1>2, <2>1, <2>2, ShareIsNat
<1>5. QED
  BY <1>3, <1>4

(* A sale for tokens, accepted by the seller or matched in an auction: the  *)
(* buyer holds and has approved more than the total, and the parts of the  *)
(* buy order and the royalty are settled.                                  *)
LEMMA TokenSale ==
    ASSUME MarketInv, Next, Exchanges, ~InETH(receipt')
    PROVE  LET r == receipt'
               o == r.buy
               t == token[o.payWith]
           IN  /\ o \in BuyOrders /\ Priced(r) = o /\ Buyer(r) = o.buyer
               /\ Settlement(t, o.buyer, Seller(r), o.sellerAmount, o.feeAmount,
                             o.royaltyTo, RoyaltyOf(r))
               /\ t.balance[o.buyer] > o.totalAmount
               /\ t.allowance[o.buyer] > o.totalAmount
               /\ token' = [token EXCEPT ![o.payWith] =
                     settleTokens(t, o.buyer, Seller(r), o.sellerAmount, o.feeAmount,
                                  o.royaltyTo, RoyaltyOf(r))]
               /\ eth' = eth
<1>1. ASSUME NEW sender \in Accounts, NEW o \in SellOrders, buyNFT(sender, o)
      PROVE  FALSE
  BY <1>1, BuyReceipt DEF InETH
<1>2. ASSUME NEW sender \in Accounts, NEW o \in BuyOrders, sellNFT(sender, o)
      PROVE  /\ receipt'.buy = o /\ Priced(receipt') = o /\ Buyer(receipt') = o.buyer
             /\ Seller(receipt') = sender /\ RoyaltyOf(receipt') = o.royaltyAmount
             /\ HasRoyaltyAddress(o, o.royaltyTo) /\ HasApproved(o) /\ HasTokens(o)
             /\ token' = [token EXCEPT ![o.payWith] =
                   settleTokens(token[o.payWith], o.buyer, sender, o.sellerAmount,
                                o.feeAmount, o.royaltyTo, o.royaltyAmount)]
             /\ eth' = eth
  BY <1>2, SellReceipt DEF RoyaltyOf, sellNFT
<1>3. ASSUME NEW sender \in Accounts, NEW s \in SellOrders, NEW b \in BuyOrders,
             NEW minBid \in MinBids, exchangeNFTauction(sender, s, b, minBid)
      PROVE  /\ receipt'.buy = b /\ Priced(receipt') = b /\ Buyer(receipt') = b.buyer
             /\ Seller(receipt') = s.seller /\ RoyaltyOf(receipt') = s.royaltyAmount
             /\ HasRoyaltyAddress(s, b.royaltyTo) /\ HasApproved(b) /\ HasTokens(b)
             /\ token' = [token EXCEPT ![b.payWith] =
                   settleTokens(token[b.payWith], b.buyer, s.seller, b.sellerAmount,
                                b.feeAmount, b.royaltyTo, s.royaltyAmount)]
             /\ eth' = eth
  <2>1. s # NoOrder
    BY SellOrderTypes
  <2>2. QED
    BY <1>3, <2>1, AuctionReceipt DEF RoyaltyOf, exchangeNFTauction, Matches
<1>4. ASSUME NEW o \in BuyOrders, NEW seller \in Accounts, NEW royalty \in Nat,
             royalty > 0 => o.royaltyTo # NoAddress
      PROVE  Settlement(token[o.payWith], o.buyer, seller, o.sellerAmount, o.feeAmount,
                        o.royaltyTo, royalty)
  BY <1>4, BuyOrderTypes DEF Settlement, MarketInv, TypeOK
<1>5. CASE \E sender \in Accounts, o \in BuyOrders : sellNFT(sender, o)
  <2>1. PICK sender \in Accounts, o \in BuyOrders : sellNFT(sender, o)
    BY <1>5
  <2>2. o.royaltyAmount \in Nat
    BY BuyOrderTypes
  <2>3. QED
    BY <1>2, <1>4, <2>1, <2>2 DEF HasRoyaltyAddress, HasApproved, HasTokens
<1>6. CASE \E sender \in Accounts, s \in SellOrders, b \in BuyOrders, minBid \in MinBids :
               exchangeNFTauction(sender, s, b, minBid)
  <2>1. PICK sender \in Accounts, s \in SellOrders, b \in BuyOrders, minBid \in MinBids :
               exchangeNFTauction(sender, s, b, minBid)
    BY <1>6
  <2>2. s.royaltyAmount \in Nat /\ s.seller \in Accounts
    BY SellOrderTypes
  <2>3. QED
    BY <1>3, <1>4, <2>1, <2>2 DEF HasRoyaltyAddress, HasApproved, HasTokens
<1>7. QED
  BY <1>1, <1>5, <1>6, ExchangeStep

(* What a sale for tokens changes, with the types of its amounts. *)
LEMMA TokenGains ==
    ASSUME MarketInv, Next, Exchanges, ~InETH(receipt')
    PROVE  LET r == receipt'
               o == r.buy
               t == token[o.payWith]
               u == settleTokens(t, o.buyer, Seller(r), o.sellerAmount, o.feeAmount,
                                 o.royaltyTo, RoyaltyOf(r))
           IN  /\ o.payWith \in Tokens /\ o.totalAmount \in Nat /\ o.royaltyAmount \in Nat
               /\ t \in TokenState /\ u \in TokenState
               /\ token'[o.payWith] = u
               /\ \A h \in Holders : Gain(r, h) = u.balance[h] - t.balance[h]
               /\ Due(r) = o.sellerAmount + o.feeAmount + RoyaltyOf(r)
<1> DEFINE o == receipt'.buy
           t == token[o.payWith]
           u == settleTokens(t, o.buyer, Seller(receipt'), o.sellerAmount, o.feeAmount,
                             o.royaltyTo, RoyaltyOf(receipt'))
<1>1. /\ o \in BuyOrders /\ Priced(receipt') = o /\ token' = [token EXCEPT ![o.payWith] = u]
      /\ Settlement(t, o.buyer, Seller(receipt'), o.sellerAmount, o.feeAmount,
                    o.royaltyTo, RoyaltyOf(receipt'))
  BY TokenSale
<1>2. o.payWith \in Tokens /\ o.totalAmount \in Nat /\ o.royaltyAmount \in Nat
  BY <1>1, BuyOrderTypes
<1>3. token \in [Tokens -> TokenState] /\ t \in TokenState
  BY <1>2 DEF MarketInv, TypeOK
<1>4. u \in TokenState
  BY <1>1, SettleKeepsType DEF Settlement
<1>5. token'[o.payWith] = u
  BY <1>1, <1>2, <1>3
<1>6. \A h \in Holders : Gain(receipt', h) = u.balance[h] - t.balance[h]
  BY <1>5 DEF Gain, InETH
<1>7. QED
  BY <1>1, <1>2, <1>3, <1>4, <1>5, <1>6 DEF Due

(* The seller is paid the share of the order that prices the sale: in ETH   *)
(* because the payment is refused as a whole otherwise, in tokens because  *)
(* the conditions on balance and allowance cover the first transfer.       *)
THEOREM SellerIsPaid == Spec => SellerReceivesShare
<1>1. MarketInv /\ [Next]_vars => [Ask]_vars
  <2> DEFINE share == Priced(receipt').sellerAmount
  <2> SUFFICES ASSUME MarketInv, Next, Exchanges, Seller(receipt') # Buyer(receipt'),
                      InETH(receipt') \/ share <= Priced(receipt').totalAmount
               PROVE  Gain(receipt', Seller(receipt')) >= share
    BY DEF Ask
  <2>1. ASSUME NEW sender \in Accounts, NEW o \in SellOrders, buyNFT(sender, o)
        PROVE  Gain(receipt', o.seller) >= o.sellerAmount
    <3>1. o.seller # sender /\ o.seller \in Accounts
      BY <2>1, BuyReceipt, SellOrderTypes
    <3>2. o.sellerAmount \in Nat /\ o.royaltyAmount \in Nat /\ o.totalAmount \in Nat
      BY SellOrderTypes
    <3>3. Gain(receipt', o.seller) =
              Share(o.seller, o.seller, o.sellerAmount)
                + Share(o.seller, o.royaltyTo, o.royaltyAmount)
                - Share(o.seller, sender, o.totalAmount)
      BY <2>1, <3>1, BuyGains
    <3>4. QED
      BY <3>1, <3>2, <3>3 DEF Share
  <2>2. CASE ~InETH(receipt')
    <3> DEFINE r == receipt'
               o == r.buy
               t == token[o.payWith]
               u == settleTokens(t, o.buyer, Seller(r), o.sellerAmount, o.feeAmount,
                                 o.royaltyTo, RoyaltyOf(r))
               paid == transferFrom(t, o.buyer, Seller(r), o.sellerAmount)
    <3>1. /\ Priced(r) = o /\ Buyer(r) = o.buyer
          /\ Settlement(t, o.buyer, Seller(r), o.sellerAmount, o.feeAmount, o.royaltyTo,
                        RoyaltyOf(r))
          /\ t.balance[o.buyer] > o.totalAmount /\ t.allowance[o.buyer] > o.totalAmount
      BY <2>2, TokenSale
    <3>2. /\ o.totalAmount \in Nat /\ t \in TokenState /\ u \in TokenState
          /\ \A h \in Holders : Gain(r, h) = u.balance[h] - t.balance[h]
      BY <2>2, TokenGains
    <3>3. /\ o.sellerAmount \in Nat /\ o.buyer \in Accounts /\ Seller(r) \in Accounts
          /\ o.sellerAmount <= o.totalAmount /\ Seller(r) # o.buyer
      BY <2>2, <3>1 DEF Settlement
    <3>4. u.balance[Seller(r)] >= paid.balance[Seller(r)]
      BY <3>1, <3>3, SettleBounds
    <3> HIDE DEF r, o, t, u
    <3>5. /\ t.balance \in [Holders -> Nat] /\ t.allowance \in [Accounts -> Nat]
          /\ u.balance \in [Holders -> Nat] /\ Accounts \subseteq Holders
      BY <3>2 DEF TokenState, Holders
    <3>6. t.balance[o.buyer] >= o.sellerAmount /\ t.allowance[o.buyer] >= o.sellerAmount
      BY <3>1, <3>2, <3>3, <3>5
    <3>7. paid.balance[Seller(r)] = t.balance[Seller(r)] + o.sellerAmount
      BY <3>2, <3>3, <3>5, <3>6, TransferMoves
    <3> HIDE DEF paid
    <3>8. Gain(r, Seller(r)) >= o.sellerAmount
      BY <3>2, <3>3, <3>4, <3>5, <3>7
    <3>9. QED
      BY <3>1, <3>8 DEF r, o
  <2>3. CASE InETH(receipt')
    BY <2>1, <2>3, ExchangeStep, BuyReceipt, SellReceipt, AuctionReceipt, BuyOrderTypes
       DEF InETH
  <2>4. QED
    BY <2>2, <2>3
<1>2. QED
  BY <1>1, MarketInvHolds, PTL DEF Spec, SellerReceivesShare

(* The royalty transfer, the last one, succeeds as well. *)
THEOREM ArtistIsPaid == Spec => RoyaltyIsPaid
<1>1. MarketInv /\ [Next]_vars => [Royalty]_vars
  <2> DEFINE artist == Priced(receipt').royaltyTo
  <2> SUFFICES ASSUME MarketInv, Next, Exchanges, RoyaltyOf(receipt') > 0,
                      artist # Buyer(receipt'),
                      InETH(receipt') \/ Due(receipt') <= Priced(receipt').totalAmount
               PROVE  Gain(receipt', artist) >= RoyaltyOf(receipt')
    BY DEF Royalty
  <2>1. ASSUME NEW sender \in Accounts, NEW o \in SellOrders, buyNFT(sender, o)
        PROVE  Gain(receipt', artist) >= RoyaltyOf(receipt')
    <3>1. /\ RoyaltyOf(receipt') = o.royaltyAmount /\ artist = o.royaltyTo
          /\ o.royaltyTo # sender
      BY <2>1, BuyReceipt, SellOrderTypes DEF RoyaltyOf
    <3>2. o.sellerAmount \in Nat /\ o.royaltyAmount \in Nat /\ o.totalAmount \in Nat
      BY SellOrderTypes
    <3>3. o.royaltyTo \in Accounts
      BY <2>1, <3>1, SellOrderTypes DEF buyNFT, HasRoyaltyAddress
    <3>4. Gain(receipt', o.royaltyTo) =
              Share(o.royaltyTo, o.seller, o.sellerAmount)
                + Share(o.royaltyTo, o.royaltyTo, o.royaltyAmount)
                - Share(o.royaltyTo, sender, o.totalAmount)
      BY <2>1, <3>3, BuyGains
    <3> HIDE DEF artist
    <3>5. QED
      BY <3>1, <3>2, <3>4 DEF Share
  <2>2. CASE ~InETH(receipt')
    <3> DEFINE r == receipt'
               o == r.buy
               t == token[o.payWith]
               u == settleTokens(t, o.buyer, Seller(r), o.sellerAmount, o.feeAmount,
                                 o.royaltyTo, RoyaltyOf(r))
    <3>1. /\ Priced(r) = o /\ Buyer(r) = o.buyer
          /\ Settlement(t, o.buyer, Seller(r), o.sellerAmount, o.feeAmount, o.royaltyTo,
                        RoyaltyOf(r))
          /\ t.balance[o.buyer] > o.totalAmount /\ t.allowance[o.buyer] > o.totalAmount
      BY <2>2, TokenSale
    <3>2. /\ o.totalAmount \in Nat /\ t \in TokenState /\ u \in TokenState
          /\ \A h \in Holders : Gain(r, h) = u.balance[h] - t.balance[h]
          /\ Due(r) = o.sellerAmount + o.feeAmount + RoyaltyOf(r)
      BY <2>2, TokenGains
    <3>3. /\ o.sellerAmount \in Nat /\ o.feeAmount \in Nat /\ RoyaltyOf(r) \in Nat
          /\ o.buyer \in Accounts /\ o.royaltyTo \in Accounts /\ RoyaltyOf(r) > 0
          /\ o.sellerAmount + o.feeAmount + RoyaltyOf(r) <= o.totalAmount
          /\ o.royaltyTo # o.buyer
      BY <2>2, <3>1, <3>2 DEF Settlement
    <3>4. Covers(t, o.buyer, o.sellerAmount + o.feeAmount + RoyaltyOf(r))
      <4> HIDE DEF r, o, t, u
      <4>1. t.balance[o.buyer] \in Nat /\ t.allowance[o.buyer] \in Nat
        BY <3>2, <3>3 DEF TokenState, Holders
      <4>2. QED
        BY <3>1, <3>2, <3>3, <4>1 DEF Covers
    <3>5. u.balance[o.royaltyTo] =
            t.balance[o.royaltyTo]
              - Share(o.royaltyTo, o.buyer, o.sellerAmount + o.feeAmount + RoyaltyOf(r))
              + Share(o.royaltyTo, Seller(r), o.sellerAmount)
              + Share(o.royaltyTo, o.royaltyTo, RoyaltyOf(r))
      BY <3>1, <3>3, <3>4, SettlePaysAll
    <3> HIDE DEF r, o, t, u
    <3>6. t.balance[o.royaltyTo] \in Nat /\ o.royaltyTo \in Holders
      BY <3>2, <3>3 DEF TokenState, Holders
    <3>7. Gain(r, o.royaltyTo) >= RoyaltyOf(r)
      BY <3>2, <3>3, <3>5, <3>6 DEF Share
    <3>8. QED
      BY <3>1, <3>7 DEF r, o
  <2>3. CASE InETH(receipt')
    BY <2>1, <2>3, ExchangeStep, SellReceipt, AuctionReceipt, BuyOrderTypes DEF InETH
  <2>4. QED
    BY <2>2, <2>3
<1>2. QED
  BY <1>1, MarketInvHolds, PTL DEF Spec, RoyaltyIsPaid

(* A purchase costs its total, a sale for tokens at most its three parts.   *)
THEOREM BuyerPaysDue == Spec => BuyerPaysAtMostDue
<1>1. MarketInv /\ [Next]_vars => [Price]_vars
  <2> SUFFICES ASSUME MarketInv, Next, Exchanges
               PROVE  0 - Gain(receipt', Buyer(receipt')) <=
                          IF InETH(receipt') THEN Priced(receipt').totalAmount
                                             ELSE Due(receipt')
    BY DEF Price
  <2>1. ASSUME NEW sender \in Accounts, NEW o \in SellOrders, buyNFT(sender, o)
        PROVE  0 - Gain(receipt', sender) <= o.totalAmount
    <3>1. o.sellerAmount \in Nat /\ o.royaltyAmount \in Nat /\ o.totalAmount \in Nat
      BY SellOrderTypes
    <3>2. Gain(receipt', sender) =
              Share(sender, o.seller, o.sellerAmount)
                + Share(sender, o.royaltyTo, o.royaltyAmount)
                - Share(sender, sender, o.totalAmount)
      BY <2>1, BuyGains
    <3>3. QED
      BY <3>1, <3>2 DEF Share
  <2>2. CASE ~InETH(receipt')
    <3> DEFINE r == receipt'
               o == r.buy
               t == token[o.payWith]
               u == settleTokens(t, o.buyer, Seller(r), o.sellerAmount, o.feeAmount,
                                 o.royaltyTo, RoyaltyOf(r))
    <3>1. /\ Buyer(r) = o.buyer
          /\ Settlement(t, o.buyer, Seller(r), o.sellerAmount, o.feeAmount, o.royaltyTo,
                        RoyaltyOf(r))
      BY <2>2, TokenSale
    <3>2. /\ t \in TokenState /\ u \in TokenState
          /\ \A h \in Holders : Gain(r, h) = u.balance[h] - t.balance[h]
          /\ Due(r) = o.sellerAmount + o.feeAmount + RoyaltyOf(r)
      BY <2>2, TokenGains
    <3>3. u.balance[o.buyer] >=
              t.balance[o.buyer] - (o.sellerAmount + o.feeAmount + RoyaltyOf(r))
      BY <3>1, SettleBounds
    <3>4. /\ o.buyer \in Accounts /\ o.sellerAmount \in Nat /\ o.feeAmount \in Nat
          /\ RoyaltyOf(r) \in Nat
      BY <3>1 DEF Settlement
    <3> HIDE DEF r, o, t, u
    <3>5. /\ t.balance[o.buyer] \in Nat /\ u.balance[o.buyer] \in Nat /\ o.buyer \in Holders
      BY <3>2, <3>4 DEF TokenState, Holders
    <3>6. 0 - Gain(r, o.buyer) <= Due(r)
      BY <3>2, <3>3, <3>4, <3>5
    <3>7. QED
      BY <2>2, <3>1, <3>6 DEF r, o
  <2>3. CASE InETH(receipt')
    BY <2>1, <2>3, ExchangeStep, BuyReceipt, SellReceipt, AuctionReceipt, BuyOrderTypes
       DEF InETH
  <2>4. QED
    BY <2>2, <2>3
<1>2. QED
  BY <1>1, MarketInvHolds, PTL DEF Spec, BuyerPaysAtMostDue

(* Whatever orders are signed: seller, artist and buyer of each exchange.   *)
THEOREM SalesPaid == Spec => SalesArePaid
BY SellerIsPaid, ArtistIsPaid, BuyerPaysDue, PTL DEF SalesArePaid

(* What the actions that pay nobody leave alone. *)
LEMMA TreasuryKept ==
    ASSUME MarketInv, eth' = eth,
           \A t \in Tokens : token'[t].balance[Exchange] = token[t].balance[Exchange]
    PROVE  ~PaysOut
<1>1. eth[Exchange] \in Nat /\ \A t \in Tokens : token[t].balance[Exchange] \in Nat
  BY DEF MarketInv, TypeOK, TokenState, Holders
<1>2. QED
  BY <1>1 DEF PaysOut

LEMMA TradePaysOut ==
    ASSUME MarketInv, Next, Exchanges, AddsUp(Priced(receipt'))
    PROVE  Gain(receipt', Exchange) = Priced(receipt').feeAmount /\ ~PaysOut
<1>0. /\ eth \in [Holders -> Nat] /\ token \in [Tokens -> TokenState]
      /\ Exchange \in Holders
  BY DEF MarketInv, TypeOK, Holders
<1>1. ASSUME NEW sender \in Accounts, NEW o \in SellOrders, buyNFT(sender, o)
      PROVE  Gain(receipt', Exchange) = o.feeAmount /\ ~PaysOut
  <2>1. /\ o.sellerAmount \in Nat /\ o.royaltyAmount \in Nat /\ o.totalAmount \in Nat
        /\ o.feeAmount \in Nat /\ AddsUp(o)
    BY <1>1, BuyReceipt, SellOrderTypes
  <2>2. Gain(receipt', Exchange) = o.totalAmount - (o.sellerAmount + o.royaltyAmount)
    BY <1>1, BuyGains
  <2>3. Gain(receipt', Exchange) = eth'[Exchange] - eth[Exchange]
    BY <1>0, <1>1, BuyReceipt
  <2>4. Gain(receipt', Exchange) = o.feeAmount
    BY <2>1, <2>2 DEF AddsUp
  <2>5. eth[Exchange] \in Nat /\ eth'[Exchange] \in Int
    BY <1>0, <1>1, <2>1, StepMarketInv DEF MarketInv, TypeOK
  <2>6. ~(eth'[Exchange] < eth[Exchange]) /\ token' = token
    BY <1>1, <2>1, <2>3, <2>4, <2>5 DEF buyNFT
  <2>7. QED
    BY <1>0, <2>4, <2>6 DEF PaysOut, TokenState
<1>2. ASSUME NEW o \in BuyOrders, Gain(receipt', Exchange) = o.feeAmount,
             Gain(receipt', Exchange) =
                 token'[o.payWith].balance[Exchange] - token[o.payWith].balance[Exchange],
             \A t \in Tokens : t # o.payWith => token'[t] = token[t],
             eth' = eth
      PROVE  ~PaysOut
  <2>1. o.feeAmount \in Nat /\ o.payWith \in Tokens
    BY BuyOrderTypes
  <2>2. \A t \in Tokens : token[t].balance[Exchange] \in Nat
    BY <1>0 DEF TokenState
  <2>3. \A t \in Tokens : token'[t].balance[Exchange] \in Nat
    BY <1>0, StepMarketInv DEF MarketInv, TypeOK, TokenState
  <2>4. eth[Exchange] \in Nat
    BY <1>0
  <2>5. \A t \in Tokens : ~(token'[t].balance[Exchange] < token[t].balance[Exchange])
    BY <1>2, <2>1, <2>2, <2>3
  <2>6. QED
    BY <1>2, <2>4, <2>5 DEF PaysOut
<1>3. CASE ~InETH(receipt')
  <2> DEFINE r == receipt'
             o == r.buy
             t == token[o.payWith]
             u == settleTokens(t, o.buyer, Seller(r), o.sellerAmount, o.feeAmount,
                               o.royaltyTo, RoyaltyOf(r))
  <2>1. /\ o \in BuyOrders /\ Priced(r) = o /\ eth' = eth
        /\ Settlement(t, o.buyer, Seller(r), o.sellerAmount, o.feeAmount, o.royaltyTo,
                      RoyaltyOf(r))
        /\ t.balance[o.buyer] > o.totalAmount /\ t.allowance[o.buyer] > o.totalAmount
        /\ token' = [token EXCEPT ![o.payWith] = u]
    BY <1>3, TokenSale
  <2>2. /\ o.payWith \in Tokens /\ o.totalAmount \in Nat /\ o.royaltyAmount \in Nat
        /\ t \in TokenState /\ token'[o.payWith] = u
        /\ \A h \in Holders : Gain(r, h) = u.balance[h] - t.balance[h]
    BY <1>3, TokenGains
  <2>3. o.sellerAmount \in Nat /\ o.feeAmount \in Nat /\ o.buyer \in Accounts /\ AddsUp(o)
    BY <2>1 DEF Settlement
  <2>4. Covers(t, o.buyer, o.sellerAmount + o.feeAmount)
    <3> HIDE DEF r, o, t, u
    <3>1. t.balance[o.buyer] \in Nat /\ t.allowance[o.buyer] \in Nat
      BY <2>2, <2>3 DEF TokenState, Holders
    <3>2. QED
      BY <2>1, <2>2, <2>3, <3>1 DEF Covers, AddsUp
  <2>5. u.balance[Exchange] = t.balance[Exchange] + o.feeAmount
    BY <2>1, <2>4, SettlePaysFee
  <2>6. \A v \in Tokens : v # o.payWith => token'[v] = token[v]
    BY <1>0, <2>1
  <2> HIDE DEF r, o, t, u
  <2>7. Gain(r, Exchange) = o.feeAmount
    <3>1. t.balance[Exchange] \in Nat
      BY <1>0, <2>2 DEF TokenState
    <3>2. QED
      BY <1>0, <2>2, <2>3, <2>5, <3>1
  <2>8. Gain(r, Exchange) = token'[o.payWith].balance[Exchange]
                              - token[o.payWith].balance[Exchange]
    BY <1>0, <2>2 DEF t
  <2>9. ~PaysOut
    BY <1>2, <2>1, <2>6, <2>7, <2>8 DEF r
  <2>10. QED
    BY <2>1, <2>7, <2>9 DEF r
<1>4. CASE InETH(receipt')
  BY <1>1, <1>4, ExchangeStep, BuyReceipt, SellReceipt, AuctionReceipt, BuyOrderTypes
     DEF InETH
<1>5. QED
  BY <1>3, <1>4

(* Every exchange leaves its fee with the contract, and no other step but a *)
(* withdrawal by an administrator lowers what the contract holds.          *)
THEOREM FeesStay == Spec => FeesAreKept
<1>1. MarketInv /\ [Next]_vars => [Fee]_vars
  <2> SUFFICES ASSUME MarketInv, Next PROVE Fee
    BY DEF Fee
  <2>0. token \in [Tokens -> TokenState] /\ Exchange \in Holders
    BY DEF MarketInv, TypeOK, Holders
  <2>1. CASE Exchanges
    BY <2>1, TradePaysOut DEF Fee
  <2>2. CASE ~Exchanges
    <3>1. SUFFICES ASSUME PaysOut PROVE \E a \in admins : withdraw(a)
      BY <2>2 DEF Fee
    <3>2. CASE administer \/ tick
      BY <3>1, <3>2, TreasuryKept DEF administer, tick
    <3>3. ASSUME NEW a \in Accounts, trade(a) PROVE FALSE
      BY <2>2, <3>1, <3>3, TreasuryKept
         DEF trade, Exchanges, Exchanged, buyNFT, sellNFT, exchangeNFTauction,
             sellNFTRefused, exchangeNFTauctionRefused
    <3>4. ASSUME NEW a \in Accounts, withdraw(a) PROVE a \in admins
      BY <3>4 DEF withdraw, withdrawETH, withdrawERC20Token
    <3>5. ASSUME NEW a \in Accounts, elsewhere(a) PROVE FALSE
      <4>1. ASSUME NEW n \in NFTs, NEW to \in Accounts, transferNFT(a, n, to) PROVE FALSE
        BY <3>1, <4>1, TreasuryKept DEF transferNFT
      <4>2. ASSUME NEW approved \in BOOLEAN, setApprovalForAll(a, approved) PROVE FALSE
        BY <3>1, <4>2, TreasuryKept DEF setApprovalForAll
      <4>3. ASSUME NEW t \in Tokens, NEW amount \in Grants[a], approve(t, a, amount)
            PROVE  FALSE
        <5>1. eth' = eth /\ \A v \in Tokens : token'[v].balance = token[v].balance
          BY <2>0, <4>3 DEF approve, TokenState
        <5>2. QED
          BY <3>1, <5>1, TreasuryKept
      <4>4. ASSUME NEW t \in Tokens, NEW to \in Accounts, NEW amount \in Amounts,
                   transferToken(t, a, to, amount)
            PROVE  FALSE
        <5>1. /\ eth' = eth
              /\ \A v \in Tokens : token'[v].balance[Exchange] = token[v].balance[Exchange]
          BY <2>0, <4>4, AmountsAssumption DEF transferToken, TokenState, Move
        <5>2. QED
          BY <3>1, <5>1, TreasuryKept
      <4>5. QED
        BY <3>5, <4>1, <4>2, <4>3, <4>4 DEF elsewhere
    <3>6. QED
      BY <3>2, <3>3, <3>4, <3>5 DEF Next
  <2>3. QED
    BY <2>1, <2>2
<1>2. QED
  BY <1>1, MarketInvHolds, PTL DEF Spec, FeesAreKept
================================================================================

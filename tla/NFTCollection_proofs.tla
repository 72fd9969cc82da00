-------------------------- MODULE NFTCollection_proofs --------------------------
(***************************************************************************)
(* Proofs about NFTCollection, for every set of accounts and every number  *)
(* of tokens.                                                              *)
(*                                                                         *)
(* The enumerations are treated one operation at a time: what adding to or *)
(* removing from a list does is proved for any owners and balances that    *)
(* the list agrees with, so that a transfer is a removal followed by an    *)
(* addition.  The lengths of the lists stay in range because the tokens of *)
(* a list are different ones (a pigeonhole argument).                      *)
(***************************************************************************)
EXTENDS NFTCollection, FiniteSetTheorems, SequenceTheorems, TLAPS

--------------------------------------------------------------------------------
(* The roles, for every set of roles (CollectionRoles). *)

(* Adding an account to an enumerable set that lists S makes it list S and *)
(* the account.                                                            *)
LEMMA AddLists ==
    ASSUME NEW S \in SUBSET Accounts, NEW set \in EnumerableSet, NEW a \in Accounts,
           Lists(set, S)
    PROVE  add(set, a) \in EnumerableSet /\ Lists(add(set, a), S \cup {a})
<1>1. CASE set.indexes[a] # 0
  <2>1. a \in S
    BY <1>1 DEF Lists
  <2> QED BY <1>1, <2>1 DEF add, Lists
<1>2. CASE set.indexes[a] = 0
  <2> DEFINE n == Len(set.values)
             vals == Append(set.values, a)
             idx == [set.indexes EXCEPT ![a] = n + 1]
  <2>1. set.values \in Seq(Accounts) /\ set.indexes \in [Accounts -> Nat] /\ n \in Nat
    BY DEF EnumerableSet
  <2>2. add(set, a) = [values |-> vals, indexes |-> idx]
    BY <1>2 DEF add
  <2>3. /\ vals \in Seq(Accounts)
        /\ Len(vals) = n + 1
        /\ vals[n + 1] = a
        /\ \A i \in 1..n : vals[i] = set.values[i]
    BY <2>1
  <2>4. a \notin S
    BY <1>2 DEF Lists, Ranks
  <2>5. idx \in [Accounts -> Nat] /\ idx[a] = n + 1 /\ \A b \in Accounts \ {a} : idx[b] = set.indexes[b]
    BY <2>1
  <2>6. add(set, a) \in EnumerableSet
    BY <2>2, <2>3, <2>5 DEF EnumerableSet
  <2>7. \A i \in 1..(n + 1) : vals[i] \in S \cup {a} /\ idx[vals[i]] = i
    <3> TAKE i \in 1..(n + 1)
    <3>1. CASE i = n + 1
      BY <3>1, <2>3, <2>5
    <3>2. CASE i \in 1..n
      BY <3>2, <2>3, <2>4, <2>5 DEF Lists, Ranks
    <3> QED BY <3>1, <3>2, <2>1
  <2>8. \A b \in S \cup {a} : idx[b] \in 1..(n + 1) /\ vals[idx[b]] = b
    <3> HIDE DEF vals, idx
    <3> TAKE b \in S \cup {a}
    <3>1. CASE b = a
      BY <3>1, <2>1, <2>3, <2>5
    <3>2. CASE b \in S
      <4>1. set.indexes[b] \in 1..n /\ set.values[set.indexes[b]] = b
        BY <3>2 DEF Lists, Ranks
      <4>2. b \in Accounts \ {a}
        BY <3>2, <2>4
      <4>3. idx[b] = set.indexes[b]
        BY <4>2, <2>5
      <4>4. vals[set.indexes[b]] = set.values[set.indexes[b]]
        BY <4>1, <2>3
      <4> HIDE DEF n
      <4> QED BY <4>1, <4>3, <4>4, <2>1
    <3> QED BY <3>1, <3>2
  <2>9. \A b \in Accounts \ (S \cup {a}) : idx[b] = 0
    BY <2>5 DEF Lists
  <2> HIDE DEF vals, idx, n
  <2> QED BY <2>2, <2>3, <2>6, <2>7, <2>8, <2>9 DEF Lists, Ranks
<1> QED BY <1>1, <1>2

(* Removing an account from an enumerable set that lists S makes it list S *)
(* without the account, although the last holder changes its place.        *)
LEMMA RemoveLists ==
    ASSUME NEW S \in SUBSET Accounts, NEW set \in EnumerableSet, NEW a \in Accounts,
           Lists(set, S)
    PROVE  remove(set, a) \in EnumerableSet /\ Lists(remove(set, a), S \ {a})
<1>1. CASE set.indexes[a] = 0
  <2>1. a \notin S
    BY <1>1 DEF Lists, Ranks
  <2> QED BY <1>1, <2>1 DEF remove, Lists
<1>2. CASE set.indexes[a] # 0
  <2> DEFINE n == Len(set.values)
             at == set.indexes[a]
             z == set.values[n]
             full == [set.values EXCEPT ![at] = z]
             vals == SubSeq(full, 1, n - 1)
             idx == [set.indexes EXCEPT ![z] = at, ![a] = 0]
  <2>1. set.values \in Seq(Accounts) /\ set.indexes \in [Accounts -> Nat] /\ n \in Nat
    BY DEF EnumerableSet
  <2>2. remove(set, a) = [values |-> vals, indexes |-> idx]
    BY <1>2 DEF remove
  <2>3. a \in S /\ at \in 1..n /\ set.values[at] = a
    BY <1>2 DEF Lists, Ranks
  <2>4. n \in 1..n /\ z \in S /\ set.indexes[z] = n
    BY <2>1, <2>3 DEF Lists, Ranks
  <2>5. full \in Seq(Accounts) /\ Len(full) = n /\ full[at] = z /\ \A i \in 1..n : i # at => full[i] = set.values[i]
    BY <2>1, <2>3, <2>4
  <2>6. /\ vals \in Seq(Accounts)
        /\ Len(vals) = n - 1
        /\ \A i \in 1..(n - 1) : vals[i] = full[i]
    BY <2>1, <2>4, <2>5, SubSeqProperties
  <2>7. /\ idx \in [Accounts -> Nat]
        /\ idx[a] = 0
        /\ z # a => idx[z] = at
        /\ \A b \in Accounts : b # a /\ b # z => idx[b] = set.indexes[b]
    BY <2>1, <2>3, <2>4
  <2>8. z = a <=> at = n
    BY <2>3, <2>4
  <2>9. remove(set, a) \in EnumerableSet
    BY <2>2, <2>6, <2>7 DEF EnumerableSet
  <2>10. \A i \in 1..(n - 1) : vals[i] \in S \ {a} /\ idx[vals[i]] = i
    <3> TAKE i \in 1..(n - 1)
    <3>1. CASE i = at
      <4>1. vals[i] = z
        BY <3>1, <2>5, <2>6
      <4>2. z # a
        BY <3>1, <2>1, <2>8
      <4>3. idx[z] = i
        BY <3>1, <4>2, <2>7
      <4> HIDE DEF z, vals, idx
      <4> QED BY <4>1, <4>2, <4>3, <2>4
    <3>2. CASE i # at
      <4>1. i \in 1..n /\ vals[i] = set.values[i] /\ set.indexes[set.values[i]] = i /\ set.values[i] \in S
        BY <3>2, <2>1, <2>5, <2>6 DEF Lists, Ranks
      <4>2. vals[i] # a /\ vals[i] # z
        BY <4>1, <3>2, <2>3, <2>4
      <4> QED BY <4>1, <4>2, <2>7
    <3> QED BY <3>1, <3>2
  <2>11. \A b \in S \ {a} : idx[b] \in 1..(n - 1) /\ vals[idx[b]] = b
    <3> TAKE b \in S \ {a}
    <3>1. set.indexes[b] \in 1..n /\ set.values[set.indexes[b]] = b
      BY DEF Lists, Ranks
    <3>2. CASE b = z
      BY <3>2, <2>1, <2>3, <2>5, <2>6, <2>7, <2>8
    <3>3. CASE b # z
      <4>1. idx[b] = set.indexes[b] /\ idx[b] # n /\ idx[b] # at
        BY <3>1, <3>3, <2>3, <2>7
      <4> QED BY <3>1, <4>1, <2>1, <2>5, <2>6
    <3> QED BY <3>2, <3>3
  <2>12. \A b \in Accounts \ (S \ {a}) : idx[b] = 0
    BY <2>4, <2>7 DEF Lists
  <2> HIDE DEF vals, idx, n
  <2> QED BY <2>2, <2>6, <2>9, <2>10, <2>11, <2>12 DEF Lists, Ranks
<1> QED BY <1>1, <1>2

RolesInv == RolesTypeOK /\ RolesAreListed

LEMMA RolesInitInv == RolesInit => RolesInv
<1> SUFFICES ASSUME RolesInit PROVE RolesInv
  OBVIOUS
<1> USE RolesAssumption
<1>1. members \in [Roles -> SUBSET Accounts]
  BY DEF RolesInit
<1>2. ASSUME NEW r \in Roles
      PROVE roleMembers[r] \in EnumerableSet /\ Lists(roleMembers[r], members[r])
  <2>1. CASE r \in {Admin, Minter, Pauser}
    <3>1. /\ members[r] = {Deployer}
          /\ roleMembers[r] = [values |-> <<Deployer>>, indexes |-> [a \in Accounts |-> IF a = Deployer THEN 1 ELSE 0]]
      BY <2>1 DEF RolesInit
    <3>2. roleMembers[r] \in EnumerableSet
      BY <3>1 DEF EnumerableSet
    <3>3. roleMembers[r].values = <<Deployer>> /\ roleMembers[r].indexes = [a \in Accounts |-> IF a = Deployer THEN 1 ELSE 0]
      BY <3>1
    <3> DEFINE set == roleMembers[r]
    <3>4. Ranks(set.values) = {1}
      BY <3>3 DEF Ranks
    <3>5. set.values[1] = Deployer /\ set.indexes[Deployer] = 1 /\ \A a \in Accounts \ {Deployer} : set.indexes[a] = 0
      BY <3>3
    <3>6. Lists(set, {Deployer})
      <4> HIDE DEF set
      <4> QED BY <3>4, <3>5 DEF Lists
    <3> QED BY <3>1, <3>2, <3>6
  <2>2. CASE r \notin {Admin, Minter, Pauser}
    <3>1. members[r] = {} /\ roleMembers[r] = [values |-> << >>, indexes |-> [a \in Accounts |-> 0]]
      BY <2>2 DEF RolesInit
    <3> QED BY <3>1 DEF EnumerableSet, Lists, Ranks
  <2> QED BY <2>1, <2>2
<1>3. roleMembers \in [Roles -> EnumerableSet]
  BY <1>2 DEF RolesInit
<1> QED BY <1>1, <1>2, <1>3 DEF RolesInv, RolesTypeOK, RolesAreListed

(* What every call of CollectionRoles keeps. *)
LEMMA RolesNextInv == RolesInv /\ [RolesNext]_roleVars => RolesInv'
<1> SUFFICES ASSUME RolesInv, [RolesNext]_roleVars PROVE RolesInv'
  OBVIOUS
<1> USE RolesAssumption DEF RolesInv, RolesTypeOK, RolesAreListed
<1>1. ASSUME NEW sender \in Accounts, NEW role \in Roles, NEW account \in Accounts,
             grantRole(sender, role, account)
      PROVE RolesInv'
  <2>1. add(roleMembers[role], account) \in EnumerableSet
        /\ Lists(add(roleMembers[role], account), members[role] \cup {account})
    BY AddLists
  <2> QED BY <1>1, <2>1 DEF grantRole
<1>2. ASSUME NEW role \in Roles, NEW account \in Accounts, dropRole(role, account)
      PROVE RolesInv'
  <2>1. remove(roleMembers[role], account) \in EnumerableSet
        /\ Lists(remove(roleMembers[role], account), members[role] \ {account})
    BY RemoveLists
  <2> QED BY <1>2, <2>1 DEF dropRole
<1>3. CASE UNCHANGED roleVars
  BY <1>3 DEF roleVars
<1> QED BY <1>1, <1>2, <1>3 DEF RolesNext, revokeRole, renounceRole

(* The two records of the holders of a role have their types and agree, in *)
(* every state and for any number of accounts and roles: add and remove of *)
(* EnumerableSet keep what the mapping of the roles says.                  *)
THEOREM RolesListed == RolesSpec => []RolesAreListed
<1>1. RolesInv => RolesAreListed
  BY DEF RolesInv
<1> QED BY <1>1, RolesInitInv, RolesNextInv, PTL DEF RolesSpec

(* Once the last administrator has left, no call gives anybody a role.     *)
THEOREM NobodyAppointed == RolesSpec => NobodyIsAppointedWithoutAdmin
<1>1. RolesInv /\ [RolesNext]_roleVars
      => [members[Admin] = {} => \A r \in Roles : members'[r] \subseteq members[r]]_roleVars
  BY RolesAssumption DEF RolesInv, RolesTypeOK, RolesNext, grantRole, revokeRole, renounceRole, dropRole, hasRole, roleVars
<1> QED BY <1>1, RolesInitInv, RolesNextInv, PTL DEF RolesSpec, NobodyIsAppointedWithoutAdmin

--------------------------------------------------------------------------------
(* The tokens and their lists. *)

USE CollectionAssumption

(* There are MaxTokens numbers.                                            *)
LEMMA IdsFinite == IsFiniteSet(Ids) /\ Cardinality(Ids) = MaxTokens
BY FS_Interval DEF Ids

(* As many different tokens as n, one of them left out, are fewer than     *)
(* there are numbers.                                                      *)
LEMMA RoomForMore ==
    ASSUME NEW n \in Nat, NEW f, NEW t \in Ids,
           \A i \in 0..(n - 1) : f[i] \in Ids \ {t},
           \A i, j \in 0..(n - 1) : f[i] = f[j] => i = j
    PROVE  n < MaxTokens
<1> DEFINE S == 0..(n - 1)
           T == Ids \ {t}
           g == [i \in S |-> f[i]]
<1>1. IsFiniteSet(T) /\ Cardinality(T) = MaxTokens - 1
  BY IdsFinite, FS_RemoveElement
<1>2. IsFiniteSet(S) /\ Cardinality(S) = n
  BY FS_Interval
<1>3. g \in [S -> T]
  OBVIOUS
<1>4. \A i, j \in S : g[i] = g[j] => i = j
  OBVIOUS
<1> HIDE DEF S, T, g
<1>5. ~(Cardinality(T) < Cardinality(S))
  <2> SUFFICES ASSUME Cardinality(T) < Cardinality(S) PROVE FALSE
    OBVIOUS
  <2>1. \E x, y \in S : x # y /\ g[x] = g[y]
    BY <1>1, <1>2, <1>3, FS_PigeonHole
  <2> QED BY <2>1, <1>4
<1> QED BY <1>1, <1>2, <1>5

(* A list that agrees with the owners has room for a token of another      *)
(* account or of nobody.                                                   *)
LEMMA RoomInOwnerList ==
    ASSUME NEW l \in OwnerEnumeration, NEW ow \in [Ids -> Accounts \cup {Zero}],
           NEW bal \in [Accounts -> 0..MaxTokens], OwnerLists(l, ow, bal),
           NEW a \in Accounts, NEW t \in Ids, ow[t] # a
    PROVE  bal[a] < MaxTokens
<1> DEFINE f == l.owned[a]
<1>1. bal[a] \in 0..MaxTokens /\ f \in [Ids -> Ids]
  BY DEF OwnerEnumeration
<1>2. \A i \in 0..(bal[a] - 1) : ow[f[i]] = a /\ l.place[f[i]] = i
  BY DEF OwnerLists
<1>3. \A i \in 0..(bal[a] - 1) : i \in Ids
  BY <1>1 DEF Ids
<1>4. \A i \in 0..(bal[a] - 1) : f[i] \in Ids \ {t}
  BY <1>1, <1>2, <1>3
<1>5. \A i, j \in 0..(bal[a] - 1) : f[i] = f[j] => i = j
  BY <1>2
<1>6. bal[a] \in Nat
  BY <1>1, CollectionAssumption
<1> HIDE DEF f
<1> QED BY <1>4, <1>5, <1>6, RoomForMore

(* Appending a token nobody owns to the list of its new owner.             *)
LEMMA AddToOwner ==
    ASSUME NEW l \in OwnerEnumeration, NEW ow \in [Ids -> Accounts \cup {Zero}],
           NEW bal \in [Accounts -> 0..MaxTokens], OwnerLists(l, ow, bal),
           NEW a \in Accounts, NEW t \in Ids, ow[t] = Zero, balances[a] = bal[a]
    PROVE  /\ addTokenToOwner(l, a, t) \in OwnerEnumeration
           /\ [bal EXCEPT ![a] = @ + 1] \in [Accounts -> 0..MaxTokens]
           /\ OwnerLists(addTokenToOwner(l, a, t), [ow EXCEPT ![t] = a], [bal EXCEPT ![a] = @ + 1])
<1> DEFINE n == bal[a]
           owned == [l.owned EXCEPT ![a][n] = t]
           place == [l.place EXCEPT ![t] = n]
           ow2 == [ow EXCEPT ![t] = a]
           bal2 == [bal EXCEPT ![a] = @ + 1]
<1>1. /\ l.owned \in [Accounts -> [Ids -> Ids]]
      /\ l.place \in [Ids -> Ids]
  BY DEF OwnerEnumeration
<1>2. n \in Ids /\ n \in Nat
  <2>1. n \in 0..MaxTokens /\ ow[t] # a
    OBVIOUS
  <2>2. n < MaxTokens
    BY <2>1, RoomInOwnerList
  <2> QED BY <2>1, <2>2 DEF Ids
<1>3. addTokenToOwner(l, a, t) = [owned |-> owned, place |-> place]
  BY DEF addTokenToOwner
<1>4. /\ owned \in [Accounts -> [Ids -> Ids]]
      /\ place \in [Ids -> Ids]
      /\ bal2 \in [Accounts -> 0..MaxTokens]
  <2>1. n + 1 \in 0..MaxTokens
    BY <1>2 DEF Ids
  <2>2. bal2 \in [Accounts -> 0..MaxTokens]
    BY <2>1
  <2>3. [l.owned[a] EXCEPT ![n] = t] \in [Ids -> Ids]
    BY <1>1
  <2> QED BY <1>1, <1>2, <2>2, <2>3
<1>5. /\ owned[a][n] = t
      /\ \A i \in Ids : i # n => owned[a][i] = l.owned[a][i]
      /\ \A b \in Accounts : b # a => owned[b] = l.owned[b]
      /\ place[t] = n /\ ow2[t] = a /\ bal2[a] = n + 1
      /\ \A s \in Ids : s # t => place[s] = l.place[s] /\ ow2[s] = ow[s]
      /\ \A b \in Accounts : b # a => bal2[b] = bal[b]
  BY <1>1, <1>2
<1>6. \A b \in Accounts : \A i \in 0..(bal[b] - 1) :
         i \in Ids /\ l.owned[b][i] \in Ids /\ ow[l.owned[b][i]] = b /\ l.place[l.owned[b][i]] = i
  <2> TAKE b \in Accounts
  <2> TAKE i \in 0..(bal[b] - 1)
  <2>1. bal[b] \in 0..MaxTokens
    OBVIOUS
  <2>2. i \in Ids
    BY <2>1 DEF Ids
  <2> QED BY <2>2, <1>1 DEF OwnerLists
<1>7. \A s \in Ids : ow[s] # Zero =>
         /\ ow[s] \in Accounts /\ l.place[s] \in Ids /\ l.place[s] < bal[ow[s]]
         /\ l.owned[ow[s]][l.place[s]] = s
  BY <1>1 DEF OwnerLists
<1> HIDE DEF owned, place, ow2, bal2
<1>8. ASSUME NEW b \in Accounts, NEW i \in 0..(bal2[b] - 1)
      PROVE  ow2[owned[b][i]] = b /\ place[owned[b][i]] = i
  <2>1. CASE b = a /\ i = n
    BY <2>1, <1>5
  <2>2. CASE ~(b = a /\ i = n)
    <3>1. i \in 0..(bal[b] - 1)
      BY <2>2, <1>2, <1>5
    <3>2. owned[b][i] = l.owned[b][i]
      BY <2>2, <3>1, <1>5, <1>6
    <3>3. l.owned[b][i] # t
      BY <3>1, <1>6
    <3> QED BY <3>1, <3>2, <3>3, <1>5, <1>6
  <2> QED BY <2>1, <2>2
<1>9. ASSUME NEW s \in Ids, ow2[s] # Zero
      PROVE  place[s] < bal2[ow2[s]] /\ owned[ow2[s]][place[s]] = s
  <2>1. CASE s = t
    BY <2>1, <1>2, <1>5
  <2>2. CASE s # t
    <3>1. ow2[s] = ow[s] /\ place[s] = l.place[s] /\ ow[s] \in Accounts
          /\ l.place[s] \in Ids /\ l.place[s] < bal[ow[s]] /\ l.owned[ow[s]][l.place[s]] = s
      BY <2>2, <1>9, <1>5, <1>7
    <3>2. CASE ow[s] = a
      BY <3>1, <3>2, <1>2, <1>5 DEF Ids
    <3>3. CASE ow[s] # a
      BY <3>1, <3>3, <1>5
    <3> QED BY <3>2, <3>3
  <2> QED BY <2>1, <2>2
<1> QED BY <1>3, <1>4, <1>8, <1>9 DEF OwnerEnumeration, OwnerLists, ow2, bal2

(* Taking a token out of the list of its owner: the last token moves.      *)
LEMMA RemoveFromOwner ==
    ASSUME NEW l \in OwnerEnumeration, NEW ow \in [Ids -> Accounts \cup {Zero}],
           NEW bal \in [Accounts -> 0..MaxTokens], OwnerLists(l, ow, bal),
           NEW a \in Accounts, NEW t \in Ids, ow[t] = a, balances[a] = bal[a]
    PROVE  /\ removeTokenFromOwner(l, a, t) \in OwnerEnumeration
           /\ [bal EXCEPT ![a] = @ - 1] \in [Accounts -> 0..MaxTokens]
           /\ OwnerLists(removeTokenFromOwner(l, a, t), [ow EXCEPT ![t] = Zero], [bal EXCEPT ![a] = @ - 1])
<1> DEFINE end == bal[a] - 1
           at == l.place[t]
           z == l.owned[a][end]
           m == IF at = end THEN l
                ELSE [owned |-> [l.owned EXCEPT ![a][at] = z], place |-> [l.place EXCEPT ![z] = at]]
           owned == [m.owned EXCEPT ![a][end] = 0]
           place == [m.place EXCEPT ![t] = 0]
           ow2 == [ow EXCEPT ![t] = Zero]
           bal2 == [bal EXCEPT ![a] = @ - 1]
<1>1. /\ l.owned \in [Accounts -> [Ids -> Ids]]
      /\ l.place \in [Ids -> Ids]
      /\ bal[a] \in 0..MaxTokens
  BY DEF OwnerEnumeration
<1>2. \A b \in Accounts : \A i \in 0..(bal[b] - 1) :
         i \in Ids /\ l.owned[b][i] \in Ids /\ ow[l.owned[b][i]] = b /\ l.place[l.owned[b][i]] = i
  <2> TAKE b \in Accounts
  <2> TAKE i \in 0..(bal[b] - 1)
  <2>1. bal[b] \in 0..MaxTokens
    OBVIOUS
  <2>2. i \in Ids
    BY <2>1 DEF Ids
  <2> QED BY <2>2, <1>1 DEF OwnerLists
<1>3. \A s \in Ids : ow[s] # Zero =>
         /\ ow[s] \in Accounts /\ l.place[s] \in Ids /\ l.place[s] < bal[ow[s]]
         /\ l.owned[ow[s]][l.place[s]] = s
  BY <1>1 DEF OwnerLists
<1>4. at \in Ids /\ at < bal[a] /\ l.owned[a][at] = t
  BY <1>3
<1>5. end \in 0..(bal[a] - 1) /\ end \in Ids /\ end \in Nat /\ at \in 0..end
  <2>1. \A q \in 0..MaxTokens, p \in Ids : p < q =>
           q - 1 \in 0..(q - 1) /\ q - 1 \in Ids /\ q - 1 \in Nat /\ p \in 0..(q - 1)
    BY DEF Ids
  <2> QED BY <2>1, <1>1, <1>4
<1>6. z \in Ids /\ ow[z] = a /\ l.place[z] = end
  BY <1>2, <1>5
<1>7. z = t <=> at = end
  BY <1>4, <1>6
<1>8. removeTokenFromOwner(l, a, t) = [owned |-> owned, place |-> place]
  BY DEF removeTokenFromOwner
<1>9. 0 \in Ids
  BY DEF Ids
<1>10. /\ m.owned \in [Accounts -> [Ids -> Ids]]
       /\ m.place \in [Ids -> Ids]
       /\ at # end => m.owned[a][at] = z /\ m.place[z] = at
       /\ \A i \in Ids : i # at => m.owned[a][i] = l.owned[a][i]
       /\ \A b \in Accounts : b # a => m.owned[b] = l.owned[b]
       /\ \A s \in Ids : s # z => m.place[s] = l.place[s]
  <2>1. CASE at = end
    BY <2>1, <1>1
  <2>2. CASE at # end
    <3>1. m.owned = [l.owned EXCEPT ![a][at] = z] /\ m.place = [l.place EXCEPT ![z] = at]
      BY <2>2
    <3>2. [l.owned[a] EXCEPT ![at] = z] \in [Ids -> Ids]
      BY <1>1, <1>6
    <3> HIDE DEF m, at, z
    <3> QED BY <3>1, <3>2, <1>1, <1>4, <1>6
  <2> QED BY <2>1, <2>2
<1> HIDE DEF m
<1>11. /\ owned \in [Accounts -> [Ids -> Ids]]
       /\ place \in [Ids -> Ids]
       /\ \A i \in Ids : i # end => owned[a][i] = m.owned[a][i]
       /\ \A b \in Accounts : b # a => owned[b] = m.owned[b]
       /\ place[t] = 0
       /\ \A s \in Ids : s # t => place[s] = m.place[s]
  <2>1. [m.owned[a] EXCEPT ![end] = 0] \in [Ids -> Ids]
    BY <1>9, <1>10
  <2> HIDE DEF end
  <2> QED BY <2>1, <1>5, <1>9, <1>10
<1>12. /\ ow2[t] = Zero /\ bal2[a] = end
       /\ \A s \in Ids : s # t => ow2[s] = ow[s]
       /\ \A b \in Accounts : b # a => bal2[b] = bal[b]
  BY <1>1
<1>13. bal2 \in [Accounts -> 0..MaxTokens]
  <2>1. end \in 0..MaxTokens
    BY <1>1, <1>5
  <2> QED BY <2>1
<1> HIDE DEF owned, place, ow2, bal2
<1>14. ASSUME NEW b \in Accounts, NEW i \in 0..(bal2[b] - 1)
       PROVE  ow2[owned[b][i]] = b /\ place[owned[b][i]] = i
  <2>1. CASE b # a
    <3>1. i \in 0..(bal[b] - 1) /\ owned[b][i] = l.owned[b][i]
      BY <2>1, <1>10, <1>11, <1>12
    <3>2. l.owned[b][i] \in Ids /\ ow[l.owned[b][i]] = b /\ l.place[l.owned[b][i]] = i
      BY <3>1, <1>2
    <3>3. l.owned[b][i] # t /\ l.owned[b][i] # z
      BY <2>1, <3>2, <1>6
    <3> QED BY <3>1, <3>2, <3>3, <1>10, <1>11, <1>12
  <2>2. CASE b = a /\ i = at
    <3>1. at # end
      BY <2>2, <1>5, <1>12
    <3>2. owned[b][i] = z /\ z # t
      BY <2>2, <3>1, <1>4, <1>7, <1>10, <1>11
    <3> QED BY <2>2, <3>1, <3>2, <1>6, <1>10, <1>11, <1>12
  <2>3. CASE b = a /\ i # at
    <3>1. i \in 0..(bal[a] - 1) /\ i # end
      BY <2>3, <1>5, <1>12
    <3>2. owned[b][i] = l.owned[a][i]
      BY <2>3, <3>1, <1>2, <1>10, <1>11
    <3>3. l.owned[a][i] \in Ids /\ ow[l.owned[a][i]] = a /\ l.place[l.owned[a][i]] = i
      BY <3>1, <1>2
    <3>4. l.owned[a][i] # t /\ l.owned[a][i] # z
      BY <2>3, <3>1, <3>3, <1>6
    <3> QED BY <2>3, <3>2, <3>3, <3>4, <1>10, <1>11, <1>12
  <2> QED BY <2>1, <2>2, <2>3
<1>15. ASSUME NEW s \in Ids, ow2[s] # Zero
       PROVE  place[s] < bal2[ow2[s]] /\ owned[ow2[s]][place[s]] = s
  <2>1. s # t /\ ow2[s] = ow[s]
    BY <1>15, <1>12
  <2>2. /\ ow[s] \in Accounts /\ l.place[s] \in Ids /\ l.place[s] < bal[ow[s]]
        /\ l.owned[ow[s]][l.place[s]] = s
    BY <2>1, <1>15, <1>3
  <2>3. CASE s = z
    <3>1. at # end /\ place[s] = at /\ owned[a][at] = z
      BY <2>1, <2>3, <1>4, <1>7, <1>10, <1>11
    <3>2. at < end
      BY <3>1, <1>5
    <3> QED BY <2>1, <2>3, <3>1, <3>2, <1>6, <1>12
  <2>4. CASE s # z /\ ow[s] = a
    <3>1. place[s] = l.place[s]
      BY <2>1, <2>4, <1>10, <1>11
    <3>2. l.place[s] # at /\ l.place[s] # end
      BY <2>1, <2>2, <2>4, <1>4
    <3>3. l.place[s] < end
      <4>1. \A q \in 0..MaxTokens, p \in Ids : p < q /\ p # q - 1 => p < q - 1
        BY DEF Ids
      <4> QED BY <4>1, <2>2, <2>4, <3>2, <1>1
    <3> QED BY <2>1, <2>2, <2>4, <3>1, <3>2, <3>3, <1>10, <1>11, <1>12
  <2>5. CASE ow[s] # a
    BY <2>1, <2>2, <2>5, <1>6, <1>10, <1>11, <1>12
  <2> QED BY <2>3, <2>4, <2>5
<1> QED BY <1>8, <1>11, <1>13, <1>14, <1>15 DEF OwnerEnumeration, OwnerLists, ow2, bal2

(* The list of all tokens has room for a number that nobody owns.          *)
LEMMA AddToAll ==
    ASSUME NEW ow \in [Ids -> Accounts \cup {Zero}], all \in SupplyEnumeration, SupplyList(all, ow),
           NEW a \in Accounts, NEW t \in Ids, ow[t] = Zero
    PROVE  /\ addTokenToAll(t) \in SupplyEnumeration
           /\ SupplyList(addTokenToAll(t), [ow EXCEPT ![t] = a])
<1> DEFINE n == Len(all.tokens)
           tokens == Append(all.tokens, t)
           place == [all.place EXCEPT ![t] = n]
           ow2 == [ow EXCEPT ![t] = a]
           f == [i \in 0..(n - 1) |-> all.tokens[i + 1]]
<1>1. all.tokens \in Seq(Ids) /\ all.place \in [Ids -> Ids] /\ n \in Nat
  BY DEF SupplyEnumeration
<1>2. \A i \in 1..n : all.tokens[i] \in Ids /\ ow[all.tokens[i]] # Zero /\ all.place[all.tokens[i]] = i - 1
  BY <1>1 DEF SupplyList, Ranks
<1>3. \A s \in Ids : ow[s] # Zero => all.place[s] + 1 \in 1..n /\ all.tokens[all.place[s] + 1] = s
  BY DEF SupplyList, Ranks
<1>4. n < MaxTokens
  <2>1. \A i \in 0..(n - 1) : f[i] \in Ids \ {t} /\ all.place[f[i]] = i
    <3> TAKE i \in 0..(n - 1)
    <3>1. i + 1 \in 1..n /\ f[i] = all.tokens[i + 1]
      BY <1>1
    <3> QED BY <3>1, <1>1, <1>2
  <2>2. \A i, j \in 0..(n - 1) : f[i] = f[j] => i = j
    BY <2>1
  <2> HIDE DEF f, n
  <2> QED BY <1>1, <2>1, <2>2, RoomForMore
<1>5. n \in Ids
  BY <1>1, <1>4 DEF Ids
<1>6. /\ tokens \in Seq(Ids) /\ Len(tokens) = n + 1 /\ tokens[n + 1] = t
      /\ \A i \in 1..n : tokens[i] = all.tokens[i]
  BY <1>1
<1>7. /\ place \in [Ids -> Ids] /\ place[t] = n /\ ow2[t] = a
      /\ \A s \in Ids : s # t => place[s] = all.place[s] /\ ow2[s] = ow[s]
  BY <1>1, <1>5
<1> HIDE DEF tokens, place, ow2
<1>8. ASSUME NEW i \in 1..(n + 1) PROVE ow2[tokens[i]] # Zero /\ place[tokens[i]] = i - 1
  <2>1. CASE i = n + 1
    BY <2>1, <1>1, <1>6, <1>7
  <2>2. CASE i \in 1..n
    <3>1. tokens[i] = all.tokens[i] /\ tokens[i] # t
      BY <2>2, <1>2, <1>6
    <3> QED BY <2>2, <3>1, <1>2, <1>7
  <2> QED BY <2>1, <2>2, <1>1
<1>9. ASSUME NEW s \in Ids, ow2[s] # Zero
      PROVE  place[s] + 1 \in 1..(n + 1) /\ tokens[place[s] + 1] = s
  <2>1. CASE s = t
    BY <2>1, <1>1, <1>6, <1>7
  <2>2. CASE s # t
    <3>1. place[s] = all.place[s] /\ all.place[s] + 1 \in 1..n /\ all.tokens[all.place[s] + 1] = s
      BY <2>2, <1>9, <1>3, <1>7
    <3>2. 1..n \subseteq 1..(n + 1)
      BY <1>1
    <3> HIDE DEF n
    <3> QED BY <3>1, <3>2, <1>6
  <2> QED BY <2>1, <2>2
<1>10. addTokenToAll(t) = [tokens |-> tokens, place |-> place]
  BY DEF addTokenToAll, tokens, place
<1> HIDE DEF n
<1> QED BY <1>6, <1>7, <1>8, <1>9, <1>10 DEF SupplyEnumeration, SupplyList, Ranks, ow2

(* Taking a token out of the list of all tokens: the last token moves.     *)
LEMMA RemoveFromAll ==
    ASSUME NEW ow \in [Ids -> Accounts \cup {Zero}], all \in SupplyEnumeration, SupplyList(all, ow),
           NEW t \in Ids, ow[t] # Zero
    PROVE  /\ removeTokenFromAll(t) \in SupplyEnumeration
           /\ SupplyList(removeTokenFromAll(t), [ow EXCEPT ![t] = Zero])
<1> DEFINE n == Len(all.tokens)
           at == all.place[t]
           z == all.tokens[n]
           full == [all.tokens EXCEPT ![at + 1] = z]
           tokens == SubSeq(full, 1, n - 1)
           place == [all.place EXCEPT ![z] = at, ![t] = 0]
           ow2 == [ow EXCEPT ![t] = Zero]
<1>1. all.tokens \in Seq(Ids) /\ all.place \in [Ids -> Ids] /\ n \in Nat
  BY DEF SupplyEnumeration
<1>2. \A i \in 1..n : all.tokens[i] \in Ids /\ ow[all.tokens[i]] # Zero /\ all.place[all.tokens[i]] = i - 1
  BY <1>1 DEF SupplyList, Ranks
<1>3. \A s \in Ids : ow[s] # Zero => all.place[s] + 1 \in 1..n /\ all.tokens[all.place[s] + 1] = s
  BY DEF SupplyList, Ranks
<1>4. at \in Ids /\ at \in Nat /\ at + 1 \in 1..n /\ all.tokens[at + 1] = t
  <2>1. \A i \in Ids : i \in Nat
    BY DEF Ids
  <2> QED BY <2>1, <1>1, <1>3
<1>5. n \in 1..n /\ z \in Ids /\ ow[z] # Zero /\ all.place[z] = n - 1
  BY <1>1, <1>2, <1>4
<1>6. z = t <=> at + 1 = n
  BY <1>1, <1>4, <1>5
<1>7. /\ full \in Seq(Ids) /\ Len(full) = n /\ full[at + 1] = z
      /\ \A i \in 1..n : i # at + 1 => full[i] = all.tokens[i]
  <2> HIDE DEF at, z
  <2> QED BY <1>1, <1>4, <1>5
<1>8. /\ tokens \in Seq(Ids) /\ Len(tokens) = n - 1
      /\ \A i \in 1..(n - 1) : tokens[i] = full[i]
  <2> HIDE DEF full, z, at
  <2> QED BY <1>1, <1>5, <1>7, SubSeqProperties
<1>9. /\ place \in [Ids -> Ids] /\ place[t] = 0 /\ ow2[t] = Zero
      /\ z # t => place[z] = at
      /\ \A s \in Ids : s # t /\ s # z => place[s] = all.place[s]
      /\ \A s \in Ids : s # t => ow2[s] = ow[s]
  <2>1. 0 \in Ids
    BY DEF Ids
  <2> HIDE DEF at, z
  <2> QED BY <2>1, <1>1, <1>4, <1>5
<1>10. removeTokenFromAll(t) = [tokens |-> tokens, place |-> place]
  BY DEF removeTokenFromAll
<1> HIDE DEF tokens, place, ow2, full, z, at, n
<1>11. ASSUME NEW i \in 1..(n - 1) PROVE ow2[tokens[i]] # Zero /\ place[tokens[i]] = i - 1
  <2>1. CASE i = at + 1
    <3>1. at + 1 # n /\ tokens[i] = z
      BY <2>1, <1>1, <1>7, <1>8
    <3> QED BY <2>1, <3>1, <1>4, <1>5, <1>6, <1>9
  <2>2. CASE i # at + 1
    <3>1. i \in 1..n /\ i # n /\ tokens[i] = all.tokens[i]
      BY <2>2, <1>1, <1>7, <1>8
    <3>2. all.tokens[i] # t /\ all.tokens[i] # z
      <4>1. all.place[all.tokens[i]] = i - 1 /\ all.place[t] = at
        BY <3>1, <1>2 DEF at
      <4>2. i - 1 # at /\ i - 1 # n - 1
        BY <2>2, <3>1, <1>1, <1>4
      <4> QED BY <4>1, <4>2, <1>5
    <3> QED BY <3>1, <3>2, <1>2, <1>9
  <2> QED BY <2>1, <2>2
<1>12. ASSUME NEW s \in Ids, ow2[s] # Zero
       PROVE  place[s] + 1 \in 1..(n - 1) /\ tokens[place[s] + 1] = s
  <2>1. s # t /\ ow[s] # Zero
    BY <1>12, <1>9
  <2>2. all.place[s] \in Nat /\ all.place[s] + 1 \in 1..n /\ all.tokens[all.place[s] + 1] = s
    BY <2>1, <1>1, <1>3 DEF Ids
  <2>3. CASE s = z
    <3>1. at + 1 # n /\ place[s] = at
      BY <2>1, <2>3, <1>6, <1>9
    <3>2. at + 1 \in 1..(n - 1)
      BY <3>1, <1>1, <1>4
    <3> QED BY <2>3, <3>1, <3>2, <1>7, <1>8
  <2>4. CASE s # z
    <3>1. place[s] = all.place[s]
      BY <2>1, <2>4, <1>9
    <3>2. all.place[s] + 1 # n /\ all.place[s] + 1 # at + 1
      BY <2>1, <2>2, <2>4, <1>4 DEF z
    <3>3. all.place[s] + 1 \in 1..(n - 1)
      BY <2>2, <3>2, <1>1
    <3> QED BY <2>2, <3>1, <3>2, <3>3, <1>7, <1>8
  <2> QED BY <2>3, <2>4
<1> QED BY <1>8, <1>9, <1>10, <1>11, <1>12 DEF SupplyEnumeration, SupplyList, Ranks, ow2

-----------------------------------------------------------------------------

(* The inductive invariant.  Nothing more than the parts that the runs     *)
(* check is needed, but they have to be taken together: the owner lists    *)
(* give the balances their range, and the roles their lists.               *)
IInv ==
    /\ TypeOK
    /\ RolesAreListed
    /\ OwnerListsAreExact
    /\ SupplyListIsExact
    /\ ApprovalsAreLive

(* The constructor establishes the invariant.                              *)
LEMMA InitIInv == Init => IInv
<1> SUFFICES ASSUME Init PROVE IInv
  OBVIOUS
<1>1. RolesTypeOK /\ RolesAreListed
  BY RolesInitInv DEF Init, RolesInv
<1>2. 0 \in Ids
  BY DEF Ids
<1>3. owners \in [Ids -> Accounts \cup {Zero}] /\ balances \in [Accounts -> 0..MaxTokens]
  BY DEF Init
<1>4. lists \in OwnerEnumeration /\ all \in SupplyEnumeration
  BY <1>2 DEF Init, OwnerEnumeration, SupplyEnumeration
<1>5. TypeOK
  <2>1. tokenApprovals \in [Ids -> Accounts \cup {Zero}] /\ tokenIdTracker \in 0..MaxTokens
    BY DEF Init
  <2> QED BY <1>1, <1>3, <1>4, <2>1 DEF Init, TypeOK
<1>6. OwnerListsAreExact /\ SupplyListIsExact /\ ApprovalsAreLive
  BY DEF Init, OwnerListsAreExact, OwnerLists, SupplyListIsExact, SupplyList, Ranks, ApprovalsAreLive, Exists
<1> QED BY <1>1, <1>5, <1>6 DEF IInv

(* One lemma for each call that changes an owner.                          *)
LEMMA MintStep ==
    ASSUME IInv, NEW sender \in Accounts, NEW to \in Accounts, mint(sender, to)
    PROVE  IInv'
<1> DEFINE id == tokenIdTracker
<1>1. id \in Ids /\ owners[id] = Zero /\ id + 1 \in 0..MaxTokens
  BY DEF IInv, TypeOK, mint, Exists, Ids
<1>2. /\ lists' \in OwnerEnumeration
      /\ balances' \in [Accounts -> 0..MaxTokens]
      /\ OwnerLists(lists', owners', balances')
  BY <1>1, AddToOwner DEF IInv, TypeOK, OwnerListsAreExact, mint
<1>3. all' \in SupplyEnumeration /\ SupplyList(all', owners')
  BY <1>1, AddToAll DEF IInv, TypeOK, SupplyListIsExact, mint
<1>4. owners' \in [Ids -> Accounts \cup {Zero}] /\ tokenIdTracker' \in 0..MaxTokens
  BY <1>1 DEF IInv, TypeOK, mint
<1>5. RolesTypeOK' /\ RolesAreListed'
  BY DEF IInv, TypeOK, mint, roleVars, RolesTypeOK, RolesAreListed
<1>6. ApprovalsAreLive'
  BY <1>1 DEF IInv, TypeOK, ApprovalsAreLive, Exists, mint
<1>7. TypeOK'
  BY <1>2, <1>3, <1>4, <1>5 DEF IInv, TypeOK, mint
<1> QED BY <1>2, <1>3, <1>5, <1>6, <1>7 DEF IInv, OwnerListsAreExact, SupplyListIsExact

LEMMA BurnStep ==
    ASSUME IInv, NEW sender \in Accounts, NEW t \in Ids, burn(sender, t)
    PROVE  IInv'
<1>1. owners[t] \in Accounts /\ owners[t] # Zero
  BY DEF IInv, TypeOK, burn, isApprovedOrOwner, Exists
<1>2. /\ lists' \in OwnerEnumeration
      /\ balances' \in [Accounts -> 0..MaxTokens]
      /\ OwnerLists(lists', owners', balances')
  BY <1>1, RemoveFromOwner DEF IInv, TypeOK, OwnerListsAreExact, burn
<1>3. all' \in SupplyEnumeration /\ SupplyList(all', owners')
  BY <1>1, RemoveFromAll DEF IInv, TypeOK, SupplyListIsExact, burn
<1>4. /\ owners' \in [Ids -> Accounts \cup {Zero}]
      /\ tokenApprovals' \in [Ids -> Accounts \cup {Zero}]
  BY DEF IInv, TypeOK, burn
<1>5. RolesTypeOK' /\ RolesAreListed'
  BY DEF IInv, TypeOK, burn, roleVars, RolesTypeOK, RolesAreListed
<1>6. ApprovalsAreLive'
  BY DEF IInv, TypeOK, ApprovalsAreLive, Exists, burn
<1>7. TypeOK'
  BY <1>2, <1>3, <1>4, <1>5 DEF IInv, TypeOK, burn
<1> QED BY <1>2, <1>3, <1>5, <1>6, <1>7 DEF IInv, OwnerListsAreExact, SupplyListIsExact

LEMMA TransferStep ==
    ASSUME IInv, NEW sender \in Accounts, NEW from \in Accounts, NEW to \in Accounts, NEW t \in Ids,
           transferFrom(sender, from, to, t)
    PROVE  IInv'
<1>1. owners[t] = from /\ owners[t] # Zero
  BY DEF transferFrom
<1>2. /\ lists' \in OwnerEnumeration
      /\ balances' \in [Accounts -> 0..MaxTokens]
      /\ OwnerLists(lists', owners', balances')
  <2>1. CASE from = to
    <3>1. lists' = lists /\ owners' = owners /\ balances' = balances
      BY <2>1, <1>1 DEF IInv, TypeOK, transferFrom
    <3> QED BY <3>1 DEF IInv, TypeOK, OwnerListsAreExact
  <2>2. CASE from # to
    <3> DEFINE l1 == removeTokenFromOwner(lists, from, t)
               ow1 == [owners EXCEPT ![t] = Zero]
               bal1 == [balances EXCEPT ![from] = @ - 1]
    <3>1. l1 \in OwnerEnumeration /\ bal1 \in [Accounts -> 0..MaxTokens] /\ OwnerLists(l1, ow1, bal1)
      BY <1>1, RemoveFromOwner DEF IInv, TypeOK, OwnerListsAreExact
    <3>2. ow1 \in [Ids -> Accounts \cup {Zero}] /\ ow1[t] = Zero /\ balances[to] = bal1[to]
      BY <2>2 DEF IInv, TypeOK
    <3>3. /\ lists' = addTokenToOwner(l1, to, t)
          /\ owners' = [ow1 EXCEPT ![t] = to]
          /\ balances' = [bal1 EXCEPT ![to] = @ + 1]
      BY <2>2 DEF IInv, TypeOK, transferFrom
    <3> HIDE DEF l1, ow1, bal1
    <3> QED BY <3>1, <3>2, <3>3, AddToOwner
  <2> QED BY <2>1, <2>2
<1>3. SupplyList(all', owners')
  BY <1>1 DEF IInv, TypeOK, SupplyListIsExact, SupplyList, SupplyEnumeration, Ranks, transferFrom
<1>4. /\ owners' \in [Ids -> Accounts \cup {Zero}]
      /\ tokenApprovals' \in [Ids -> Accounts \cup {Zero}]
  BY DEF IInv, TypeOK, transferFrom
<1>5. RolesTypeOK' /\ RolesAreListed'
  BY DEF IInv, TypeOK, transferFrom, roleVars, RolesTypeOK, RolesAreListed
<1>6. ApprovalsAreLive'
  BY DEF IInv, TypeOK, ApprovalsAreLive, Exists, transferFrom
<1>7. TypeOK'
  BY <1>2, <1>4, <1>5 DEF IInv, TypeOK, transferFrom
<1> QED BY <1>2, <1>3, <1>5, <1>6, <1>7 DEF IInv, OwnerListsAreExact, SupplyListIsExact

(* The calls that leave owners, balances and enumerations alone.           *)
LEMMA OtherStep ==
    ASSUME IInv, UNCHANGED <<owners, balances, lists, all, tokenIdTracker>>,
           RolesTypeOK', RolesAreListed', ApprovalsAreLive',
           tokenApprovals' \in [Ids -> Accounts \cup {Zero}],
           operatorApprovals' \subseteq Accounts \X Accounts, paused' \in BOOLEAN
    PROVE  IInv'
BY DEF IInv, TypeOK, OwnerListsAreExact, OwnerLists, SupplyListIsExact, SupplyList, Ranks

(* Every call keeps the invariant.                                         *)
LEMMA StepIInv == IInv /\ [Next]_vars => IInv'
<1> SUFFICES ASSUME IInv, [Next]_vars PROVE IInv'
  OBVIOUS
<1>1. ASSUME NEW sender \in Accounts, NEW to \in Accounts, mint(sender, to) PROVE IInv'
  BY <1>1, MintStep
<1>2. ASSUME NEW sender \in Accounts, NEW t \in Ids, burn(sender, t) PROVE IInv'
  BY <1>2, BurnStep
<1>3. ASSUME NEW sender \in Accounts, NEW from \in Accounts, NEW to \in Accounts, NEW t \in Ids,
             transferFrom(sender, from, to, t)
      PROVE  IInv'
  BY <1>3, TransferStep
<1>4. ASSUME NEW sender \in Accounts, NEW to \in Accounts \cup {Zero}, NEW t \in Ids, approve(sender, to, t)
      PROVE  IInv'
  <2>1. ApprovalsAreLive' /\ tokenApprovals' \in [Ids -> Accounts \cup {Zero}]
    BY <1>4 DEF approve, IInv, TypeOK, ApprovalsAreLive, Exists
  <2> QED BY <1>4, <2>1, OtherStep DEF approve, IInv, TypeOK, RolesTypeOK, RolesAreListed, roleVars
<1>5. ASSUME NEW sender \in Accounts, NEW operator \in Accounts, NEW approved \in BOOLEAN,
             setApprovalForAll(sender, operator, approved)
      PROVE  IInv'
  <2>1. ApprovalsAreLive' /\ operatorApprovals' \subseteq Accounts \X Accounts
    BY <1>5 DEF setApprovalForAll, IInv, TypeOK, ApprovalsAreLive, Exists
  <2> QED BY <1>5, <2>1, OtherStep DEF setApprovalForAll, IInv, TypeOK, RolesTypeOK, RolesAreListed, roleVars
<1>6. CASE PauseNext \/ UNCHANGED vars
  <2>1. UNCHANGED <<tokenVars, roleVars>> /\ paused' \in BOOLEAN
    BY <1>6 DEF PauseNext, pause, unpause, vars, roleVars, IInv, TypeOK
  <2> QED BY <2>1, OtherStep DEF tokenVars, roleVars, IInv, TypeOK, RolesTypeOK, RolesAreListed, ApprovalsAreLive, Exists
<1>7. CASE RolesNext /\ UNCHANGED <<tokenVars, paused>>
  <2>1. RolesTypeOK' /\ RolesAreListed'
    BY <1>7, RolesNextInv DEF IInv, TypeOK, RolesInv
  <2> QED BY <1>7, <2>1, OtherStep DEF tokenVars, IInv, TypeOK, ApprovalsAreLive, Exists
<1> QED BY <1>1, <1>2, <1>3, <1>4, <1>5, <1>6, <1>7 DEF Next, TokenNext

(* Every reachable state satisfies the inductive invariant.                *)
THEOREM IInvHolds == Spec => []IInv
BY InitIInv, StepIInv, PTL DEF Spec

(* Every variable keeps its type.  That a balance and a place stay below   *)
(* the number of tokens is part of it, and follows from the lists only.    *)
THEOREM TypeCorrect == Spec => []TypeOK
<1>1. IInv => TypeOK
  BY DEF IInv
<1> QED BY <1>1, IInvHolds, PTL

(* The list of an account names its tokens, each once, after any sequence  *)
(* of mints, transfers and burns.                                          *)
THEOREM OwnerListsExact == Spec => []OwnerListsAreExact
<1>1. IInv => OwnerListsAreExact
  BY DEF IInv
<1> QED BY <1>1, IInvHolds, PTL

(* The list of all tokens names those that exist, each once.               *)
THEOREM SupplyListExact == Spec => []SupplyListIsExact
<1>1. IInv => SupplyListIsExact
  BY DEF IInv
<1> QED BY <1>1, IInvHolds, PTL

(* No approval of a single token outlives the ownership it was given under. *)
THEOREM ApprovalsLive == Spec => []ApprovalsAreLive
<1>1. IInv => ApprovalsAreLive
  BY DEF IInv
<1> QED BY <1>1, IInvHolds, PTL

(* A pause whose pausers and administrators have all left never ends.      *)
THEOREM PauseOutlives == Spec => PauseOutlivesItsRoles
<1>1. IInv /\ [Next]_vars => [paused /\ members[Pauser] = {} /\ members[Admin] = {} => paused']_vars
  BY DEF Next, TokenNext, PauseNext, mint, burn, transferFrom, approve, setApprovalForAll,
         pause, unpause, hasRole, IInv, TypeOK, vars
<1> QED BY <1>1, IInvHolds, PTL DEF Spec, PauseOutlivesItsRoles

(* The contract enumerates what its mappings say, roles included.          *)
THEOREM EnumerationsExact == Spec => []EnumerationsAreExact
<1>1. IInv => EnumerationsAreExact
  BY DEF IInv, EnumerationsAreExact
<1> QED BY <1>1, IInvHolds, PTL

(* Without an administrator nobody is appointed and no pause is ended.      *)
THEOREM RightsFromAdmins == Spec => RightsComeFromAdmins
<1>1. IInv /\ [Next]_vars
      => [members[Admin] = {} => \A r \in Roles : members'[r] \subseteq members[r]]_roleVars
  <2> SUFFICES ASSUME IInv, [Next]_vars, members[Admin] = {}, NEW r \in Roles
               PROVE  UNCHANGED roleVars \/ members'[r] \subseteq members[r]
    OBVIOUS
  <2>1. CASE TokenNext \/ PauseNext \/ UNCHANGED vars
    BY <2>1 DEF TokenNext, PauseNext, mint, burn, transferFrom, approve, setApprovalForAll,
           pause, unpause, roleVars, vars
  <2>2. CASE RolesNext
    BY <2>2, RolesAssumption DEF IInv, TypeOK, RolesTypeOK, RolesNext, grantRole, revokeRole,
           renounceRole, dropRole, hasRole, roleVars
  <2> QED BY <2>1, <2>2 DEF Next
<1> QED BY <1>1, IInvHolds, PauseOutlives, PTL
        DEF Spec, RightsComeFromAdmins, NobodyIsAppointedWithoutAdmin

-----------------------------------------------------------------------------
(* The refinement: what is listed for an account are the tokens it owns,   *)
(* so that a step of the ledger can be read off the owners.                *)

Owned(ow) == [a \in Accounts |-> {t \in Ids : ow[t] = a}]

Living(ow) == {t \in Ids : ow[t] # Zero}

ListsShowOwners == Held = Owned(owners) /\ Listed = Living(owners)

(* The enumerations show exactly what the owners say.                      *)
LEMMA HeldIsOwned == IInv => ListsShowOwners
<1> SUFFICES ASSUME IInv PROVE ListsShowOwners
  OBVIOUS
<1>1. ASSUME NEW a \in Accounts PROVE OwnedBy(a) = {t \in Ids : owners[t] = a}
  <2>1. balances[a] \in 0..MaxTokens /\ lists.owned[a] \in [Ids -> Ids] /\ lists.place \in [Ids -> Ids]
    BY DEF IInv, TypeOK, OwnerEnumeration
  <2>2. ASSUME NEW i \in 0..(balances[a] - 1)
        PROVE  lists.owned[a][i] \in Ids /\ owners[lists.owned[a][i]] = a
    <3>1. \A q \in 0..MaxTokens : 0..(q - 1) \subseteq Ids
      BY DEF Ids
    <3>2. i \in Ids
      BY <2>1, <3>1
    <3> QED BY <2>1, <3>2 DEF IInv, OwnerListsAreExact, OwnerLists
  <2>3. ASSUME NEW t \in Ids, owners[t] = a
        PROVE  \E i \in 0..(balances[a] - 1) : lists.owned[a][i] = t
    <3>1. lists.place[t] < balances[a] /\ lists.owned[a][lists.place[t]] = t
      BY <2>3 DEF IInv, OwnerListsAreExact, OwnerLists
    <3>2. \A p \in Ids, q \in 0..MaxTokens : p < q => p \in 0..(q - 1)
      BY DEF Ids
    <3>3. lists.place[t] \in 0..(balances[a] - 1)
      BY <2>1, <3>1, <3>2
    <3> QED BY <3>1, <3>3
  <2> QED BY <2>2, <2>3 DEF OwnedBy
<1>2. Held = Owned(owners)
  BY <1>1 DEF Held, Owned
<1>3. \A i \in Ranks(all.tokens) : all.tokens[i] \in Ids
  BY DEF IInv, TypeOK, SupplyEnumeration, Ranks
<1>4. Listed = Living(owners)
  BY <1>3 DEF Listed, Living, IInv, SupplyListIsExact, SupplyList
<1> QED BY <1>2, <1>4 DEF ListsShowOwners

(* The same for the state after a step.                                    *)
LEMMA HeldIsOwnedNext == IInv' => ListsShowOwners'
BY HeldIsOwned, PTL

(* A step that keeps the owners and the counter cannot be seen.            *)
LEMMA QuietStep ==
    ASSUME IInv, IInv', UNCHANGED <<owners, tokenIdTracker>>
    PROVE  UNCHANGED Ledger!ledgerVars
BY HeldIsOwned, HeldIsOwnedNext DEF ListsShowOwners, Owned, Living, Ledger!ledgerVars

(* Every call is one step of the ledger or none.                           *)
LEMMA StepMapsToStep == IInv /\ IInv' /\ [Next]_vars => [Ledger!LedgerNext]_(Ledger!ledgerVars)
<1> SUFFICES ASSUME IInv, IInv', [Next]_vars
             PROVE  [Ledger!LedgerNext]_(Ledger!ledgerVars)
  OBVIOUS
<1>1. Held = Owned(owners) /\ Listed = Living(owners)
  BY HeldIsOwned DEF ListsShowOwners
<1>2. Held' = Owned(owners') /\ Listed' = Living(owners')
  BY HeldIsOwnedNext DEF ListsShowOwners, Owned, Living
<1>3. owners \in [Ids -> Accounts \cup {Zero}] /\ owners' \in [Ids -> Accounts \cup {Zero}]
  BY DEF IInv, TypeOK
<1>4. ASSUME NEW sender \in Accounts, NEW to \in Accounts, mint(sender, to) PROVE Ledger!Make(to)
  <2> DEFINE id == tokenIdTracker
  <2>1. id \in Ids /\ owners[id] = Zero /\ owners' = [owners EXCEPT ![id] = to] /\ id' = id + 1
    BY <1>4 DEF mint, Exists, IInv, TypeOK, Ids
  <2>2. Owned(owners') = [Owned(owners) EXCEPT ![to] = @ \cup {id}]
    BY <2>1, <1>3 DEF Owned
  <2>3. Living(owners') = Living(owners) \cup {id}
    BY <2>1, <1>3 DEF Living
  <2> QED BY <1>1, <1>2, <2>1, <2>2, <2>3 DEF Ledger!Make
<1>5. ASSUME NEW sender \in Accounts, NEW t \in Ids, burn(sender, t)
      PROVE  owners[t] \in Accounts /\ t \in Listed /\ Ledger!Burn(owners[t], t)
  <2> DEFINE a == owners[t]
  <2>1. a \in Accounts /\ owners' = [owners EXCEPT ![t] = Zero] /\ UNCHANGED tokenIdTracker
    BY <1>3, <1>5 DEF burn, isApprovedOrOwner, Exists
  <2>2. Owned(owners') = [Owned(owners) EXCEPT ![a] = @ \ {t}]
    BY <2>1, <1>3 DEF Owned
  <2>3. Living(owners') = Living(owners) \ {t}
    BY <2>1, <1>3 DEF Living
  <2>4. t \in Held[a] /\ t \in Listed
    BY <1>1, <1>3, <2>1 DEF Owned, Living
  <2> QED BY <1>1, <1>2, <2>1, <2>2, <2>3, <2>4 DEF Ledger!Burn
<1>6. ASSUME NEW sender \in Accounts, NEW from \in Accounts, NEW to \in Accounts, NEW t \in Ids,
             transferFrom(sender, from, to, t)
      PROVE  t \in Listed /\ Ledger!Move(from, to, t)
  <2>1. owners[t] = from /\ owners' = [owners EXCEPT ![t] = to] /\ UNCHANGED tokenIdTracker
    BY <1>6 DEF transferFrom
  <2>2. Owned(owners') = [Owned(owners) EXCEPT ![from] = @ \ {t}, ![to] = @ \cup {t}]
    BY <2>1, <1>3 DEF Owned
  <2>3. Living(owners') = Living(owners)
    BY <2>1, <1>3 DEF Living
  <2>4. t \in Held[from] /\ t \in Listed
    BY <1>1, <1>3, <2>1 DEF Owned, Living
  <2> QED BY <1>1, <1>2, <2>1, <2>2, <2>3, <2>4 DEF Ledger!Move
<1>7. CASE UNCHANGED <<owners, tokenIdTracker>>
  BY <1>7, QuietStep
<1>8. \/ \E sender, to \in Accounts : mint(sender, to)
      \/ \E sender \in Accounts, t \in Ids : burn(sender, t)
      \/ \E sender, from, to \in Accounts, t \in Ids : transferFrom(sender, from, to, t)
      \/ UNCHANGED <<owners, tokenIdTracker>>
  BY DEF Next, TokenNext, PauseNext, approve, setApprovalForAll, pause, unpause, tokenVars, vars
<1> QED BY <1>4, <1>5, <1>6, <1>7, <1>8 DEF Ledger!LedgerNext

(* A new collection is a new ledger.                                       *)
LEMMA InitMapsToInit == Init => Ledger!LedgerInit
<1> SUFFICES ASSUME Init PROVE Ledger!LedgerInit
  OBVIOUS
<1>1. Held = Owned(owners) /\ Listed = Living(owners)
  BY InitIInv, HeldIsOwned DEF ListsShowOwners
<1>2. \A t \in Ids : owners[t] = Zero
  BY DEF Init
<1>3. Owned(owners) = [a \in Accounts |-> {}] /\ Living(owners) = {}
  BY <1>2 DEF Owned, Living
<1> QED BY <1>1, <1>3 DEF Init, Ledger!LedgerInit

(* The collection implements the ledger: a call makes, moves or burns one  *)
(* token of what its enumerations list, or nothing of it, and a number is  *)
(* given to one token only.                                                *)
THEOREM CollectionIsLedger == Spec => ImplementsTokenLedger
BY InitMapsToInit, StepMapsToStep, IInvHolds, PTL
   DEF Spec, ImplementsTokenLedger, Ledger!LedgerSpec
================================================================================

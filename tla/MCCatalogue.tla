------------------------------ MODULE MCCatalogue ------------------------------
(***************************************************************************)
(* Blockchains and payment tokens, their lists and the exchange rates on   *)
(* small instances.  The three modules share no variable, so one run       *)
(* explores them side by side: `part` is the one that moves, the variables *)
(* of the others are Off.  Catalogue has three instances: two calls on     *)
(* blockchains, two calls on tokens that may lose theirs, and one call at  *)
(* a time.  In "rates" runs overlap at one price, in "rates one by one" the *)
(* price moves and runs do not overlap.                                    *)
(***************************************************************************)
EXTENDS Naturals, TLC

CONSTANTS
    Chains, Tokens, Names, Files, Requests, Alone,
    ChainIds, TokenIds, Strings, Lower, Statuses,               \* of CatalogueLists
    Quoted, toUpperCase, Wrapped, ManualRates, MaxPrice,        \* of UsdRates
    NoRow, Gone, NoFile, Null, Absent, Idle, Off

VARIABLES
    part,
    rows, disk, written, failedUpdates, rowCall,
    chains, tokens, statusCall,
    token, market, run, everSynced, last

(* Addresses and files are never compared with each other.                  *)
Races == INSTANCE Catalogue
    WITH Tokens <- {}, Addresses <- {},
         Slugs <- {"ethereum", "polygon"}, call <- rowCall
References == INSTANCE Catalogue
    WITH Chains <- {"chain"}, Names <- {"name"}, Addresses <- Files, Files <- {"file"},
         Slugs <- {"ethereum"}, call <- rowCall
OneByOne == INSTANCE Catalogue
    WITH Addresses <- {"address"}, Requests <- Alone,
         Slugs <- {"ethereum", "unmapped"}, call <- rowCall

Lists == INSTANCE CatalogueLists
    WITH Chains <- ChainIds, Tokens <- TokenIds, Requests <- Alone, call <- statusCall
Rates == INSTANCE UsdRates WITH Runs <- Requests

(* The values of the constants that are no model values.                    *)
ListStrings == {<<"e">>, <<"E">>, <<"e", "t">>}
ListLower == [c \in {"e", "E", "t"} |-> IF c = "E" THEN "e" ELSE c]
RateQuoted == {"E", "WE"}
RateUpper == [s \in {"E", "e", "WE"} |-> IF s = "e" THEN "E" ELSE s]
RateWrapped == [s \in {"E", "WE", "WWE"} |-> IF s = "E" THEN "WE" ELSE "WWE"]

ASSUME RowsAssumption ==
    /\ Races!IdsAssumption /\ References!IdsAssumption /\ OneByOne!IdsAssumption
    /\ Races!NoFileAssumption /\ References!NoFileAssumption /\ OneByOne!NoFileAssumption
    /\ Races!RowAssumption /\ References!RowAssumption /\ OneByOne!RowAssumption
    /\ Races!IdleAssumption /\ References!IdleAssumption /\ OneByOne!IdleAssumption
ASSUME AloneAssumption == \A q, r \in Alone : q = r
ASSUME ListsAssumption ==
    /\ Lists!StringsAssumption /\ Lists!NullAssumption
    /\ Lists!IdsAssumption /\ Lists!StatusAssumption
ASSUME RatesAssumption == Rates!PriceAssumption /\ Rates!SymbolsAssumption /\ Rates!NullAssumption

rowVars == <<rows, disk, written, failedUpdates, rowCall>>
listVars == <<chains, tokens, statusCall>>
rateVars == <<token, market, run, everSynced, last>>
vars == <<part, rowVars, listVars, rateVars>>

RowsOff == rows = Off /\ disk = Off /\ written = Off /\ failedUpdates = Off /\ rowCall = Off
ListsOff == chains = Off /\ tokens = Off /\ statusCall = Off
RatesOff == token = Off /\ market = Off /\ run = Off /\ everSynced = Off /\ last = Off

Init ==
    \/ part = "races" /\ Races!Init /\ ListsOff /\ RatesOff
    \/ part = "references" /\ References!Init /\ ListsOff /\ RatesOff
    \/ part = "one by one" /\ OneByOne!Init /\ ListsOff /\ RatesOff
    \/ part = "lists" /\ Lists!Init /\ RowsOff /\ RatesOff
    \/ part \in {"rates", "rates one by one"} /\ Rates!Init /\ RowsOff /\ ListsOff

RunsDoNotOverlap(runs) == \A q, r \in Requests : runs[q] # Idle /\ runs[r] # Idle => q = r

Next ==
    \/ /\ \/ part = "races" /\ Races!Next
          \/ part = "references" /\ References!Next
          \/ part = "one by one" /\ OneByOne!Serve
       /\ UNCHANGED <<part, listVars, rateVars>>
    \/ part = "lists" /\ Lists!Next /\ UNCHANGED <<part, rowVars, rateVars>>
    \/ /\ \/ part = "rates" /\ Rates!Next /\ UNCHANGED market
          \/ part = "rates one by one" /\ Rates!Next /\ RunsDoNotOverlap(run')
       /\ UNCHANGED <<part, rowVars, listVars>>

Spec == Init /\ [][Next]_vars

Symmetry == Permutations(Chains) \cup Permutations(Tokens) \cup Permutations(Names)
              \cup Permutations(Files) \cup Permutations(Requests)

--------------------------------------------------------------------------------
(* The types of the three modules. *)
CatalogueTypeOK ==
    /\ part = "races" => Races!TypeOK
    /\ part = "references" => References!TypeOK
    /\ part = "one by one" => OneByOne!TypeOK
    /\ part = "lists" => Lists!TypeOK
    /\ part \in {"rates", "rates one by one"} => Rates!TypeOK

(* However creations, updates and deletions overlap, no two blockchains have *)
(* one chain_id and a token keeps a blockchain.                            *)
ReferencesHold ==
    /\ part = "races" => Races!OneRowPerChain
    /\ part = "references" => References!TokensHaveTheirChain

(* Only calls on a row lose the logo it names; without overlaps, only a     *)
(* failed update of it does.                                               *)
LogosAreKept ==
    /\ [][part = "races" => Races!OwnCallBreaksLogo]_vars
    /\ [](part = "one by one" => OneByOne!LogoMissingOnlyAfterFailedUpdate)

(* No blockchain is in the list of the active and that of the inactive, a   *)
(* native coin and its wrapped token are of the chain asked for, and no    *)
(* total, which filters in another way than its list, announces more rows  *)
(* than the list shows, or fewer when nothing is searched for.             *)
ListsAreRight ==
    part = "lists" =>
        /\ Lists!BlockchainListsByStatus
        /\ Lists!PairIsOfOneChain
        /\ Lists!TokenCountFitsList
        /\ Lists!BlockchainCountFitsList

(* A rate that staff entered changes only if a synchronised row has had its *)
(* symbol, whatever runs overlap; after a run that nothing overlapped the  *)
(* rows show what it has fetched.                                          *)
RatesAreRight ==
    /\ [][part = "rates" => Rates!ManualRateIsKept]_vars
    /\ [](part = "rates one by one" => Rates!RatesAreTheLastFetched)
================================================================================

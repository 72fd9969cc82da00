------------------------------- MODULE UsdRates -------------------------------
(***************************************************************************)
(* The exchange rates of payment tokens: syncUsdRates, which every creation *)
(* and update of a token starts without waiting for it, beside the rates   *)
(* that staff write by hand (src/src/app/modules/staff/token/              *)
(* token.service.ts).                                                      *)
(*                                                                         *)
(* A run reads which symbols are synchronised, asks the price service and  *)
(* writes one symbol after the other; staff and other runs come between.   *)
(* The n-th price the market quotes is n, 0 is the default of a new row.   *)
(***************************************************************************)
EXTENDS Naturals

CONSTANTS
    Tokens,         \* ids of payment tokens
    Quoted,         \* the symbols the price service knows
    toUpperCase,    \* upper case of the symbols in payloads
    Wrapped,        \* W${key} for the symbols in upper case
    ManualRates,    \* rates that staff enter, no prices of the market
    MaxPrice,       \* how often the market moves
    Runs,           \* runs that may be in flight at once
    NoRow, Idle,
    Absent          \* a payload without sync_rate_status

SymbolsAssumption ==
    \A s \in DOMAIN toUpperCase : toUpperCase[s] \in DOMAIN Wrapped
PriceAssumption == MaxPrice \in Nat \ {0} /\ ManualRates \cap (0..MaxPrice) = {}

VARIABLES
    token,      \* the rows of payment_tokens
    market,     \* the current price
    run,        \* the runs in flight
    everSynced, \* the symbols that synchronised rows have had
    last        \* what the last run to end has fetched; 0 when it did not succeed

vars == <<token, market, run, everSynced, last>>

Symbols == DOMAIN Wrapped
Rates == {0} \cup ManualRates \cup 1..MaxPrice

(* `plain`: a native coin, or not wrapable. *)
PaymentToken == [token_symbol: Symbols, sync_rate_status: BOOLEAN, plain: BOOLEAN, usd_rate: Rates]
Payload == [token_symbol: DOMAIN toUpperCase, sync_rate_status: BOOLEAN \cup {Absent},
            plain: BOOLEAN, usd_rate: {0} \cup ManualRates]
Run == [at: {"reading", "fetching", "writing"}, keys: SUBSET Symbols, price: 0..MaxPrice]
NullAssumption == NoRow \notin PaymentToken /\ Idle \notin Run

TypeOK ==
    /\ token \in [Tokens -> PaymentToken \cup {NoRow}]
    /\ market \in 1..MaxPrice /\ last \in 0..MaxPrice
    /\ run \in [Runs -> Run \cup {Idle}]
    /\ everSynced \subseteq Symbols

Init ==
    /\ token = [t \in Tokens |-> NoRow]
    /\ market = 1 /\ last = 0
    /\ run = [r \in Runs |-> Idle]
    /\ everSynced = {}

--------------------------------------------------------------------------------
Exists(t) == token[t] # NoRow

syncUsdRates(r) ==
    /\ run[r] = Idle
    /\ run' = [run EXCEPT ![r] = [at |-> "reading", keys |-> {}, price |-> 0]]

Before(t) == IF Exists(t) THEN token[t] ELSE [sync_rate_status |-> TRUE, usd_rate |-> 0]

(* Variant: the symbol is stored as it was typed. *)
Row_AsTyped(p, old) ==
    [token_symbol |-> p.token_symbol, plain |-> p.plain,
     sync_rate_status |-> IF p.sync_rate_status = Absent THEN old.sync_rate_status
                                                         ELSE p.sync_rate_status,
     usd_rate |-> IF p.sync_rate_status = TRUE THEN old.usd_rate ELSE p.usd_rate]

(* What create and update write over the old row or the defaults: usd_rate  *)
(* is left alone when the payload asks for synchronisation.                *)
Row(p, old) ==
    [token_symbol |-> toUpperCase[p.token_symbol], plain |-> p.plain,
     sync_rate_status |-> IF p.sync_rate_status = Absent THEN old.sync_rate_status
                                                         ELSE p.sync_rate_status,
     usd_rate |-> IF p.sync_rate_status = TRUE THEN old.usd_rate ELSE p.usd_rate]

(* createPaymentToken and updatePaymentToken from their last statement on.  *)
savePaymentToken(t, p, r) ==
    LET row == Row(p, Before(t)) IN
    /\ token' = [token EXCEPT ![t] = row]
    /\ everSynced' = everSynced \cup IF row.sync_rate_status THEN {row.token_symbol} ELSE {}
    /\ syncUsdRates(r)
    /\ UNCHANGED <<market, last>>

(* The mutation syncUsdRates. *)
requestSync(r) == syncUsdRates(r) /\ UNCHANGED <<token, market, everSynced, last>>

deletePaymentToken(t) ==
    /\ Exists(t)
    /\ token' = [token EXCEPT ![t] = NoRow]
    /\ UNCHANGED <<market, run, everSynced, last>>

(* Variant: every symbol is read, synchronised or not. *)
readSymbols_All(r) ==
    /\ run[r] # Idle /\ run[r].at = "reading"
    /\ LET keys == {token[t].token_symbol : t \in {u \in Tokens : Exists(u) /\ token[u].plain}}
       IN  run' = [run EXCEPT ![r] = IF keys = {} THEN Idle
                                     ELSE [at |-> "fetching", keys |-> keys, price |-> 0]]
    /\ UNCHANGED <<token, market, everSynced, last>>

(* The distinct symbols of rows that are synchronised and plain. *)
PlainSyncedSymbols ==
    {token[t].token_symbol : t \in {u \in Tokens : Exists(u) /\ token[u].plain
                                                   /\ token[u].sync_rate_status}}

readSymbols(r) ==
    /\ run[r] # Idle /\ run[r].at = "reading"
    /\ LET keys == PlainSyncedSymbols
       IN  run' = [run EXCEPT ![r] = IF keys = {} THEN Idle
                                     ELSE [at |-> "fetching", keys |-> keys, price |-> 0]]
    /\ UNCHANGED <<token, market, everSynced, last>>

(* The answer has the symbols the service knows. *)
fetchPrices(r) ==
    /\ run[r] # Idle /\ run[r].at = "fetching"
    /\ run' = [run EXCEPT ![r] = [at |-> "writing", keys |-> @.keys \cap Quoted, price |-> market]]
    /\ UNCHANGED <<token, market, everSynced, last>>

Priced(t, symbols, price) ==
    IF Exists(t) /\ token[t].token_symbol \in symbols
      THEN [token[t] EXCEPT !.usd_rate = price] ELSE token[t]

(* One updateMany for the symbol and for W and the symbol. *)
writeRate(r, key) ==
    /\ run[r] # Idle /\ run[r].at = "writing" /\ key \in run[r].keys
    /\ token' = [t \in Tokens |-> Priced(t, {key, Wrapped[key]}, run[r].price)]
    /\ run' = [run EXCEPT ![r].keys = @ \ {key}]
    /\ UNCHANGED <<market, everSynced, last>>

endRun(r) ==
    /\ run[r] # Idle /\ run[r].at = "writing" /\ run[r].keys = {}
    /\ run' = [run EXCEPT ![r] = Idle]
    /\ last' = run[r].price
    /\ UNCHANGED <<token, market, everSynced>>

(* No answer, a price of 0 or a statement that fails: the rest is skipped.  *)
failRun(r) ==
    /\ run[r] # Idle
    /\ run' = [run EXCEPT ![r] = Idle]
    /\ last' = 0
    /\ UNCHANGED <<token, market, everSynced>>

marketMoves ==
    /\ market < MaxPrice
    /\ market' = market + 1
    /\ UNCHANGED <<token, run, everSynced, last>>

--------------------------------------------------------------------------------
Synchronise(r) ==
    readSymbols(r) \/ fetchPrices(r) \/ (\E key \in Symbols : writeRate(r, key)) \/ endRun(r)

Next ==
    \/ marketMoves
    \/ \E t \in Tokens : deletePaymentToken(t)
    \/ \E r \in Runs :
          \/ \E t \in Tokens, p \in Payload : savePaymentToken(t, p, r)
          \/ requestSync(r) \/ Synchronise(r) \/ failRun(r)

Spec == Init /\ [][Next]_vars

--------------------------------------------------------------------------------
(* The rate of a row that is not synchronised changes, other than by staff, *)
(* only if some synchronised row has had its symbol, or its symbol without *)
(* the W: updateMany looks at symbols only.                                *)
WithW(symbols) == symbols \cup {Wrapped[key] : key \in symbols}
RunStarts == \E r \in Runs : run[r] = Idle /\ run'[r] # Idle

ManualRateIsKept ==
    \A t \in Tokens :
        Exists(t) /\ ~token[t].sync_rate_status /\ token[t].token_symbol \notin WithW(everSynced)
            /\ ~RunStarts
        => token'[t] \in {token[t], NoRow}
ManualRateChangesOnlyWithNamesake == [][ManualRateIsKept]_vars

Quiet == \A r \in Runs : run[r] = Idle

(* When runs do not overlap and the last one succeeded, every synchronised  *)
(* row, plain or wrapped, shows the price that run has fetched.            *)
RatesAreTheLastFetched ==
    Quiet /\ last # 0 => \A t \in Tokens :
        Exists(t) /\ token[t].sync_rate_status
              /\ token[t].token_symbol \in WithW(PlainSyncedSymbols \cap Quoted)
            => token[t].usd_rate = last
================================================================================

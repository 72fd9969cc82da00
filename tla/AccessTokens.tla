----------------------------- MODULE AccessTokens -----------------------------
(***************************************************************************)
(* The tokens both logins return and the guards that read them: JwtHelper, *)
(* JwtStrategy, GqlAuthGuard and GqlGetUserGuard (src/src/libs/auth).      *)
(*                                                                         *)
(* The user and the staff table number their rows independently, so an id  *)
(* alone does not name an account: the provider in the token says which    *)
(* table the guard reads.  A guarded request is two steps, the check of    *)
(* the token when it arrives and the read of the account when the database *)
(* answers; accounts change in between.  What a login checks before it     *)
(* calls generateToken is the subject of WalletLogin and of the staff      *)
(* login; by then the account may be suspended or deleted, so `login` asks *)
(* for nothing.                                                            *)
(***************************************************************************)
EXTENDS Naturals

CONSTANTS
    Ids,        \* ids that both tables use
    Requests,   \* guarded requests that may be in flight at once
    TTL,        \* expiresIn, in ticks of the clock
    MaxTime,    \* bound of the clock
    NoToken,    \* a request slot that is free
    NoId        \* a handler that runs without an account

TTLAssumption == TTL \in Nat \ {0}
MaxTimeAssumption == MaxTime \in Nat
NoIdAssumption == NoId \notin Ids

Providers == {"user", "staff"}
Status == {"active", "inactive", "suspended", "other", "deleted"}
Time == 0..MaxTime

(* `since` is the time of the login a token descends from.  It is not in   *)
(* the token; the properties use it.                                       *)
Token == [use: {"access", "refresh"}, provider: Providers, id: Ids,
          exp: 0..(MaxTime + TTL), since: Time]

NoTokenAssumption == NoToken \notin Token

VARIABLES
    now,        \* the clock
    account,    \* the status of every row of both tables
    issued,     \* tokens that were returned
    presented,  \* the token of each request in flight
    guard,      \* the provider its guard asks for, and whether it is lenient
    actor       \* the account its handler runs as, once admitted

vars == <<now, account, issued, presented, guard, actor>>

Guard == [provider: Providers, lenient: BOOLEAN]
Waiting == [admitted |-> FALSE, id |-> NoId]
RunsAs(id) == [admitted |-> TRUE, id |-> id]

TypeOK ==
    /\ now \in Time
    /\ account \in [Providers -> [Ids -> Status]]
    /\ issued \subseteq Token
    /\ presented \in [Requests -> Token \cup {NoToken}]
    /\ guard \in [Requests -> Guard]
    /\ actor \in [Requests -> [admitted: BOOLEAN, id: Ids \cup {NoId}]]

Init ==
    /\ now = 0
    /\ account = [p \in Providers |-> [i \in Ids |-> "active"]]
    /\ issued = {}
    /\ presented = [r \in Requests |-> NoToken]
    /\ guard = [r \in Requests |-> [provider |-> "user", lenient |-> FALSE]]
    /\ actor = [r \in Requests |-> Waiting]

--------------------------------------------------------------------------------
(* An access and a refresh token, signed with different secrets, with the   *)
(* same expiry.                                                            *)
generateToken(p, i, since) ==
    { [use |-> u, provider |-> p, id |-> i, exp |-> now + TTL, since |-> since] :
        u \in {"access", "refresh"} }

(* jsonwebtoken's verify with the secret of one use. *)
Verifies(t, use) == t \in issued /\ t.use = use /\ now < t.exp

(* walletLogin, or the staff login, has authenticated account i of p. *)
login(p, i) ==
    /\ issued' = issued \cup generateToken(p, i, now)
    /\ UNCHANGED <<now, account, presented, guard, actor>>

(* Variant: the token is decoded and not verified. *)
refreshToken_Decodes(t) ==
    /\ t \in issued /\ t.use = "refresh"
    /\ issued' = issued \cup generateToken(t.provider, t.id, t.since)
    /\ UNCHANGED <<now, account, presented, guard, actor>>

(* Both resolvers accept the refresh token of either provider; the account  *)
(* is not read.                                                            *)
refreshToken(t) ==
    /\ Verifies(t, "refresh")
    /\ issued' = issued \cup generateToken(t.provider, t.id, t.since)
    /\ UNCHANGED <<now, account, presented, guard, actor>>

(* A request arrives and passport-jwt accepts its bearer token. *)
arrive(r, g, t) ==
    /\ presented[r] = NoToken
    /\ Verifies(t, "access")
    /\ presented' = [presented EXCEPT ![r] = t]
    /\ guard' = [guard EXCEPT ![r] = g]
    /\ actor' = [actor EXCEPT ![r] = Waiting]
    /\ UNCHANGED <<now, account, issued>>

(* Without a valid token a lenient guard lets the handler run without an    *)
(* account; GqlAuthGuard refuses, which changes nothing.                   *)
arriveAnonymous(r, g) ==
    /\ presented[r] = NoToken
    /\ g.lenient
    /\ guard' = [guard EXCEPT ![r] = g]
    /\ actor' = [actor EXCEPT ![r] = RunsAs(NoId)]
    /\ UNCHANGED <<now, account, issued, presented>>

Finish(r) ==
    /\ presented' = [presented EXCEPT ![r] = NoToken]
    /\ guard' = [guard EXCEPT ![r] = [provider |-> "user", lenient |-> FALSE]]
    /\ actor' = [actor EXCEPT ![r] = Waiting]

(* checkUserStatus returns the user, throws, or for a value it does not    *)
(* mention returns nothing.                                                *)
checkUserStatus(s, i) ==
    CASE s = "active" -> RunsAs(i)
      [] s \in {"suspended", "inactive"} -> Waiting
      [] OTHER -> RunsAs(NoId)

(* Variant: the provider is not compared. *)
handleRequest_AnyProvider(g, t, s) ==
    IF s # "deleted" THEN checkUserStatus(s, t.id)
      ELSE IF g.lenient THEN RunsAs(NoId) ELSE Waiting

(* What handleRequest makes of the token and the row validate has read.    *)
handleRequest(g, t, s) ==
    IF s # "deleted" /\ t.provider = g.provider
      THEN checkUserStatus(s, t.id)
      ELSE IF g.lenient THEN RunsAs(NoId) ELSE Waiting

(* validate reads the account of the token; the guard decides and the       *)
(* handler starts or the request is refused.                               *)
validate(r) ==
    /\ presented[r] # NoToken
    /\ ~actor[r].admitted
    /\ LET t == presented[r]
           decision == handleRequest(guard[r], t, account[t.provider][t.id])
       IN  IF decision.admitted
             THEN /\ actor' = [actor EXCEPT ![r] = decision]
                  /\ UNCHANGED <<presented, guard>>
             ELSE Finish(r)
    /\ UNCHANGED <<now, account, issued>>

(* The handler has answered. *)
answer(r) ==
    /\ actor[r].admitted
    /\ Finish(r)
    /\ UNCHANGED <<now, account, issued>>

(* Staff set the status of a user; a staff member may be deleted. *)
changeAccount(p, i, s) ==
    /\ account[p][i] # "deleted"
    /\ IF p = "user" THEN s # "deleted" ELSE s = "deleted"
    /\ account' = [account EXCEPT ![p][i] = s]
    /\ UNCHANGED <<now, issued, presented, guard, actor>>

tick ==
    /\ now < MaxTime
    /\ now' = now + 1
    /\ UNCHANGED <<account, issued, presented, guard, actor>>

Next ==
    \/ \E p \in Providers, i \in Ids : login(p, i)
    \/ \E t \in issued : refreshToken(t)
    \/ \E r \in Requests, g \in Guard, t \in issued : arrive(r, g, t)
    \/ \E r \in Requests, g \in Guard : arriveAnonymous(r, g)
    \/ \E r \in Requests : validate(r) \/ answer(r)
    \/ \E p \in Providers, i \in Ids, s \in Status : changeAccount(p, i, s)
    \/ tick

Spec == Init /\ [][Next]_vars

--------------------------------------------------------------------------------
(* A handler runs as an account only when the token it came with is for     *)
(* this account of the table its guard names, and that account was active  *)
(* when the guard read it: an equal id in the other table, or a status      *)
(* changed while the request waited, is not enough.                        *)
AdmittedAsActiveAccount ==
    [][\A r \in Requests :
          actor'[r] # actor[r] /\ actor'[r].admitted /\ actor'[r].id # NoId
             => /\ presented[r] \in issued
                /\ presented[r].provider = guard[r].provider
                /\ presented[r].id = actor'[r].id
                /\ account[guard[r].provider][actor'[r].id] = "active"]_vars

(* New tokens come from a login of now or from a refresh token of the same  *)
(* account that has not expired: a session whose tokens are all dead does  *)
(* not come back without a login.                                          *)
SessionsDoNotRevive ==
    [][\A t \in issued' \ issued :
          \/ t.since = now
          \/ \E u \in issued : /\ u.use = "refresh" /\ now < u.exp
                             /\ u.provider = t.provider /\ u.id = t.id
                             /\ u.since = t.since]_vars

(* No token outlives one expiresIn from now, so a session that is not       *)
(* refreshed is over by then.                                              *)
NothingOutlivesTTL == \A t \in issued : t.exp <= now + TTL

(* A session ends one expiresIn after its last refresh, and for good.       *)
SessionsEnd == []NothingOutlivesTTL /\ SessionsDoNotRevive

(* "Your authentication status will reset after ${JWT_TOKEN_EXPIRY}", says  *)
(* the text a wallet signs: what descends from a login is dead one          *)
(* expiresIn after it.                                                     *)
StatusResetsAfterExpiry == \A t \in issued : t.exp <= t.since + TTL
================================================================================

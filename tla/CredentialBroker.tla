--------------------------- MODULE CredentialBroker ---------------------------
(***************************************************************************)
(* The credential broker of src/broker.ts in the engine's process, and the *)
(* clients that use it: the inference provider, the routing client and the *)
(* intelligence client, each of which renews the token once after a 401.   *)
(*                                                                         *)
(* Grants are numbered; grant n has the access token n and the refresh     *)
(* token n. An action is the code between two awaits. The optional package *)
(* @capix/auth-broker is not installed. PKCE, state and redirect URI of a  *)
(* login are the number of the login. Expiry is an event: the broker holds *)
(* a token for stale (LocalExpiry), the server stops accepting one         *)
(* (ServerExpiry), in any order.                                           *)
(***************************************************************************)
EXTENDS Integers, FiniteSets

CONSTANTS
    Providers,     \* callers that blank CAPIX_API_KEY on a 401 (capix-provider.ts)
    OtherClients,  \* callers that do not (routing-client.ts, intelligence-client.ts)
    EnvKey,        \* did the launcher set CAPIX_API_KEY?
    Launcher,      \* does the launcher's IPC broker answer token.get?
    SecureStore,   \* ~sessionOnly
    MaxGrants,     \* bound: grants of the server
    MaxLogins,     \* bound: logins
    MaxLogouts     \* bound: logouts

VARIABLES
    broker,   \* fields of CredentialBroker, and process.env.CAPIX_API_KEY
    store,    \* the secure store: canonical and legacy account, and the used tokens that a
              \* failing read or delete left in it
    flight,   \* the _doRefresh in flight: the refresh token it sends and the grant it gets
    clients,  \* each caller's request
    logout,   \* the logout in flight
    server    \* the authorization server

brokerVars == <<broker, store, flight, clients, logout, server>>

Clients == Providers \cup OtherClients
NoToken == 0
Grants == 1..MaxGrants
TokenOrNone == Grants \cup {NoToken}
NoAccess == [token |-> NoToken, fresh |-> FALSE]
NoFlight == [at |-> "none", refresh |-> NoToken, grant |-> NoToken]
Fresh(t) == [token |-> t, fresh |-> TRUE]

\* The launcher starts the engine with a token it has just minted, or with none; a
\* refresh token lies in the store, perhaps under its old name.
BrokerStarts == IF SecureStore
                THEN {[canonical |-> 1, legacy |-> NoToken, left |-> {}],
                      [canonical |-> NoToken, legacy |-> 1, left |-> {}]}
                ELSE {[canonical |-> NoToken, legacy |-> NoToken, left |-> {}]}
BrokerBegins(starts) ==
    /\ broker = [env |-> IF EnvKey THEN 1 ELSE NoToken, access |-> NoAccess,
                 sessionRefresh |-> NoToken, lastSeen |-> NoToken, device |-> FALSE,
                 migrated |-> FALSE, login |-> 0, verifier |-> 0, code |-> 0]
    /\ store \in starts
    /\ flight = NoFlight
    /\ clients = [c \in Clients |-> [at |-> "idle", token |-> NoToken, refused |-> NoToken]]
    /\ logout = [at |-> "none", count |-> 0]
    /\ server = [minted |-> 1, live |-> {1}, used |-> {}, valid |-> {1}, lost |-> {}, replayed |-> {}]

BrokerInit == BrokerBegins(BrokerStarts)

Mint == server.minted + 1

Minted(live, used) ==
    [server EXCEPT !.minted = Mint, !.valid = @ \cup {Mint},
                   !.live = live \cup {Mint}, !.used = used]

-----------------------------------------------------------------------------
\* Storage, every operation of which may throw, which is logged only. loadRefreshToken prefers
\* the store; storeRefreshToken keeps the token in memory whatever the store does;
\* clearRefreshToken clears both.

\* The store when what a read or a delete found in it stays.
Left == [store EXCEPT !.left = @ \cup (server.used \cap {store.canonical})]

\* get gives what is there, or throws; then the token in memory is taken.
Loads(s, token) ==
    \/ /\ token = IF store.canonical # NoToken THEN store.canonical ELSE broker.sessionRefresh
       /\ s = store
    \/ SecureStore /\ token = broker.sessionRefresh /\ s = Left

\* The store after set(token): unchanged when it throws or is not there.
AfterSet(token) ==
    IF SecureStore THEN {store, [store EXCEPT !.canonical = token]} ELSE {store}

\* The store after delete.
AfterDelete ==
    IF SecureStore THEN {[store EXCEPT !.canonical = NoToken], Left} ELSE {store}

\* What logout and revokeDevice leave of the fields.
Forgotten ==
    [broker EXCEPT !.access = NoAccess, !.sessionRefresh = NoToken, !.lastSeen = NoToken,
                   !.device = FALSE]

-----------------------------------------------------------------------------
\* getAccessToken: CAPIX_API_KEY comes first. One that differs from the cached token is
\* taken for one that is good for 14 minutes.
Cache ==
    IF broker.env # NoToken /\ broker.access.token # broker.env
    THEN Fresh(broker.env) ELSE broker.access

\* Callers of refreshToken share the promise of the refresh in flight, or start one.
Join(c, stage, refused) ==
    /\ clients' = [clients EXCEPT ![c] = [at |-> stage, token |-> NoToken, refused |-> refused]]
    /\ flight' = IF flight.at = "none" THEN [flight EXCEPT !.at = "asking"] ELSE flight

Send(c, stage, token) ==
    clients' = [clients EXCEPT ![c].at = stage, ![c].token = token]

\* request / streamInference: the token is cached, or it has to be refreshed first.
Request(c) ==
    /\ clients[c].at = "idle"
    /\ broker' = [broker EXCEPT !.access = Cache]
    /\ IF Cache.fresh
       THEN Send(c, "sent", Cache.token) /\ UNCHANGED flight
       ELSE Join(c, "getting", NoToken)
    /\ UNCHANGED <<store, logout, server>>

Finish(c) == clients' = [clients EXCEPT ![c] = [at |-> "idle", token |-> NoToken, refused |-> NoToken]]

\* The gateway accepts the token, or the retry was refused as well.
Answered(c) ==
    /\ \/ clients[c].at \in {"sent", "resent"} /\ clients[c].token \in server.valid
       \/ clients[c].at = "resent" /\ clients[c].token \notin server.valid
    /\ Finish(c)
    /\ UNCHANGED <<broker, store, flight, logout, server>>

\* Mutant: the variable keeps its stale token.
UnauthorizedKeepingEnv(c) ==
    /\ clients[c].at = "sent"
    /\ clients[c].token \notin server.valid
    /\ Join(c, "renewing", clients[c].token)
    /\ UNCHANGED <<broker, store, logout, server>>

\* 401, for the first time: the provider blanks the variable; then refreshToken.
Unauthorized(c) ==
    /\ clients[c].at = "sent"
    /\ clients[c].token \notin server.valid
    /\ broker' = IF c \in Providers THEN [broker EXCEPT !.env = NoToken] ELSE broker
    /\ Join(c, "renewing", clients[c].token)
    /\ UNCHANGED <<store, logout, server>>

-----------------------------------------------------------------------------
\* _doRefresh.

Waiting == {c \in Clients : clients[c].at \in {"getting", "renewing"}}

\* The promise is settled and dropped. Success: b are the fields, and those who renew
\* call getAccessToken again, which may put the variable's token back.
Succeeds(b) ==
    LET again == IF b.env # NoToken /\ b.env # b.access.token THEN Fresh(b.env) ELSE b.access
        next(c) == CASE clients[c].at = "getting"  -> [clients[c] EXCEPT !.at = "sent", !.token = b.access.token]
                     [] clients[c].at = "renewing" -> [clients[c] EXCEPT !.at = "resent", !.token = again.token]
                     [] OTHER -> clients[c]
    IN  /\ clients' = [c \in Clients |-> next(c)]
        /\ broker' = IF \E c \in Waiting : clients[c].at = "renewing"
                     THEN [b EXCEPT !.access = again] ELSE b
        /\ flight' = NoFlight

Fails ==
    /\ clients' = [c \in Clients |->
                     IF c \in Waiting THEN [at |-> "idle", token |-> NoToken, refused |-> NoToken]
                     ELSE clients[c]]
    /\ flight' = NoFlight

\* getBrokerToken: the launcher refreshes for the engine, or does not answer. The
\* legacy migration is attempted once.
LauncherAnswers ==
    /\ flight.at = "asking"
    /\ \/ /\ Launcher /\ Mint \in Grants
          /\ server' = Minted(server.live, server.used)
          /\ Succeeds([broker EXCEPT !.access = Fresh(Mint)])
       \/ /\ flight' = [flight EXCEPT !.at = IF broker.migrated THEN "loading" ELSE "migrating"]
          /\ broker' = [broker EXCEPT !.migrated = TRUE]
          /\ UNCHANGED <<clients, server>>
    /\ UNCHANGED <<store, logout>>

\* migrateLegacyCredentials: the old account's token is copied, then deleted; when the copy
\* throws neither is done.
Migrate ==
    /\ flight.at = "migrating"
    /\ \/ store' = store
       \/ /\ SecureStore /\ store.legacy # NoToken
          /\ \E kept \in {NoToken, store.legacy} :
                 store' = [store EXCEPT !.canonical = store.legacy, !.legacy = kept]
    /\ flight' = [flight EXCEPT !.at = "loading"]
    /\ UNCHANGED <<broker, clients, logout, server>>

\* Mutant: a token that was rotated before is sent again.
LoadUnchecked ==
    /\ flight.at = "loading"
    /\ \E token \in TokenOrNone :
           /\ Loads(store', token)
           /\ IF token = NoToken THEN Fails
              ELSE flight' = [flight EXCEPT !.at = "sending", !.refresh = token] /\ UNCHANGED clients
    /\ UNCHANGED <<broker, logout, server>>

\* The refresh token is loaded: none; the one that was rotated last time (a reuse: the
\* device is revoked); or one to send.
Load ==
    /\ flight.at = "loading"
    /\ \E token \in TokenOrNone :
           /\ Loads(store', token)
           /\ CASE token = NoToken -> Fails
                [] token # NoToken /\ token = broker.lastSeen ->
                       IF broker.device
                       THEN flight' = [flight EXCEPT !.at = "revoking"] /\ UNCHANGED clients
                       ELSE Fails
                [] OTHER -> flight' = [flight EXCEPT !.at = "sending", !.refresh = token] /\ UNCHANGED clients
    /\ UNCHANGED <<broker, logout, server>>

\* revokeDevice: every grant of the device ends.
Revoke ==
    /\ flight.at = "revoking"
    /\ server' = [server EXCEPT !.live = {}, !.valid = {}]
    /\ broker' = Forgotten
    /\ store' \in AfterDelete
    /\ Fails
    /\ UNCHANGED logout

\* The token endpoint: a live token is rotated, a used one is a replay.
ServerRotates(answer) ==
    /\ flight.at = "sending"
    /\ flight.refresh \in server.live
    /\ Mint \in Grants
    /\ \/ /\ answer = "arrives"
          /\ server' = Minted(server.live \ {flight.refresh}, server.used \cup {flight.refresh})
          /\ flight' = [flight EXCEPT !.at = "storing", !.grant = Mint]
          /\ broker' = [broker EXCEPT !.lastSeen = flight.refresh, !.sessionRefresh = Mint]
          /\ UNCHANGED clients
       \/ /\ answer = "lost"
          /\ server' = [Minted(server.live \ {flight.refresh}, server.used \cup {flight.refresh})
                        EXCEPT !.lost = @ \cup {flight.refresh}]
          /\ Fails
          /\ UNCHANGED broker
    /\ UNCHANGED <<store, logout>>

\* 401: the refresh token is cleared. What came to the store meanwhile goes with it.
ServerRejects ==
    /\ flight.at = "sending"
    /\ flight.refresh \notin server.live
    /\ server' = [server EXCEPT !.replayed = @ \cup (server.used \cap {flight.refresh})]
    /\ broker' = [broker EXCEPT !.sessionRefresh = NoToken]
    /\ store' \in AfterDelete
    /\ Fails
    /\ UNCHANGED logout

\* Another status or no network: nothing is cleared.
RefreshFails ==
    /\ flight.at = "sending"
    /\ Fails
    /\ UNCHANGED <<broker, store, logout, server>>

\* storeRefreshToken returns; the access token of the grant is cached.
StoreRotated ==
    /\ flight.at = "storing"
    /\ store' \in AfterSet(flight.grant)
    /\ Succeeds([broker EXCEPT !.access = Fresh(flight.grant), !.device = TRUE])
    /\ UNCHANGED <<logout, server>>

-----------------------------------------------------------------------------
\* Login, by browser or with a project key.

\* login and the callback of its browser window: state and verifier are this login's.
Login ==
    /\ broker.login < MaxLogins
    /\ broker' = [broker EXCEPT !.login = @ + 1, !.verifier = broker.login + 1, !.code = 0]
    /\ UNCHANGED <<store, flight, clients, logout, server>>

\* submitAuthorizationCallback throws on a state that is not the latest login's.
SubmitCallback(state) ==
    /\ state = broker.login
    /\ broker.verifier # 0
    /\ broker' = [broker EXCEPT !.code = state]
    /\ UNCHANGED <<store, flight, clients, logout, server>>

\* exchangeCode: a new grant is stored and cached, whatever is being refreshed, ...
Exchange ==
    /\ broker.code # 0
    /\ broker.code = broker.verifier
    /\ Mint \in Grants
    /\ server' = Minted(server.live, server.used)
    /\ store' \in AfterSet(Mint)
    /\ broker' = [broker EXCEPT !.access = Fresh(Mint), !.sessionRefresh = Mint, !.device = TRUE,
                                !.verifier = 0, !.code = 0]
    /\ UNCHANGED <<flight, clients, logout>>

\* ... or the exchange fails and this login is over, as its redirect URI is dropped.
ExchangeFails ==
    /\ broker.code # 0
    /\ broker' = [broker EXCEPT !.verifier = 0, !.code = 0]
    /\ UNCHANGED <<store, flight, clients, logout, server>>

\* registerApiKey: a token for the session and no refresh token.
RegisterApiKey ==
    /\ broker.login < MaxLogins
    /\ Mint \in Grants
    /\ server' = [server EXCEPT !.minted = Mint, !.valid = @ \cup {Mint}]
    /\ broker' = [broker EXCEPT !.access = Fresh(Mint), !.login = @ + 1]
    /\ UNCHANGED <<store, flight, clients, logout>>

\* logout: the token is loaded and revoked, or the request fails.
LogoutLoads ==
    /\ logout.at = "none"
    /\ logout.count < MaxLogouts
    /\ logout' = [at |-> "ending", count |-> logout.count + 1]
    /\ \E token \in TokenOrNone :
           /\ Loads(store', token)
           /\ server' \in {server, [server EXCEPT !.live = @ \ {token}]}
    /\ UNCHANGED <<broker, flight, clients>>

\* The finally block: whatever the revocation said, all is cleared.
LogoutEnds ==
    /\ logout.at = "ending"
    /\ logout' = [logout EXCEPT !.at = "none"]
    /\ broker' = Forgotten
    /\ store' \in AfterDelete
    /\ UNCHANGED <<flight, clients, server>>

LocalExpiry ==
    /\ broker.access.fresh
    /\ broker' = [broker EXCEPT !.access.fresh = FALSE]
    /\ UNCHANGED <<store, flight, clients, logout, server>>

ServerExpiry(t) ==
    /\ t \in server.valid
    /\ server' = [server EXCEPT !.valid = @ \ {t}]
    /\ UNCHANGED <<broker, store, flight, clients, logout>>

BrokerNext ==
    \/ \E c \in Clients : Request(c) \/ Answered(c) \/ Unauthorized(c)
    \/ LauncherAnswers \/ Migrate \/ Load \/ Revoke \/ ServerRejects \/ RefreshFails \/ StoreRotated
    \/ \E answer \in {"arrives", "lost"} : ServerRotates(answer)
    \/ Login \/ Exchange \/ ExchangeFails \/ RegisterApiKey \/ LogoutLoads \/ LogoutEnds
    \/ \E state \in 1..MaxLogins : SubmitCallback(state)
    \/ LocalExpiry
    \/ \E t \in Grants : ServerExpiry(t)

BrokerSpec == BrokerInit /\ [][BrokerNext]_brokerVars

-----------------------------------------------------------------------------
(***************************************************************************)
(* Properties.                                                             *)
(***************************************************************************)

BrokerTypeOK ==
    /\ broker \in [env : TokenOrNone, access : [token : TokenOrNone, fresh : BOOLEAN],
                   sessionRefresh : TokenOrNone, lastSeen : TokenOrNone, device : BOOLEAN,
                   migrated : BOOLEAN, login : 0..MaxLogins, verifier : 0..MaxLogins,
                   code : 0..MaxLogins]
    /\ store \in [canonical : TokenOrNone, legacy : TokenOrNone, left : SUBSET Grants]
    /\ flight \in [at : {"none", "asking", "migrating", "loading", "revoking", "sending", "storing"},
                   refresh : TokenOrNone, grant : TokenOrNone]
    /\ clients \in [Clients -> [at : {"idle", "getting", "sent", "renewing", "resent"},
                                token : TokenOrNone, refused : TokenOrNone]]
    /\ logout \in [at : {"none", "ending"}, count : 0..MaxLogouts]
    /\ server \in [minted : Grants, live : SUBSET Grants, used : SUBSET Grants,
                   valid : SUBSET Grants, lost : SUBSET Grants, replayed : SUBSET Grants]

\* "refreshes exactly once on 401": the request that is sent again after the refresh
\* does not carry the token that was refused.
RetryIsFresh == \A c \in Clients : clients[c].at = "resent" => clients[c].token # clients[c].refused

\* The rotation is single-flight and checked for reuse: the server sees a refresh token twice
\* only if its first answer was lost or the store failed twice over it, keeping it when its
\* successor was written and when it was read or deleted, whoever refreshes, logs in or out.
NoReplay == server.replayed \subseteq server.lost \cup store.left
===============================================================================

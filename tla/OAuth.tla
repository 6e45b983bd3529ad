------------------------------- MODULE OAuth --------------------------------
(* The authorization codes of the connector: who gets one, how long and how  *)
(* often it is good, and for whom it yields a token. The codes live in       *)
(* memory; logins, keys and the signing secret change while a code is under  *)
(* way. Wrong passwords and refused attempts change nothing here (Attempts   *)
(* has their limits).                                                        *)
EXTENDS Naturals, Sequences

CONSTANTS
    OAgent, NoOAgent,
    ApiKey, KeyAgent,   \* KeyAgent[k]: whose key k is
    Cimd,               \* client_ids that are URLs of the vendor's origins
    Callback,           \* AllowedRedirectURIs
    Code,               \* random, none is minted twice
    Browser, Exchange,  \* login forms and token requests at work
    CodeTTL, SweepEach,
    OAuthMixes          \* for each behaviour: the codes, exchanges, clients and callbacks
                        \* it has, its clock's bound, what changes beside them

ASSUME OAuthAssumption ==
    /\ NoOAgent \notin OAgent /\ KeyAgent \in [ApiKey -> OAgent]
    /\ CodeTTL \in Nat /\ SweepEach \in Nat \ {0}
(* A registered client's id begins with "dcr.", which is no URL, and names    *)
(* of agents have no dot.                                                    *)
Dcr == [uris : SUBSET Callback \ {{}}, by : 0..1]
ASSUME ClientsAssumption ==
    /\ OAgent \intersect Dcr = {} /\ Cimd \intersect Dcr = {}
    /\ OAuthMixes \subseteq [clients : SUBSET (OAgent \union Cimd \union Dcr), codes : SUBSET Code,
                             exchanges : SUBSET Exchange, callbacks : SUBSET Callback,
                             clock : Nat, beside : SUBSET STRING]

VARIABLES
    oauthMix,
    oauthClock,
    secret,         \* the generation of mcp_oauth_bearer_secret
    members,        \* the agents there are, each with a password
    liveKeys,       \* the API keys not revoked
    store,          \* codeStore.codes
    lastSweep,
    login,          \* what each browser's verified login is about to mint
    exchange,       \* the named client's exchange whose secret is being checked
    minted,         \* what each code was minted for, and when
    given           \* the tokens each code has yielded
oauthVars == <<oauthMix, oauthClock, secret, members, liveKeys, store, lastSweep, login, exchange, minted, given>>

(* A registered client's id carries its callbacks and the secret that signed *)
(* it; nothing is stored, and it is one only while that secret is in use.    *)
Kind(client) ==
    IF client \in Cimd THEN "cimd" ELSE IF client \in Dcr /\ client.by = secret THEN "dcr" ELSE ""
AuthorizeOK(client, callback) == Kind(client) = "dcr" => callback \in client.uris

Nobody == [busy |-> FALSE]
Asked(client, callback, agent) == [client |-> client, callback |-> callback, agent |-> agent]

OAuthInit ==
    /\ oauthMix \in OAuthMixes
    /\ oauthClock = 0 /\ secret = 0
    /\ members = OAgent /\ liveKeys = ApiKey
    /\ store = {} /\ lastSweep = 0
    /\ login = [b \in Browser |-> Nobody] /\ exchange = [x \in Exchange |-> Nobody]
    /\ minted = [c \in Code |-> Nobody]
    /\ given = [c \in Code |-> <<>>]

ExpiredCode(e) == oauthClock > e.expiresAt
SweepDue == oauthClock - lastSweep >= SweepEach
Swept == IF SweepDue THEN oauthClock ELSE lastSweep
Mint(code, asked) ==
    /\ minted[code] = Nobody
    /\ store' = {e \in store : ~(SweepDue /\ ExpiredCode(e))}
                \union {[code |-> code, asked |-> asked, expiresAt |-> oauthClock + CodeTTL]}
    /\ lastSweep' = Swept
    /\ minted' = [minted EXCEPT ![code] = [busy |-> TRUE, asked |-> asked, at |-> oauthClock]]

(* authorizeGet, confirmed: an agent's own client_id, its secret comes later.*)
Connect(a, callback, code) ==
    /\ Kind(a) = "" /\ a \in members
    /\ Mint(code, Asked(a, callback, NoOAgent))
    /\ UNCHANGED <<oauthMix, oauthClock, secret, members, liveKeys, login, exchange, given>>

(* authorizePost: the password is verified, then the code minted.            *)
LogIn(b, client, callback, a) ==
    /\ login[b] = Nobody
    /\ Kind(client) # "" /\ AuthorizeOK(client, callback) /\ a \in members
    /\ login' = [login EXCEPT ![b] = [busy |-> TRUE, asked |-> Asked(client, callback, a)]]
    /\ UNCHANGED <<oauthMix, oauthClock, secret, members, liveKeys, store, lastSweep, exchange, minted, given>>
MintLogin(b, code) ==
    /\ login[b] # Nobody
    /\ Mint(code, login[b].asked)
    /\ login' = [login EXCEPT ![b] = Nobody]
    /\ UNCHANGED <<oauthMix, oauthClock, secret, members, liveKeys, exchange, given>>

Give(code, agent, shown) ==
    given' = [given EXCEPT ![code] = Append(@, [agent |-> agent, shown |-> shown])]

(* take: a presented code is gone, whatever follows.                         *)
(* Mutant: only an expired one.                                              *)
TakeExpired(code) == {e \in store : e.code = code => ~ExpiredCode(e)}
TakeCode(code) == {e \in store : e.code # code}
Fits(e, shown) ==
    shown.callback = e.asked.callback /\ shown.client = e.asked.client /\ shown.right
(* authorizationCode: a public client's token at once, for the agent in the  *)
(* code; a named one's after a look for its key, the code spent before.      *)
Present(x, code, shown) ==
    /\ exchange[x] = Nobody
    /\ store' = TakeCode(code)
    /\ LET good == {e \in store : e.code = code /\ ~ExpiredCode(e) /\ Fits(e, shown)}
       IN  IF \E e \in good : e.asked.agent # NoOAgent
           THEN /\ \E e \in good : Give(code, e.asked.agent, [shown EXCEPT !.at = oauthClock])
                /\ UNCHANGED exchange
           ELSE /\ exchange' = IF good = {} THEN exchange ELSE
                     [exchange EXCEPT ![x] = [busy |-> TRUE, code |-> code, shown |-> [shown EXCEPT !.at = oauthClock]]]
                /\ UNCHANGED given
    /\ UNCHANGED <<oauthMix, oauthClock, secret, members, liveKeys, lastSweep, login, minted>>
(* validateClient and issueToken: an unrevoked key of the client.            *)
KeyFound(shown) == shown.key \in liveKeys /\ shown.client \in members /\ KeyAgent[shown.key] = shown.client
Validate(x) ==
    /\ exchange[x] # Nobody
    /\ IF KeyFound(exchange[x].shown)
       THEN Give(exchange[x].code, exchange[x].shown.client, exchange[x].shown) ELSE UNCHANGED given
    /\ exchange' = [exchange EXCEPT ![x] = Nobody]
    /\ UNCHANGED <<oauthMix, oauthClock, secret, members, liveKeys, store, lastSweep, login, minted>>

(* What goes on beside: keys are revoked, agents deleted with theirs, the    *)
(* secret is changed, the server restarts and its codes are lost.            *)
Revoke(k) == k \in liveKeys /\ liveKeys' = liveKeys \ {k} /\ UNCHANGED <<members, secret, store, login, exchange>>
DeleteAgent(a) ==
    /\ a \in members /\ members' = members \ {a}
    /\ liveKeys' = {k \in liveKeys : KeyAgent[k] # a}
    /\ UNCHANGED <<secret, store, login, exchange>>
ChangeSecret == secret = 0 /\ secret' = 1 /\ UNCHANGED <<members, liveKeys, store, login, exchange>>
RestartServer ==
    /\ store # {} /\ store' = {}
    /\ login' = [b \in Browser |-> Nobody] /\ exchange' = [x \in Exchange |-> Nobody]
    /\ UNCHANGED <<members, liveKeys, secret>>
Beside ==
    /\ \/ "revoke" \in oauthMix.beside /\ \E k \in ApiKey : Revoke(k)
       \/ "delete" \in oauthMix.beside /\ \E a \in OAgent : DeleteAgent(a)
       \/ "secret" \in oauthMix.beside /\ ChangeSecret
       \/ "restart" \in oauthMix.beside /\ RestartServer
    /\ UNCHANGED <<oauthMix, oauthClock, lastSweep, minted, given>>
OAuthTick ==
    /\ oauthClock < oauthMix.clock /\ oauthClock' = oauthClock + 1
    /\ UNCHANGED <<oauthMix, secret, members, liveKeys, store, lastSweep, login, exchange, minted, given>>

Shown == [client : oauthMix.clients, callback : oauthMix.callbacks, right : BOOLEAN, key : ApiKey, at : {0}]
OAuthNext ==
    \/ \E callback \in oauthMix.callbacks, a \in OAgent :
         \/ \E code \in oauthMix.codes : a \in oauthMix.clients /\ Connect(a, callback, code)
         \/ \E b \in Browser, client \in oauthMix.clients : LogIn(b, client, callback, a)
    \/ \E b \in Browser, code \in oauthMix.codes : MintLogin(b, code)
    \/ \E x \in oauthMix.exchanges, code \in oauthMix.codes, shown \in Shown : Present(x, code, shown)
    \/ \E x \in oauthMix.exchanges : Validate(x)
    \/ Beside \/ OAuthTick
OAuthSpec == OAuthInit /\ [][OAuthNext]_oauthVars

-----------------------------------------------------------------------------
(* A code yields one token at most, in its time, to the request that shows   *)
(* what it was minted for, its verifier too: for the agent that logged in, or *)
(* for the client it names, with a key of that client's own.                 *)
GrantSound == \A code \in Code : \A i \in DOMAIN given[code] :
    LET token == given[code][i]
        asked == minted[code].asked
    IN  /\ Len(given[code]) = 1
        /\ token.shown.at <= minted[code].at + CodeTTL
        /\ token.shown.client = asked.client /\ token.shown.callback = asked.callback
        /\ asked.client \in Dcr => asked.callback \in asked.client.uris
        /\ token.shown.right
        /\ IF asked.agent # NoOAgent THEN token.agent = asked.agent
           ELSE token.agent = asked.client /\ KeyAgent[token.shown.key] = token.agent
(* No code stays in memory for an interval after its time while others are   *)
(* minted: the interval runs from the last sweep, however often one is asked.*)
StoreSwept == \A e \in store : \A code \in Code :
    minted[code] # Nobody => minted[code].at < e.expiresAt + SweepEach
CodesSound == GrantSound /\ StoreSwept
=============================================================================

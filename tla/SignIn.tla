------------------------------- MODULE SignIn --------------------------------
(***************************************************************************)
(* Authentication: OIDC discovery at start-up, the JWKS cache that every   *)
(* token validation reads (auth.rs), the browser login with its two flow   *)
(* cookies and the session cookie (routes/auth.rs), and the middleware.    *)
(* A validation is in several steps (read the cache, fetch the JWKS, write *)
(* the cache, read it again) and validations overlap; a callback is in     *)
(* several steps (cookies read, code exchanged, token validated, response  *)
(* delivered) and overlaps with logins in other tabs and with its own      *)
(* reloads.  The identity provider is external: it rotates its keys and    *)
(* redeems a code once, for the verifier its login named.                  *)
(***************************************************************************)
EXTENDS Integers, FiniteSets

CONSTANTS
    Flow,        \* bound: the logins started, a random nonce each
    Slot,        \* bound: validations that run at the same time
    MaxKid,      \* bound: signing keys the provider goes through
    MaxActivity, \* bound: logins started and requests being validated
    Attempts,    \* discovery attempts, 10 in the code
    Issued,      \* what can be wrong with a token the provider issues
    None

\* What can be wrong with a token: no key id, something decode refuses (the
\* algorithm, signature, audience, issuer, expiry), or the scope.
Defect == {"none", "no_kid", "invalid", "scope"}

ASSUME SignInAssumption ==
    /\ Issued \subseteq Defect
    /\ {MaxKid, MaxActivity, Attempts} \subseteq Nat \ {0}
    /\ None \notin Flow \cup Nat

VARIABLES
    server,     \* "discovering", "serving" or "exited"
    attempt,    \* the discovery attempt
    keys,       \* JwksCache.keys: the key ids it holds
    published,  \* the provider's JWKS
    kid,        \* the key the provider signs with
    checks,     \* the running validations
    cookies,    \* the browser's cookies: state, pkce and auth
    codes,      \* the provider's answer to each login
    spent,      \* codes redeemed
    callbacks   \* callback requests being handled

cacheVars == <<keys, checks>>
idpVars == <<published, kid, codes, spent>>
browserVars == <<cookies, callbacks>>
startup == <<server, attempt>>
vars == <<startup, cacheVars, idpVars, browserVars>>

Kid == 1 .. MaxKid
Token == [kid : Kid, defect : Defect]
Good(k) == [kid |-> k, defect |-> "none"]

Verdict == {"ok", "forbidden", "unauthorized"}
Free == [stage |-> "free"]
\* Who asks (the middleware, or the callback of a login), with which token.
Check ==
    {Free}
    \cup [stage : {"reading", "fetching", "rereading"},
          by : Flow \cup {None}, token : Token]
    \cup [stage : {"writing"}, by : Flow \cup {None}, token : Token,
          doc : SUBSET Kid]
    \cup [stage : {"done"}, by : Flow \cup {None}, token : Token,
          verdict : Verdict]
CodeState == {"idle", "asked", "code", "error", "neither"}
Callback ==
    [flow : Flow, verifier : Flow, token : Token \cup {None},
     stage : {"exchanging", "validating", "failed", "session"}]

TypeOK ==
    /\ server \in {"discovering", "serving", "exited"}
    /\ attempt \in 1 .. Attempts
    /\ keys \subseteq Kid /\ published \subseteq Kid /\ kid \in published
    /\ checks \in [Slot -> Check]
    /\ cookies \in [state : Flow \cup {None}, pkce : Flow \cup {None},
                    auth : Token \cup {None}]
    /\ codes \in [Flow -> CodeState] /\ spent \subseteq Flow
    /\ callbacks \subseteq Callback

-----------------------------------------------------------------------------
(* Start-up.                                                               *)

\* One attempt fails: another follows, or the server gives up.
DiscoverAgain ==
    IF attempt = Attempts THEN server' = "exited" /\ UNCHANGED attempt
    ELSE attempt' = attempt + 1 /\ UNCHANGED server

discover ==
    /\ server = "discovering"
    /\ \/ server' = "serving" /\ UNCHANGED attempt
       \/ DiscoverAgain
    /\ UNCHANGED <<cacheVars, idpVars, browserVars>>

-----------------------------------------------------------------------------
(* validate_jwt over the JWKS cache.                                       *)

\* The algorithm, decode with its audience, issuer, expiry and required
\* claims, and then the scope.
Decoded(token) ==
    IF token.defect = "scope" THEN "forbidden"
    ELSE IF token.defect = "none" THEN "ok" ELSE "unauthorized"

Finish(s, verdict) ==
    checks' = [checks EXCEPT ![s] =
        [stage |-> "done", by |-> @.by, token |-> @.token,
         verdict |-> verdict]]
Goto(s, stage) ==
    checks' = [checks EXCEPT ![s] =
        [stage |-> stage, by |-> @.by, token |-> @.token]]

\* Mutant: the middleware takes an unknown key for a bad token at once.
ReadOnlyCached(s) ==
    IF checks[s].token.kid \in keys
    THEN Finish(s, Decoded(checks[s].token)) ELSE Finish(s, "unauthorized")

\* JwksCache::get finds the key, or goes on to refresh.
ReadOrRefresh(s) ==
    IF checks[s].token.kid \in keys
    THEN Finish(s, Decoded(checks[s].token)) ELSE Goto(s, "fetching")

get(s) ==
    /\ checks[s].stage = "reading"
    /\ IF checks[s].token.defect = "no_kid" THEN Finish(s, "unauthorized")
       ELSE ReadOrRefresh(s)
    /\ UNCHANGED <<startup, keys, idpVars, browserVars>>

\* refresh: the provider answers with its keys of this moment.
refresh_fetch(s) ==
    /\ checks[s].stage = "fetching"
    /\ checks' = [checks EXCEPT ![s] =
             [stage |-> "writing", by |-> @.by, token |-> @.token,
              doc |-> published]]
    /\ UNCHANGED <<startup, keys, idpVars, browserVars>>

\* refresh fails: the key is unknown.
refresh_fails(s) ==
    /\ checks[s].stage = "fetching"
    /\ Finish(s, "unauthorized")
    /\ UNCHANGED <<startup, keys, idpVars, browserVars>>

\* refresh: the whole map is replaced.
refresh_write(s) ==
    /\ checks[s].stage = "writing"
    /\ keys' = checks[s].doc
    /\ Goto(s, "rereading")
    /\ UNCHANGED <<startup, idpVars, browserVars>>

\* The second read of get; another refresh may have written meanwhile.
get_again(s) ==
    /\ checks[s].stage = "rereading"
    /\ Finish(s, IF checks[s].token.kid \in keys
                 THEN Decoded(checks[s].token) ELSE "unauthorized")
    /\ UNCHANGED <<startup, keys, idpVars, browserVars>>

StartCheck(by, token) ==
    \E s \in Slot :
        /\ checks[s] = Free
        /\ checks' = [checks EXCEPT ![s] =
                [stage |-> "reading", by |-> by, token |-> token]]

\* Whether the bound allows another login or request.
Room ==
    Cardinality({f \in Flow : codes[f] # "idle"})
        + Cardinality({s \in Slot : checks[s] # Free /\ checks[s].by = None})
        < MaxActivity

\* auth_middleware: the bearer token or, without one, the session cookie.  A
\* request with neither is refused without a validation.
auth_middleware(bearer) ==
    /\ server = "serving" /\ Room
    /\ bearer # None => bearer.kid <= kid
    /\ LET token == IF bearer # None THEN bearer ELSE cookies.auth
       IN  token # None /\ StartCheck(None, token)
    /\ UNCHANGED <<startup, keys, idpVars, browserVars>>

\* The request goes on with its claims, or is answered 401 or 403.
answer_request(s) ==
    /\ checks[s].stage = "done" /\ checks[s].by = None
    /\ checks' = [checks EXCEPT ![s] = Free]
    /\ UNCHANGED <<startup, keys, idpVars, browserVars>>

-----------------------------------------------------------------------------
(* The provider.                                                           *)

\* A new signing key; the old one stays in the JWKS for a while or not.
rotate(keep) ==
    /\ kid < MaxKid
    /\ kid' = kid + 1
    /\ published' = IF keep THEN {kid, kid + 1} ELSE {kid + 1}
    /\ UNCHANGED <<startup, cacheVars, codes, spent, browserVars>>

\* The user is sent back to the callback, with a code, an error or neither.
idp_redirects(f, answer) ==
    /\ codes[f] = "asked"
    /\ codes' = [codes EXCEPT ![f] = answer]
    /\ UNCHANGED <<startup, cacheVars, published, kid, spent, browserVars>>

-----------------------------------------------------------------------------
(* The login flow.                                                         *)

\* Mutant: a second login keeps the verifier of the first.
NewFlowCookies_KeepVerifier(f) ==
    [cookies EXCEPT !.state = f, !.pkce = IF @ = None THEN f ELSE @]

\* Both flow cookies are set by one response.
NewFlowCookies(f) == [cookies EXCEPT !.state = f, !.pkce = f]
clear_flow_cookies == [cookies EXCEPT !.state = None, !.pkce = None]

login(f) ==
    /\ server = "serving" /\ Room /\ codes[f] = "idle"
    /\ cookies' = NewFlowCookies(f)
    /\ codes' = [codes EXCEPT ![f] = "asked"]
    /\ UNCHANGED <<startup, cacheVars, published, kid, spent, callbacks>>

AddCallback(f, verifier, stage) ==
    callbacks' = callbacks \cup
        {[flow |-> f, verifier |-> verifier, stage |-> stage, token |-> None]}

\* The callback's URL is loaded, perhaps not for the first time.  Without the
\* state cookie of this login nothing happens.
callback(f) ==
    /\ server = "serving" /\ codes[f] \in {"code", "error", "neither"}
    /\ cookies.state = f
    /\ IF codes[f] = "code" /\ cookies.pkce # None
       THEN AddCallback(f, cookies.pkce, "exchanging")
       ELSE AddCallback(f, f, "failed")
    /\ UNCHANGED <<startup, cacheVars, idpVars, cookies>>

Becomes(c, stage, token) ==
    callbacks' = (callbacks \ {c}) \cup
        {[flow |-> c.flow, verifier |-> c.verifier, stage |-> stage,
          token |-> token]}

\* exchange_code: the provider redeems a code once and for its verifier, or
\* the request fails, before or after the provider redeemed the code.
exchange_code(c, reached) ==
    /\ c.stage = "exchanging"
    /\ LET redeemed == reached /\ c.flow \notin spent /\ c.verifier = c.flow
       IN  /\ spent' = IF redeemed THEN spent \cup {c.flow} ELSE spent
           /\ \/ /\ redeemed
                 /\ \E defect \in Issued :
                      LET token == [kid |-> kid, defect |-> defect]
                      IN  /\ Becomes(c, "validating", token)
                          /\ StartCheck(c.flow, token)
              \/ /\ Becomes(c, "failed", None)
                 /\ UNCHANGED checks
    /\ UNCHANGED <<startup, keys, published, kid, codes, cookies>>

\* The issued token is accepted, or the flow is aborted.
callback_validated(c, s) ==
    /\ c.stage = "validating"
    /\ checks[s].stage = "done" /\ checks[s].by = c.flow
    /\ checks' = [checks EXCEPT ![s] = Free]
    /\ IF checks[s].verdict = "ok" THEN Becomes(c, "session", c.token)
       ELSE Becomes(c, "failed", None)
    /\ UNCHANGED <<startup, keys, idpVars, cookies>>

\* The response reaches the browser; a failure is abort_flow's.
callback_answered(c) ==
    /\ c.stage \in {"failed", "session"}
    /\ callbacks' = callbacks \ {c}
    /\ cookies' = [clear_flow_cookies EXCEPT
            !.auth = IF c.stage = "session" THEN c.token ELSE @]
    /\ UNCHANGED <<startup, cacheVars, idpVars>>

\* logout, or the end of the session cookie's Max-Age.
logout ==
    /\ cookies.auth # None
    /\ cookies' = [cookies EXCEPT !.auth = None]
    /\ UNCHANGED <<startup, cacheVars, idpVars, callbacks>>

\* The flow cookies were set together and have the same Max-Age.
flow_cookies_expire ==
    /\ cookies.state # None \/ cookies.pkce # None
    /\ cookies' = clear_flow_cookies
    /\ UNCHANGED <<startup, cacheVars, idpVars, callbacks>>

-----------------------------------------------------------------------------
Init ==
    /\ server = "discovering" /\ attempt = 1
    /\ keys = {}
    /\ published = {1} /\ kid = 1
    /\ checks = [s \in Slot |-> Free]
    /\ cookies = [state |-> None, pkce |-> None, auth |-> None]
    /\ codes = [f \in Flow |-> "idle"] /\ spent = {}
    /\ callbacks = {}


Next ==
    \/ discover
    \/ \E s \in Slot : get(s)
    \/ \E s \in Slot : refresh_fetch(s)
    \/ \E s \in Slot : refresh_fails(s)
    \/ \E s \in Slot : refresh_write(s)
    \/ \E s \in Slot : get_again(s)
    \/ \E bearer \in Token \cup {None} : auth_middleware(bearer)
    \/ \E s \in Slot : answer_request(s)
    \/ \E keep \in BOOLEAN : rotate(keep)
    \/ \E f \in Flow, answer \in {"code", "error", "neither"} :
            idp_redirects(f, answer)
    \/ \E f \in Flow : login(f)
    \/ \E f \in Flow : callback(f)
    \/ \E c \in callbacks, reached \in BOOLEAN : exchange_code(c, reached)
    \/ \E c \in callbacks, s \in Slot : callback_validated(c, s)
    \/ \E c \in callbacks : callback_answered(c)
    \/ logout
    \/ flow_cookies_expire

Spec == Init /\ [][Next]_vars

\* The server runs its tasks to their end; the provider's JWKS is not out of
\* reach for ever.
LiveSpec ==
    /\ Spec
    /\ WF_vars(discover)
    /\ \A s \in Slot :
          /\ WF_vars(get(s)) /\ WF_vars(refresh_write(s))
          /\ WF_vars(get_again(s)) /\ WF_vars(answer_request(s))
          /\ SF_vars(refresh_fetch(s))

-----------------------------------------------------------------------------
(* Properties.                                                             *)

\* With logins in several tabs, reloaded callbacks and cookies cleared or
\* expired in between, the code of a login is only ever exchanged with the
\* verifier of the same login (login sets state and pkce together, callback
\* reads both before its first await).
FlowsAreNotCrossed == \A c \in callbacks : c.verifier = c.flow

\* A session is only ever a token that a validation accepted, also when the
\* login's callback is loaded again or overlaps with other logins and
\* requests (callback writes the session cookie after validate_jwt).
SessionsAreValidated ==
    /\ cookies.auth # None => cookies.auth.defect = "none"
    /\ \A c \in callbacks : c.stage = "session" => c.token.defect = "none"

\* Cookies, callbacks and key cache are typed, no login's code is exchanged
\* with another's verifier, and a session's token was accepted.
LoginsAreSound == TypeOK /\ FlowsAreNotCrossed /\ SessionsAreValidated

\* After the provider has rotated its keys, overlapping refreshes may write
\* an older JWKS over a newer one, but requests with the current key do not
\* stay refused: the cache ends up holding it (JwksCache::get refreshes on
\* every miss).
KeysRecover ==
    []<><<auth_middleware(Good(kid))>>_vars => <>[](kid \in keys)

\* routes/auth.rs, callback: only a request that proves knowledge of the
\* state nonce ends that flow.
EndsOnlyItsOwnFlow ==
    [][\A c \in callbacks :
          callback_answered(c) => cookies.state \in {None, c.flow}]_vars
=============================================================================

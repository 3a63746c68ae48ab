------------------------------- MODULE OAuth -------------------------------
(***************************************************************************)
(* How a client gets at the owner's account, and loses it again:           *)
(*                                                                         *)
(*   - the owner logs in through GitHub and holds a signed session         *)
(*     (auth/oauth.rs, auth/session.rs; nothing is kept on the server);    *)
(*   - an application is registered, shows the consent page, and gets an   *)
(*     authorization code if the owner approves (api/mastodon/apps.rs);    *)
(*   - it exchanges the code for a token, uses the token (the middleware   *)
(*     of auth/middleware.rs), and revokes it;                             *)
(*   - at each start the server hashes what tokens it finds in plain text  *)
(*     (data/database.rs).                                                 *)
(*                                                                         *)
(* Each statement is one step; the rows of oauth_apps are never changed,   *)
(* so reading one is part of the step that follows.  A token is named by   *)
(* the exchange that makes it, and scopes are sets of words.               *)
(***************************************************************************)
EXTENDS Naturals

CONSTANTS
    Logins,         \* values of the CSRF state of a GitHub login
    Apps, Uris,     \* applications and redirect URIs
    Pages,          \* consent pages, each with its confirm token
    Codes,          \* authorization codes
    Exchanges,      \* requests to /oauth/token, and the tokens they make
    Legacy,         \* those that may be older than the hashing of tokens
    Calls,          \* requests to the API
    AppScopes,      \* the scopes an application registers
    AppUris,        \* the redirect URIs it registers
    Asks,           \* the scope parameters of requests, {} when there is none
    Endpoints,      \* the endpoints that are called
    CodeTTL, TokenTTL, SessionTTL, MaxTime,
    Modes,          \* what may happen in a run: "faults", "logins"
    Owner, Other,   \* GitHub users: the one that is configured, and another
    None

(* Unprefixed and prefixed scopes: "read" grants all that begin "read:".   *)
Reads == {"read:accounts", "read:statuses", "read:notifications",
          "read:lists", "read:filters", "read:search"}
Writes == {"write:accounts", "write:statuses", "write:favourites",
           "write:notifications", "write:media", "write:lists",
           "write:filters"}
Scopes == Reads \cup Writes \cup {"follow", "read", "write"}

(* The endpoints of the API, one for all the routes that need one scope.   *)
(* "unmapped" is a route the table of the middleware does not list.        *)
AllEndpoints == Reads \cup Writes \cup {"follow", "admin", "unmapped", "verify"}

ASSUME ConstantsAssumption ==
    /\ AppScopes \in [Apps -> SUBSET Scopes]
    /\ AppUris \in [Apps -> SUBSET Uris]
    /\ Asks \subseteq SUBSET Scopes
    /\ Endpoints \subseteq AllEndpoints
    /\ Legacy \subseteq Exchanges
    /\ {CodeTTL, TokenTTL, SessionTTL, MaxTime} \subseteq Nat
    /\ Owner # Other
    /\ None \notin Logins \cup Apps \cup Pages \cup Codes \cup Exchanges
    /\ None \notin {Owner, Other}
    /\ Modes \subseteq SUBSET {"faults", "logins"}

VARIABLES
    mode,           \* "faults": statements fail and the server stops;
                    \* "logins": the owner logs in and out, and is logged
                    \* in from the start otherwise
    now,
    up,             \* the server runs
    (* the database *)
    registered,     \* oauth_apps
    issued,         \* what each code was issued for; the row while ...
    codes,          \* ... it is in oauth_authorization_codes
    tokens,         \* oauth_tokens
    migrated,       \* the setting of the token migration is "done"
    (* the owner's browser *)
    login,          \* the callbacks of GitHub logins
    csrf,           \* the cookie oauth_state
    sessions,       \* session tokens of the owner's browser and clients
    shown,          \* consent pages that were shown
    jar,            \* confirm cookies
    (* requests *)
    exch, call,
    (* history *)
    approved,       \* what the request that got a code said, and whose it was
    known,          \* tokens whose clients have them
    told,           \* tokens whose clients know that they are revoked
    wasted          \* codes spent by a request that asked for too much

browserVars == <<login, csrf, sessions, shown, jar, approved>>
codeVars    == <<issued, codes>>
requestVars == <<exch, call>>
historyVars == <<known, told, wasted>>

vars == <<mode, now, up, registered, issued, codes, tokens, migrated,
          login, csrf, sessions, shown, jar, exch, call,
          approved, known, told, wasted>>

Idle == [pc |-> "idle", grant |-> "code", app |-> None, code |-> None,
         uri |-> None, ask |-> {}, scopes |-> {}, at |-> 0, right |-> FALSE]

NoCall == [pc |-> "idle", by |-> None, endpoint |-> "unmapped"]

Exchange == [pc : {"idle", "select", "purge", "consume", "insert"},
             grant : {"code", "client"}, app : Apps \cup {None},
             code : Codes \cup {None}, uri : Uris \cup {None},
             ask : SUBSET Scopes, scopes : SUBSET Scopes,
             at : Nat, right : BOOLEAN]

Token == [app : Apps \cup {None}, grant : {"code", "client"},
          code : Codes \cup {None}, scopes : SUBSET Scopes, expires : Nat,
          revoked : BOOLEAN, form : {"plain", "hashed", "twice"}]

Session == [user : {Owner, Other}, expires : Nat]

Consent == [user : {Owner, Other}, app : Apps, scopes : SUBSET Scopes]

Code == [app : Apps, uri : Uris, scopes : SUBSET Scopes, expires : Nat]

ASSUME NoneAssumption ==
    /\ None \notin Token \cup Consent \cup Code \cup {"session"}
    /\ "session" \notin Exchanges

TypeOK ==
    /\ mode \in Modes /\ up \in BOOLEAN /\ migrated \in BOOLEAN
    /\ now \in Nat
    /\ registered \subseteq Apps
    /\ issued \in [Codes -> Code \cup {None}]
    /\ codes \subseteq {c \in Codes : issued[c] # None}
    /\ tokens \in [Exchanges -> Token \cup {None}]
    /\ login \in [Logins -> {"none", "away", "exchange", "fetch"}]
    /\ csrf \in Logins \cup {None}
    /\ sessions \subseteq Session
    /\ shown \subseteq Pages
    /\ jar \subseteq shown
    /\ exch \in [Exchanges -> Exchange]
    /\ call \in [Calls -> [pc : {"idle", "run", "named"},
                           by : Exchanges \cup {"session", None},
                           endpoint : AllEndpoints]]
    /\ approved \in [Codes -> Consent \cup {None}]
    /\ known \subseteq Exchanges /\ told \subseteq Exchanges
    /\ wasted \subseteq Codes

(* A token of the time before hashing: the SQL migrations revoke and       *)
(* expire it, the row stays.                                               *)
LegacyToken == [app |-> None, grant |-> "client", code |-> None,
                scopes |-> {}, expires |-> 0, revoked |-> TRUE,
                form |-> "plain"]

Init ==
    /\ mode \in Modes
    /\ now = 0
    /\ up = FALSE
    /\ registered = {}
    /\ issued = [c \in Codes |-> None]
    /\ codes = {}
    /\ \E old \in SUBSET Legacy :
          tokens = [x \in Exchanges |-> IF x \in old THEN LegacyToken ELSE None]
    /\ migrated = FALSE
    /\ login = [l \in Logins |-> "none"]
    /\ csrf = None
    /\ sessions = IF "logins" \in mode THEN {}
                  ELSE {[user |-> Owner, expires |-> MaxTime]}
    /\ shown = {}
    /\ jar = {}
    /\ exch = [x \in Exchanges |-> Idle]
    /\ call = [k \in Calls |-> NoCall]
    /\ approved = [c \in Codes |-> None]
    /\ known = {} /\ told = {} /\ wasted = {}

-----------------------------------------------------------------------------
(* Start, stop and the clock                                               *)

(* With a bug: the migration hashes every row it finds.                    *)
HashEvery(t) ==
    [t EXCEPT !.form = IF t.form = "plain" THEN "hashed" ELSE "twice"]

(* The migration hashes a row unless it has the form of a hash.            *)
Hash(t) == IF t.form = "plain" THEN [t EXCEPT !.form = "hashed"] ELSE t

(* The server starts: unless the setting says that it is done, the rows    *)
(* are hashed and the setting written in one transaction.  An empty table  *)
(* leaves the setting alone.                                               *)
Start ==
    LET Stored == {x \in Exchanges : tokens[x] # None}
    IN  /\ ~up
        /\ up' = TRUE
        /\ IF migrated \/ Stored = {}
           THEN UNCHANGED <<tokens, migrated>>
           ELSE /\ tokens' = [x \in Exchanges |->
                                IF x \in Stored THEN Hash(tokens[x]) ELSE None]
                /\ migrated' = TRUE
        /\ UNCHANGED <<mode, now, registered, codeVars, browserVars,
                       requestVars, historyVars>>

(* The server stops, and with it every request.                            *)
Stop ==
    /\ "faults" \in mode /\ up
    /\ up' = FALSE
    /\ exch' = [x \in Exchanges |-> Idle]
    /\ call' = [k \in Calls |-> NoCall]
    /\ login' = [l \in Logins |-> IF login[l] \in {"exchange", "fetch"}
                                  THEN "none" ELSE login[l]]
    /\ UNCHANGED <<mode, now, registered, codeVars, tokens, migrated, csrf,
                   sessions, shown, jar, approved, historyVars>>

Tick ==
    /\ now < MaxTime
    /\ now' = now + 1
    /\ UNCHANGED <<mode, up, registered, codeVars, tokens, migrated,
                   browserVars, requestVars, historyVars>>

-----------------------------------------------------------------------------
(* The owner's session                                                     *)

(* github_redirect: the state of the login goes into the one cookie there  *)
(* is, also when another tab has a login under way.                        *)
GithubRedirect(l) ==
    /\ up /\ "logins" \in mode
    /\ login[l] = "none"
    /\ login' = [login EXCEPT ![l] = "away"]
    /\ csrf' = l
    /\ UNCHANGED <<mode, now, up, registered, codeVars, tokens, migrated,
                   sessions, shown, jar, approved, requestVars, historyVars>>

(* github_callback: a state that is not the cookie's is refused; else the  *)
(* code is exchanged and the user fetched.                                 *)
Callback(l) ==
    /\ up /\ login[l] = "away"
    /\ login' = [login EXCEPT ![l] = IF csrf = l THEN "exchange" ELSE "none"]
    /\ UNCHANGED <<mode, now, up, registered, codeVars, tokens, migrated,
                   csrf, sessions, shown, jar, approved, requestVars,
                   historyVars>>

(* exchange_github_code: GitHub takes the code or refuses it.              *)
Exchanged(l) ==
    /\ up /\ login[l] = "exchange"
    /\ \E answer \in {"fetch", "none"} : login' = [login EXCEPT ![l] = answer]
    /\ UNCHANGED <<mode, now, up, registered, codeVars, tokens, migrated,
                   csrf, sessions, shown, jar, approved, requestVars,
                   historyVars>>

(* Only the configured user is let in.                                     *)
LetsIn(user) == user = Owner

(* create_session_token *)
SessionFor(user) == [user |-> user, expires |-> now + SessionTTL]

(* github_callback, when fetch_github_user has named a user: the session   *)
(* and the cleared state come with the response.                           *)
Fetched(l, user) ==
    /\ up /\ login[l] = "fetch"
    /\ login' = [login EXCEPT ![l] = "none"]
    /\ IF LetsIn(user)
       THEN /\ sessions' = sessions \cup {SessionFor(user)}
            /\ csrf' = None
       ELSE UNCHANGED <<sessions, csrf>>
    /\ UNCHANGED <<mode, now, up, registered, codeVars, tokens, migrated,
                   shown, jar, approved, requestVars, historyVars>>

(* logout clears the cookies of the browser.  The server keeps no sessions *)
(* to end: who has the token goes on using it as a bearer.                 *)
Logout ==
    /\ up /\ "logins" \in mode
    /\ csrf' = None
    /\ UNCHANGED <<mode, now, up, registered, codeVars, tokens, migrated,
                   login, sessions, shown, jar, approved, requestVars,
                   historyVars>>

(* verify_session_token: the signature is the server's, and the session    *)
(* has not expired.                                                        *)
IsValid(session) == now <= session.expires

(* require_session_auth: a request has a session, as cookie or bearer.     *)
HasSession == \E session \in sessions : IsValid(session)

-----------------------------------------------------------------------------
(* Applications and consent                                                *)

(* create_app *)
Register(a) ==
    /\ up /\ a \notin registered
    /\ registered' = registered \cup {a}
    /\ UNCHANGED <<mode, now, up, codeVars, tokens, migrated, browserVars,
                   requestVars, historyVars>>

(* get_oauth_app_by_client_id *)
IsRegistered(a) == a \in registered

(* scopes_are_subset *)
Within(scopes, allowed) == scopes \subseteq allowed

(* A request without scopes asks for all there are to be had.              *)
Asked(ask, default) == IF ask = {} THEN default ELSE ask

(* validate_authorize_request *)
Consentable(a, u, s) ==
    /\ IsRegistered(a)
    /\ u \in AppUris[a]
    /\ Within(s, AppScopes[a])

(* authorize without a confirm token shows the page and sets its cookie.   *)
(* Neither the cookie nor the token says what the page was about.          *)
Show(p, a, u, ask) ==
    /\ up /\ HasSession
    /\ p \notin shown
    /\ Consentable(a, u, Asked(ask, AppScopes[a]))
    /\ shown' = shown \cup {p}
    /\ jar' = jar \cup {p}
    /\ UNCHANGED <<mode, now, up, registered, codeVars, tokens, migrated,
                   login, csrf, sessions, approved, requestVars, historyVars>>

(* authorize with the confirm token of a page, whose cookie must be there: *)
(* a denial and an approval both take the cookie away, if the answer gets  *)
(* there.  The request is judged by its own application, URI and scopes,   *)
(* which a browser copies from the page's form.                            *)
Deny(p) ==
    /\ up /\ HasSession
    /\ p \in jar
    /\ jar' = jar \ {p}
    /\ UNCHANGED <<mode, now, up, registered, codeVars, tokens, migrated,
                   login, csrf, sessions, shown, approved, requestVars,
                   historyVars>>

(* With a bug: a code carries all the scopes its application registered.   *)
CodeRowOfApp(a, u, s) == [app |-> a, uri |-> u, scopes |-> s \cup AppScopes[a],
                          expires |-> now + CodeTTL]

(* issue_authorization_code stores a fresh code.                           *)
CodeRow(a, u, s) == [app |-> a, uri |-> u, scopes |-> s,
                     expires |-> now + CodeTTL]

Approve(p, session, a, u, ask, c) ==
    LET s == Asked(ask, AppScopes[a])
    IN  /\ up /\ session \in sessions /\ IsValid(session)
        /\ p \in jar
        /\ Consentable(a, u, s)
        /\ issued[c] = None
        /\ issued' = [issued EXCEPT ![c] = CodeRow(a, u, s)]
        /\ codes' = codes \cup {c}
        /\ approved' = [approved EXCEPT ![c] =
                            [user |-> session.user, app |-> a, scopes |-> s]]
        /\ \/ jar' = jar \ {p}
           \/ "faults" \in mode /\ jar' = jar
        /\ UNCHANGED <<mode, now, up, registered, tokens, migrated, login,
                       csrf, sessions, shown, requestVars, historyVars>>

-----------------------------------------------------------------------------
(* create_token                                                            *)

exchangeUnchanged == <<mode, now, up, registered, migrated, issued,
                       browserVars, call, told>>

(* Which requests are right: the code is there, was issued to this         *)
(* application and URI, has not expired, and covers what is asked.         *)
Right(a, c, u, ask) ==
    /\ c \in codes
    /\ issued[c].app = a /\ issued[c].uri = u
    /\ now < issued[c].expires
    /\ ask \subseteq issued[c].scopes

(* The authorization_code grant: the client is known and its secret right. *)
BeginCode(x, a, c, u, ask) ==
    /\ up /\ a \in registered
    /\ exch[x] = Idle /\ tokens[x] = None
    /\ exch' = [exch EXCEPT ![x] =
                    [pc |-> "select", grant |-> "code", app |-> a, code |-> c,
                     uri |-> u, ask |-> ask, scopes |-> {}, at |-> now,
                     right |-> Right(a, c, u, ask)]]
    /\ UNCHANGED <<exchangeUnchanged, codes, tokens, known, wasted>>

(* The client_credentials grant needs no code.                             *)
BeginClient(x, a, ask) ==
    LET s == Asked(ask, AppScopes[a])
    IN  /\ up /\ a \in registered
        /\ exch[x] = Idle /\ tokens[x] = None
        /\ s \subseteq AppScopes[a]
        /\ exch' = [exch EXCEPT ![x] = [Idle EXCEPT !.pc = "insert",
                                            !.grant = "client", !.app = a,
                                            !.scopes = s]]
        /\ UNCHANGED <<exchangeUnchanged, codes, tokens, known, wasted>>

(* With a bug: a code is taken as expired one step early.                  *)
ExpiredEarly(row, e) == row.expires <= e.at + 1

(* A code ends at the instant it expires.                                  *)
Expired(row, e) == row.expires <= e.at

(* A code is bound to its application and URI.                             *)
BoundTo(row, e) == row.app = e.app /\ row.uri = e.uri

(* consume_oauth_authorization_code reads the row; expired is judged by    *)
(* the time the request took before.                                       *)
Select(x) ==
    LET e == exch[x]
        row == issued[e.code]
    IN  /\ e.pc = "select"
        /\ exch' = [exch EXCEPT ![x] =
                        IF e.code \notin codes THEN Idle
                        ELSE IF Expired(row, e) THEN [e EXCEPT !.pc = "purge"]
                        ELSE IF ~BoundTo(row, e) THEN Idle
                        ELSE [e EXCEPT !.pc = "consume"]]
        /\ UNCHANGED <<exchangeUnchanged, codes, tokens, known, wasted>>

Purge(x) ==
    /\ exch[x].pc = "purge"
    /\ codes' = codes \ {exch[x].code}
    /\ exch' = [exch EXCEPT ![x] = Idle]
    /\ UNCHANGED <<exchangeUnchanged, tokens, known, wasted>>

(* With a bug: the request goes on whether its DELETE met the row or not.  *)
TookAlways(e) == e.code # None

(* The DELETE says whether the row was still there.                        *)
Took(e) == e.code \in codes

(* The row is deleted; the scopes are looked at only then.                 *)
Consume(x) ==
    LET e == exch[x]
        s == Asked(e.ask, issued[e.code].scopes)
        Fits == Within(s, issued[e.code].scopes) /\ Within(s, AppScopes[e.app])
    IN  /\ e.pc = "consume"
        /\ codes' = codes \ {e.code}
        /\ exch' = [exch EXCEPT ![x] = IF Took(e) /\ Fits
                                       THEN [e EXCEPT !.pc = "insert",
                                                      !.scopes = s]
                                       ELSE Idle]
        /\ wasted' = IF Took(e) /\ ~Fits THEN wasted \cup {e.code} ELSE wasted
        /\ UNCHANGED <<exchangeUnchanged, tokens, known>>

(* insert_oauth_token stores the hash.                                     *)
TokenRow(e) == [app |-> e.app, grant |-> e.grant, code |-> e.code,
                scopes |-> e.scopes, expires |-> now + TokenTTL,
                revoked |-> FALSE, form |-> "hashed"]

(* The token is stored, and handed out in an answer that may get lost.     *)
Insert(x) ==
    LET e == exch[x]
    IN  /\ e.pc = "insert"
        /\ tokens' = [tokens EXCEPT ![x] = TokenRow(e)]
        /\ exch' = [exch EXCEPT ![x] = Idle]
        /\ \/ known' = known \cup {x}
           \/ "faults" \in mode /\ known' = known
        /\ UNCHANGED <<exchangeUnchanged, codes, wasted>>

(* A statement fails, or the client goes away and the request is dropped.  *)
Fail(x) ==
    /\ "faults" \in mode
    /\ exch[x] # Idle
    /\ exch' = [exch EXCEPT ![x] = Idle]
    /\ UNCHANGED <<exchangeUnchanged, codes, tokens, known, wasted>>

-----------------------------------------------------------------------------
(* Using a token and giving it up                                          *)

(* A row is found by the hash of the token that is presented.              *)
Matches(t) == t.form = "hashed"

(* With a bug: revoked is not asked.                                       *)
FoundRevoked(x) ==
    /\ tokens[x] # None
    /\ Matches(tokens[x])
    /\ now < tokens[x].expires

(* get_oauth_token *)
Found(x) ==
    /\ tokens[x] # None
    /\ Matches(tokens[x])
    /\ ~tokens[x].revoked
    /\ now < tokens[x].expires

(* required_oauth_scopes: the scope of an endpoint, none for one that is   *)
(* the session's alone or that the table does not list: both are refused.  *)
Required(e) ==
    CASE e \in Reads \cup Writes \cup {"follow"} -> {e}
      [] e = "verify" -> {"read:accounts"}
      [] OTHER -> {}

(* scope_grants *)
Covers(scopes, s) == \/ s \in scopes
                     \/ s \in Reads /\ "read" \in scopes
                     \/ s \in Writes /\ "write" \in scopes

(* has_required_scope *)
Grants(scopes, e) ==
    \E s \in Required(e) : Covers(scopes, s)

(* require_auth, with a token: it was bought with a code and its scopes    *)
(* grant the endpoint.                                                     *)
Admits(x, e) ==
    /\ Found(x)
    /\ tokens[x].grant = "code"
    /\ Grants(tokens[x].scopes, e)

CallWithToken(k, x, e) ==
    /\ up /\ call[k] = NoCall
    /\ x \in known
    /\ Admits(x, e)
    /\ call' = [call EXCEPT ![k] = [pc |-> "run", by |-> x, endpoint |-> e]]
    /\ UNCHANGED <<mode, now, up, registered, codeVars, tokens, migrated,
                   browserVars, exch, historyVars>>

(* require_auth and require_session_auth, with a session.                  *)
CallWithSession(k, e) ==
    /\ up /\ call[k] = NoCall
    /\ HasSession
    /\ call' = [call EXCEPT ![k] = [pc |-> "run", by |-> "session",
                                    endpoint |-> e]]
    /\ UNCHANGED <<mode, now, up, registered, codeVars, tokens, migrated,
                   browserVars, exch, historyVars>>

(* verify_app_credentials looks the token up again, and names its          *)
(* application; a token that is gone by then is no session either.         *)
Name(k) ==
    /\ call[k].pc = "run" /\ call[k].endpoint = "verify"
    /\ call' = [call EXCEPT ![k] =
                    IF call[k].by = "session" \/ Found(call[k].by)
                    THEN [call[k] EXCEPT !.pc = "named"]
                    ELSE NoCall]
    /\ UNCHANGED <<mode, now, up, registered, codeVars, tokens, migrated,
                   browserVars, exch, historyVars>>

EndCall(k) ==
    /\ call[k] # NoCall
    /\ call[k].pc = "named" \/ call[k].endpoint # "verify"
    /\ call' = [call EXCEPT ![k] = NoCall]
    /\ UNCHANGED <<mode, now, up, registered, codeVars, tokens, migrated,
                   browserVars, exch, historyVars>>

(* revoke_oauth_token: the UPDATE finds the row by its hash.               *)
RevokeRow(t) == IF Matches(t) THEN [t EXCEPT !.revoked = TRUE] ELSE t

(* revoke_token: any registered client may name a token.                   *)
Revoke(x) ==
    /\ up /\ registered # {}
    /\ x \in known
    /\ tokens' = [tokens EXCEPT ![x] = RevokeRow(tokens[x])]
    /\ \/ told' = told \cup {x}
       \/ "faults" \in mode /\ told' = told
    /\ UNCHANGED <<mode, now, up, registered, codeVars, migrated,
                   browserVars, requestVars, known, wasted>>

-----------------------------------------------------------------------------
Browser ==
    \/ \E l \in Logins : \/ GithubRedirect(l)
                         \/ Callback(l)
                         \/ Exchanged(l)
                         \/ \E user \in {Owner, Other} : Fetched(l, user)
    \/ Logout
    \/ \E p \in Pages :
          \/ \E a \in Apps, u \in Uris, ask \in Asks : Show(p, a, u, ask)
          \/ Deny(p)
          \/ \E session \in sessions, a \in Apps, u \in Uris, ask \in Asks,
                c \in Codes : Approve(p, session, a, u, ask, c)

Client ==
    \/ \E a \in Apps : Register(a)
    \/ \E x \in Exchanges :
          \/ \E a \in Apps, c \in Codes, u \in Uris, ask \in Asks :
                BeginCode(x, a, c, u, ask)
          \/ \E a \in Apps, ask \in Asks : BeginClient(x, a, ask)
          \/ Revoke(x)
          \/ \E k \in Calls, e \in Endpoints : CallWithToken(k, x, e)
    \/ \E k \in Calls, e \in Endpoints : CallWithSession(k, e)

Server ==
    \/ \E x \in Exchanges : \/ Select(x) \/ Purge(x) \/ Consume(x)
                            \/ Insert(x) \/ Fail(x)
    \/ \E k \in Calls : Name(k) \/ EndCall(k)

Next == Start \/ Stop \/ Tick \/ Browser \/ Client \/ Server

Spec == Init /\ [][Next]_vars

-----------------------------------------------------------------------------
(* A code buys one token: two exchanges that both read its row race to the *)
(* DELETE, and only the one that meets the row goes on to the INSERT.  A   *)
(* token has the application of its code and no scope beyond it, and the   *)
(* code it was bought with is out of the table.                            *)
Buying == {x \in Exchanges : exch[x].pc = "insert"}

CodeBuysOneToken ==
    /\ \A x, y \in Exchanges :
          /\ tokens[x] # None /\ tokens[y] # None
          /\ tokens[x].code # None /\ tokens[x].code = tokens[y].code
          => x = y
    /\ \A x \in Exchanges :
          tokens[x] # None /\ tokens[x].code # None
          => /\ tokens[x].code \notin codes
             /\ tokens[x].app = issued[tokens[x].code].app
             /\ tokens[x].scopes \subseteq issued[tokens[x].code].scopes

(* A handler runs with a token only if the owner, logged in at that time,  *)
(* sent an approval for the token's application with scopes that grant the *)
(* endpoint: neither an application's own token, nor another user's login, *)
(* nor a wider request at the exchange gets past the middleware, and the   *)
(* administration is the session's alone.                                  *)
AdmittedWasApproved ==
    \A k \in Calls :
        call[k].pc # "idle" /\ call[k].by \in Exchanges
        => LET t == tokens[call[k].by]
           IN  /\ t.code # None
               /\ approved[t.code].user = Owner
               /\ approved[t.code].app = t.app
               /\ Grants(approved[t.code].scopes, call[k].endpoint)
               /\ call[k].endpoint # "admin"

(* A token its client has works until it expires or is revoked, whatever   *)
(* restarts there are: the migration, which runs again at each start until *)
(* its setting is written, leaves hashed rows alone, and while the server  *)
(* runs no row is in plain text.                                           *)
TokensSurviveRestarts ==
    up => \A x \in Exchanges :
             /\ tokens[x] # None => tokens[x].form = "hashed"
             /\ (/\ x \in known
                 /\ ~tokens[x].revoked
                 /\ now < tokens[x].expires) => Found(x)

(* No call begins, and no application is named, with a token that has      *)
(* expired or whose revocation was answered.                               *)
RevokedIsOut ==
    [][\A k \in Calls :
          /\ call'[k].by \in Exchanges
          /\ call'[k].pc # call[k].pc
          => /\ call'[k].by \notin told
             /\ now < tokens[call'[k].by].expires]_vars

(* A wrong request does not cost the right one its code: without faults, a *)
(* right exchange is refused only when another one takes the code, when    *)
(* the application itself asked for too much, or when the code has expired *)
(* meanwhile.                                                              *)
RightIsServed ==
    [][\A x \in Exchanges :
          LET c == exch[x].code
          IN  /\ "faults" \notin mode
              /\ exch[x].right
              /\ exch'[x] = Idle
              => \/ \E y \in Exchanges : /\ tokens'[y] # None
                                         /\ tokens'[y].code = c
                 \/ \E y \in Buying : exch[y].code = c
                 \/ c \in wasted
                 \/ issued[c].expires <= now]_vars

=============================================================================

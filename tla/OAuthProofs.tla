---------------------------- MODULE OAuthProofs ----------------------------
(***************************************************************************)
(* Proofs about OAuth, for any number of applications, codes, exchanges    *)
(* and calls: what the owner's consent, a code and a token are good for.   *)
(***************************************************************************)
EXTENDS OAuth, TLAPS

(* What exchange x has bought, or is about to store.                       *)
Buys(x, c) == \/ exch[x].pc = "insert" /\ exch[x].code = c
              \/ tokens[x] # None /\ tokens[x].code = c

(* An exchange that works has no token yet.                                *)
NotYetStored == \A x \in Exchanges : exch[x].pc # "idle" => tokens[x] = None

(* What is read of the code before the DELETE still holds at it.           *)
ReadsItsCode ==
    \A x \in Exchanges :
        /\ exch[x].pc \in {"select", "purge", "consume"} =>
              exch[x].grant = "code" /\ exch[x].code \in Codes
        /\ exch[x].pc = "consume" =>
              /\ issued[exch[x].code] # None
              /\ issued[exch[x].code].app = exch[x].app

(* A code that is bought is out of the table, by one exchange, for its     *)
(* application, and within its scopes.                                     *)
BoughtOnce ==
    /\ \A x, y \in Exchanges, c \in Codes : Buys(x, c) /\ Buys(y, c) => x = y
    /\ \A x \in Exchanges, c \in Codes :
          Buys(x, c) => c \notin codes /\ issued[c] # None

KeepsToCode ==
    \A x \in Exchanges :
        /\ exch[x].pc = "insert" =>
              /\ exch[x].grant = "code" <=> exch[x].code # None
              /\ exch[x].code # None =>
                    /\ exch[x].app = issued[exch[x].code].app
                    /\ exch[x].scopes \subseteq issued[exch[x].code].scopes
        /\ tokens[x] # None =>
              /\ tokens[x].grant = "code" <=> tokens[x].code # None
              /\ tokens[x].code # None =>
                    /\ tokens[x].app = issued[tokens[x].code].app
                    /\ tokens[x].scopes \subseteq issued[tokens[x].code].scopes

(* What a code says is what the owner approved: only the owner has sessions,*)
(* and the request that got the code said the same.                        *)
IssuedWasApproved ==
    /\ \A session \in sessions : session.user = Owner
    /\ \A c \in Codes : issued[c] # None =>
          /\ approved[c] # None
          /\ approved[c].user = Owner
          /\ approved[c].app = issued[c].app
          /\ approved[c].scopes = issued[c].scopes

(* A call that runs has a token that was bought with a code.               *)
RunsWithCode ==
    \A k \in Calls :
        call[k].pc # "idle" /\ call[k].by \in Exchanges =>
            LET t == tokens[call[k].by]
            IN  t # None /\ t.grant = "code" /\ Grants(t.scopes, call[k].endpoint)

(* Rows are in plain text only before the first start that sees them.      *)
Forms ==
    /\ \A x \in Exchanges : tokens[x] # None => tokens[x].form # "twice"
    /\ up \/ migrated =>
          \A x \in Exchanges : tokens[x] # None => tokens[x].form = "hashed"

(* A client has only tokens that are stored, and was told the truth.       *)
Told ==
    /\ \A x \in known : tokens[x] # None
    /\ \A x \in told : tokens[x] # None /\ tokens[x].revoked

IInv == /\ TypeOK /\ NotYetStored /\ ReadsItsCode /\ BoughtOnce /\ KeepsToCode
        /\ IssuedWasApproved /\ RunsWithCode /\ Forms /\ Told

-----------------------------------------------------------------------------
(* The records that the server makes have their types.                     *)
LEMMA RecordTypes ==
    /\ Idle \in Exchange
    /\ NoCall \in [pc : {"idle", "run", "named"}, by : Exchanges \cup {"session", None},
                   endpoint : AllEndpoints]
    /\ LegacyToken \in Token
    /\ \A t \in Token : Hash(t) \in Token /\ RevokeRow(t) \in Token
  <1>1. Idle \in Exchange
    BY DEF Idle, Exchange
  <1>2. NoCall \in [pc : {"idle", "run", "named"}, by : Exchanges \cup {"session", None},
                    endpoint : AllEndpoints]
    BY DEF NoCall, AllEndpoints
  <1>3. LegacyToken \in Token
    BY DEF LegacyToken, Token
  <1>4. ASSUME NEW t \in Token PROVE Hash(t) \in Token /\ RevokeRow(t) \in Token
    <2>1. [t EXCEPT !.form = "hashed"] \in Token
      BY DEF Token
    <2>2. [t EXCEPT !.revoked = TRUE] \in Token
      BY DEF Token
    <2> QED
      BY <2>1, <2>2 DEF Hash, RevokeRow
  <1> QED
    BY <1>1, <1>2, <1>3, <1>4

(* A step of an exchange leaves it well formed.                            *)
LEMMA ExchangeTypes ==
    ASSUME NEW e \in Exchange, NEW s \in SUBSET Scopes
    PROVE  /\ [e EXCEPT !.pc = "purge"] \in Exchange
           /\ [e EXCEPT !.pc = "consume"] \in Exchange
           /\ [e EXCEPT !.pc = "insert", !.scopes = s] \in Exchange
  BY DEF Exchange

LEMMA AskedType ==
    ASSUME NEW ask \in SUBSET Scopes, NEW default \in SUBSET Scopes
    PROVE  Asked(ask, default) \in SUBSET Scopes
  BY DEF Asked

(* Some request with a session approves and gets code c.                   *)
Approval(c) ==
    \E p \in Pages, session \in sessions, a \in Apps, u \in Uris, ask \in Asks :
        Approve(p, session, a, u, ask, c)

(* An approval stores a fresh code that says what was approved, by one who *)
(* has a session, within what the application may have.                    *)
LEMMA ApprovalStores ==
    ASSUME TypeOK, NEW c \in Codes, Approval(c)
    PROVE  /\ issued[c] = None /\ codes' = codes \cup {c}
           /\ \E row \in Code, consent \in Consent :
                 /\ row # None /\ consent # None
                 /\ issued' = [issued EXCEPT ![c] = row]
                 /\ approved' = [approved EXCEPT ![c] = consent]
                 /\ consent.app = row.app /\ consent.scopes = row.scopes
                 /\ row.scopes \subseteq AppScopes[row.app]
                 /\ \E session \in sessions : consent.user = session.user
           /\ jar' \subseteq jar
           /\ UNCHANGED <<mode, now, up, registered, tokens, migrated, login, csrf,
                          sessions, shown, exch, call, known, told, wasted>>
  <1>1. PICK p \in Pages, session \in sessions, a \in Apps, u \in Uris, ask \in Asks :
            Approve(p, session, a, u, ask, c)
    BY DEF Approval
  <1> DEFINE s == Asked(ask, AppScopes[a])
             row == CodeRow(a, u, s)
             consent == [user |-> session.user, app |-> a, scopes |-> s]
  <1>2. s \in SUBSET Scopes
    BY ConstantsAssumption, AskedType
  <1>3. s \subseteq AppScopes[a]
    BY <1>1 DEF Approve, Consentable, Within
  <1>4. /\ issued[c] = None /\ codes' = codes \cup {c}
        /\ issued' = [issued EXCEPT ![c] = row]
        /\ approved' = [approved EXCEPT ![c] = consent]
        /\ jar' \subseteq jar
        /\ UNCHANGED <<mode, now, up, registered, tokens, migrated, login, csrf,
                       sessions, shown, exch, call, known, told, wasted>>
    BY <1>1 DEF Approve, requestVars, historyVars
  <1> HIDE DEF s
  <1>5. row \in Code /\ row.app = a /\ row.scopes = s
    BY <1>2, ConstantsAssumption DEF TypeOK, CodeRow, Code
  <1>6. consent \in Consent
    BY <1>2 DEF TypeOK, Session, Consent
  <1>7. consent.app = a /\ consent.scopes = s /\ consent.user = session.user
    OBVIOUS
  <1> HIDE DEF row, consent
  <1>8. row # None /\ consent # None
    BY <1>5, <1>6, NoneAssumption
  <1> QED
    BY <1>3, <1>4, <1>5, <1>6, <1>7, <1>8

(* Every variable of the model keeps its type (TypeOK).                    *)
LEMMA TypeInit == Init => TypeOK
  <1> SUFFICES ASSUME Init PROVE TypeOK
    OBVIOUS
  <1>1. tokens \in [Exchanges -> Token \cup {None}]
    BY RecordTypes DEF Init
  <1>2. sessions \subseteq Session
    BY ConstantsAssumption DEF Init, Session
  <1>3. exch \in [Exchanges -> Exchange]
    BY RecordTypes DEF Init
  <1>4. call \in [Calls -> [pc : {"idle", "run", "named"},
                           by : Exchanges \cup {"session", None},
                           endpoint : AllEndpoints]]
    BY RecordTypes DEF Init
  <1> QED
    BY <1>1, <1>2, <1>3, <1>4 DEF Init, TypeOK

LEMMA TypeNext == TypeOK /\ Told /\ [Next]_vars => TypeOK'
  <1> SUFFICES ASSUME TypeOK, Told, [Next]_vars PROVE TypeOK'
    OBVIOUS
  <1> USE ConstantsAssumption, RecordTypes, AskedType
  <1>1. ASSUME Start PROVE TypeOK'
    <2>1. tokens' \in [Exchanges -> Token \cup {None}]
      BY <1>1 DEF TypeOK, Start
    <2> QED
      BY <1>1, <2>1 DEF TypeOK, Start, browserVars, codeVars, requestVars, historyVars
  <1>2. ASSUME Stop PROVE TypeOK'
    BY <1>2 DEF TypeOK, Stop,
       browserVars, codeVars, requestVars, historyVars, exchangeUnchanged
  <1>3. ASSUME Tick PROVE TypeOK'
    BY <1>3 DEF TypeOK, Tick,
       browserVars, codeVars, requestVars, historyVars, exchangeUnchanged
  <1>4. ASSUME NEW l \in Logins, GithubRedirect(l) PROVE TypeOK'
    BY <1>4 DEF TypeOK, GithubRedirect,
       browserVars, codeVars, requestVars, historyVars, exchangeUnchanged
  <1>5. ASSUME NEW l \in Logins, Callback(l) PROVE TypeOK'
    BY <1>5 DEF TypeOK, Callback,
       browserVars, codeVars, requestVars, historyVars, exchangeUnchanged
  <1>6. ASSUME NEW l \in Logins, Exchanged(l) PROVE TypeOK'
    BY <1>6 DEF TypeOK, Exchanged,
       browserVars, codeVars, requestVars, historyVars, exchangeUnchanged
  <1>7. ASSUME NEW l \in Logins, NEW user \in {Owner, Other}, Fetched(l, user) PROVE TypeOK'
    BY <1>7 DEF TypeOK, Fetched, LetsIn, SessionFor, Session,
       browserVars, codeVars, requestVars, historyVars, exchangeUnchanged
  <1>8. ASSUME Logout PROVE TypeOK'
    BY <1>8 DEF TypeOK, Logout,
       browserVars, codeVars, requestVars, historyVars, exchangeUnchanged
  <1>9. ASSUME NEW p \in Pages, NEW a \in Apps, NEW u \in Uris, NEW ask \in Asks,
               Show(p, a, u, ask)
        PROVE  TypeOK'
    BY <1>9 DEF TypeOK, Show, codeVars, requestVars, historyVars
  <1>10. ASSUME NEW p \in Pages, Deny(p) PROVE TypeOK'
    BY <1>10 DEF TypeOK, Deny,
       browserVars, codeVars, requestVars, historyVars, exchangeUnchanged
  <1>11. ASSUME NEW c \in Codes, Approval(c) PROVE TypeOK'
    <2>1. PICK row \in Code, consent \in Consent :
             /\ row # None
             /\ issued' = [issued EXCEPT ![c] = row]
             /\ approved' = [approved EXCEPT ![c] = consent]
      BY <1>11, ApprovalStores
    <2>2. issued' \in [Codes -> Code \cup {None}]
      BY <2>1 DEF TypeOK
    <2>3. codes' \subseteq {d \in Codes : issued'[d] # None}
      BY <1>11, <2>1, ApprovalStores DEF TypeOK
    <2>4. approved' \in [Codes -> Consent \cup {None}]
      BY <2>1 DEF TypeOK
    <2>5. /\ jar' \subseteq jar
          /\ UNCHANGED <<mode, now, up, registered, tokens, migrated, login, csrf,
                         sessions, shown, exch, call, known, told, wasted>>
      BY <1>11, ApprovalStores
    <2> QED
      BY <2>2, <2>3, <2>4, <2>5 DEF TypeOK
  <1>12. ASSUME NEW a \in Apps, Register(a) PROVE TypeOK'
    BY <1>12 DEF TypeOK, Register,
       browserVars, codeVars, requestVars, historyVars, exchangeUnchanged
  <1>13. ASSUME NEW x \in Exchanges, NEW a \in Apps, NEW c \in Codes, NEW u \in Uris,
                NEW ask \in Asks, BeginCode(x, a, c, u, ask)
         PROVE  TypeOK'
    BY <1>13 DEF TypeOK, BeginCode, Exchange, Right,
       browserVars, codeVars, requestVars, historyVars, exchangeUnchanged
  <1>14. ASSUME NEW x \in Exchanges, NEW a \in Apps, NEW ask \in Asks,
                BeginClient(x, a, ask)
         PROVE  TypeOK'
    <2> DEFINE s == Asked(ask, AppScopes[a])
    <2>1. [Idle EXCEPT !.pc = "insert", !.grant = "client", !.app = a, !.scopes = s]
             \in Exchange
      BY ZenonT(30) DEF Exchange, Idle
    <2>2. exch' \in [Exchanges -> Exchange]
      BY <1>14, <2>1 DEF TypeOK, BeginClient
    <2> QED
      BY <1>14, <2>2 DEF TypeOK, BeginClient, browserVars, exchangeUnchanged
  <1>15. ASSUME NEW x \in Exchanges, Revoke(x) PROVE TypeOK'
    <2>1. tokens' \in [Exchanges -> Token \cup {None}]
      <3>1. RevokeRow(tokens[x]) \in Token
        BY <1>15 DEF TypeOK, Told, Revoke
      <3> QED
        BY <1>15, <3>1 DEF TypeOK, Revoke
    <2> QED
      BY <1>15, <2>1 DEF TypeOK, Revoke, browserVars, codeVars, requestVars
  <1>16. ASSUME NEW k \in Calls, NEW x \in Exchanges, NEW e \in Endpoints,
                CallWithToken(k, x, e)
         PROVE  TypeOK'
    BY <1>16 DEF TypeOK, CallWithToken,
       browserVars, codeVars, requestVars, historyVars, exchangeUnchanged
  <1>17. ASSUME NEW k \in Calls, NEW e \in Endpoints, CallWithSession(k, e) PROVE TypeOK'
    BY <1>17 DEF TypeOK, CallWithSession,
       browserVars, codeVars, requestVars, historyVars, exchangeUnchanged
  <1>18. ASSUME NEW x \in Exchanges, Select(x) PROVE TypeOK'
    <2>1. /\ [exch[x] EXCEPT !.pc = "purge"] \in Exchange
          /\ [exch[x] EXCEPT !.pc = "consume"] \in Exchange
      BY ExchangeTypes DEF TypeOK
    <2>2. exch' \in [Exchanges -> Exchange]
      BY <1>18, <2>1 DEF TypeOK, Select
    <2> QED
      BY <1>18, <2>2 DEF TypeOK, Select, browserVars, exchangeUnchanged
  <1>19. ASSUME NEW x \in Exchanges, Purge(x) PROVE TypeOK'
    BY <1>19 DEF TypeOK, Purge,
       browserVars, codeVars, requestVars, historyVars, exchangeUnchanged
  <1>20. ASSUME NEW x \in Exchanges, Consume(x) PROVE TypeOK'
    <2> DEFINE e == exch[x]
               s == Asked(e.ask, issued[e.code].scopes)
    <2>1. CASE Took(e)
      <3>1. issued[e.code] \in Code
        BY <2>1, NoneAssumption DEF TypeOK, Took
      <3>2. s \in SUBSET Scopes
        <4>1. e.ask \in SUBSET Scopes /\ issued[e.code].scopes \in SUBSET Scopes
          BY <3>1 DEF TypeOK, Exchange, Code
        <4> QED
          BY <4>1, AskedType
      <3>5. [e EXCEPT !.pc = "insert", !.scopes = s] \in Exchange
        BY <3>2, ExchangeTypes DEF TypeOK
      <3>3. exch' \in [Exchanges -> Exchange]
        BY <1>20, <3>5 DEF TypeOK, Consume
      <3>4. wasted' \subseteq Codes
        BY <1>20, <2>1 DEF TypeOK, Consume, Took
      <3> QED
        BY <1>20, <3>3, <3>4 DEF TypeOK, Consume, browserVars, exchangeUnchanged
    <2>2. CASE ~Took(e)
      BY <1>20, <2>2 DEF TypeOK, Consume, browserVars, exchangeUnchanged
    <2> QED
      BY <2>1, <2>2
  <1>21. ASSUME NEW x \in Exchanges, Insert(x) PROVE TypeOK'
    BY <1>21 DEF TypeOK, Insert, Exchange, Token, TokenRow,
       browserVars, codeVars, requestVars, historyVars, exchangeUnchanged
  <1>22. ASSUME NEW x \in Exchanges, Fail(x) PROVE TypeOK'
    BY <1>22 DEF TypeOK, Fail,
       browserVars, codeVars, requestVars, historyVars, exchangeUnchanged
  <1>23. ASSUME NEW k \in Calls, Name(k) PROVE TypeOK'
    BY <1>23 DEF TypeOK, Name,
       browserVars, codeVars, requestVars, historyVars, exchangeUnchanged
  <1>24. ASSUME NEW k \in Calls, EndCall(k) PROVE TypeOK'
    BY <1>24 DEF TypeOK, EndCall,
       browserVars, codeVars, requestVars, historyVars, exchangeUnchanged
  <1>25. CASE UNCHANGED vars
    BY <1>25 DEF TypeOK, vars
  <1> QED
    BY <1>1, <1>2, <1>3, <1>4, <1>5, <1>6, <1>7, <1>8, <1>9, <1>10,
       <1>11, <1>12, <1>13, <1>14, <1>15, <1>16, <1>17, <1>18, <1>19, <1>20,
       <1>21, <1>22, <1>23, <1>24, <1>25 DEF Next, Browser, Client, Server, Approval

-----------------------------------------------------------------------------
(* What a code buys.                                                       *)

CodeInv == NotYetStored /\ ReadsItsCode /\ BoughtOnce /\ KeepsToCode

(* Nothing that a token was bought for is ever changed in its row.         *)
SameTokens ==
    \A x \in Exchanges :
        /\ tokens'[x] = None <=> tokens[x] = None
        /\ tokens[x] # None => /\ tokens'[x].app = tokens[x].app
                               /\ tokens'[x].grant = tokens[x].grant
                               /\ tokens'[x].code = tokens[x].code
                               /\ tokens'[x].scopes = tokens[x].scopes

LEMMA HashKeeps ==
    ASSUME NEW t \in Token, NEW u \in {Hash(t), RevokeRow(t)}
    PROVE  /\ u # None
           /\ u.app = t.app /\ u.grant = t.grant /\ u.code = t.code
           /\ u.scopes = t.scopes
  <1>1. u \in Token
    BY RecordTypes
  <1>2. u # None
    BY <1>1, NoneAssumption
  <1>3. u.app = t.app /\ u.grant = t.grant /\ u.code = t.code /\ u.scopes = t.scopes
    BY DEF Hash, RevokeRow, Token
  <1> QED
    BY <1>2, <1>3

LEMMA TokensStay ==
    ASSUME TypeOK, Told, Start \/ (\E x \in Exchanges : Revoke(x))
    PROVE  SameTokens
  <1>1. ASSUME Start PROVE SameTokens
    BY <1>1, HashKeeps DEF TypeOK, Start, SameTokens
  <1>2. ASSUME NEW x \in Exchanges, Revoke(x) PROVE SameTokens
    <2>1. tokens[x] \in Token
      BY <1>2 DEF TypeOK, Told, Revoke
    <2>2. tokens' = [tokens EXCEPT ![x] = RevokeRow(tokens[x])]
      BY <1>2 DEF Revoke
    <2> QED
      BY <2>1, <2>2, HashKeeps, NoneAssumption DEF TypeOK, SameTokens
  <1> QED
    BY <1>1, <1>2

LEMMA CodeInit == Init => CodeInv
  BY ConstantsAssumption
     DEF Init, CodeInv, NotYetStored, ReadsItsCode, BoughtOnce, KeepsToCode, Buys, Idle,
         LegacyToken

LEMMA CodeNext == TypeOK /\ Told /\ CodeInv /\ [Next]_vars => CodeInv'
  <1> SUFFICES ASSUME TypeOK, Told, CodeInv, [Next]_vars PROVE CodeInv'
    OBVIOUS
  <1> USE DEF CodeInv
  <1>1. ASSUME UNCHANGED <<exch, tokens, issued, codes>> PROVE CodeInv'
    BY <1>1 DEF NotYetStored, ReadsItsCode, BoughtOnce, KeepsToCode, Buys
  <1>2. ASSUME SameTokens, UNCHANGED <<exch, issued, codes>> PROVE CodeInv'
    BY <1>2 DEF SameTokens, NotYetStored, ReadsItsCode, BoughtOnce, KeepsToCode, Buys
  <1>3. ASSUME \A x \in Exchanges : exch'[x] \in {Idle, exch[x]},
               codes' \subseteq codes, UNCHANGED <<tokens, issued>>
        PROVE  CodeInv'
    BY <1>3 DEF TypeOK, NotYetStored, ReadsItsCode, BoughtOnce, KeepsToCode, Buys, Idle
  <1>4. ASSUME NEW c \in Codes, Approval(c) PROVE CodeInv'
    <2>1. /\ codes' = codes \cup {c} /\ issued[c] = None
          /\ UNCHANGED <<exch, tokens>>
      BY <1>4, ApprovalStores
    <2>2. PICK row \in Code : row # None /\ issued' = [issued EXCEPT ![c] = row]
      BY <1>4, ApprovalStores
    <2>3. \A x \in Exchanges : ~Buys(x, c)
      BY <2>1 DEF BoughtOnce
    <2>4. NotYetStored'
      BY <2>1 DEF NotYetStored
    <2>5. ReadsItsCode'
      BY <2>1, <2>2 DEF TypeOK, ReadsItsCode
    <2>6. BoughtOnce'
      BY <2>1, <2>2, <2>3 DEF TypeOK, BoughtOnce, Buys
    <2>7. KeepsToCode'
      BY <2>1, <2>2, <2>3 DEF TypeOK, KeepsToCode, Buys, Exchange, Token
    <2> QED
      BY <2>4, <2>5, <2>6, <2>7
  <1>5. ASSUME NEW x \in Exchanges, NEW a \in Apps, NEW c \in Codes, NEW u \in Uris,
               NEW ask \in Asks, BeginCode(x, a, c, u, ask)
        PROVE  CodeInv'
    BY <1>5 DEF BeginCode, TypeOK, NotYetStored, ReadsItsCode, BoughtOnce, KeepsToCode,
                Buys, exchangeUnchanged
  <1>6. ASSUME NEW x \in Exchanges, NEW a \in Apps, NEW ask \in Asks, BeginClient(x, a, ask)
        PROVE  CodeInv'
    BY <1>6, ConstantsAssumption
       DEF BeginClient, TypeOK, NotYetStored, ReadsItsCode, BoughtOnce, KeepsToCode,
           Buys, Idle, exchangeUnchanged
  <1>7. ASSUME NEW x \in Exchanges, Select(x) PROVE CodeInv'
    <2> DEFINE e == exch[x]
    <2>1. /\ e \in Exchange /\ e.pc = "select" /\ e.code \in Codes /\ e.grant = "code"
          /\ UNCHANGED <<codes, tokens, issued>>
      BY <1>7 DEF TypeOK, Select, ReadsItsCode, exchangeUnchanged
    <2>2. CASE exch' = [exch EXCEPT ![x] = Idle]
      BY <2>1, <2>2, <1>3 DEF TypeOK
    <2>3. CASE exch' = [exch EXCEPT ![x] = [e EXCEPT !.pc = "purge"]]
      BY <2>1, <2>3 DEF TypeOK, NotYetStored, ReadsItsCode, BoughtOnce, KeepsToCode, Buys,
                        Exchange
    <2>4. CASE /\ exch' = [exch EXCEPT ![x] = [e EXCEPT !.pc = "consume"]]
               /\ e.code \in codes /\ BoundTo(issued[e.code], e)
      BY <2>1, <2>4 DEF TypeOK, NotYetStored, ReadsItsCode, BoughtOnce, KeepsToCode, Buys,
                        Exchange, BoundTo
    <2> QED
      BY <1>7, <2>2, <2>3, <2>4 DEF Select
  <1>8. ASSUME NEW x \in Exchanges, Consume(x) PROVE CodeInv'
    <2> DEFINE e == exch[x]
               s == Asked(e.ask, issued[e.code].scopes)
    <2>1. /\ e \in Exchange /\ e.pc = "consume" /\ e.code \in Codes /\ e.grant = "code"
          /\ issued[e.code] # None /\ issued[e.code].app = e.app
          /\ codes' = codes \ {e.code} /\ UNCHANGED <<tokens, issued>>
      BY <1>8 DEF TypeOK, Consume, ReadsItsCode, exchangeUnchanged
    <2>2. CASE exch' = [exch EXCEPT ![x] = Idle]
      BY <2>1, <2>2, <1>3 DEF TypeOK
    <2>3. CASE /\ exch' = [exch EXCEPT ![x] = [e EXCEPT !.pc = "insert", !.scopes = s]]
               /\ e.code \in codes /\ s \subseteq issued[e.code].scopes
      <3>1. \A y \in Exchanges : ~Buys(y, e.code)
        BY <2>1, <2>3 DEF BoughtOnce
      <3>2. \A y \in Exchanges, c \in Codes :
               Buys(y, c)' => Buys(y, c) \/ (y = x /\ c = e.code)
        BY <2>1, <2>3 DEF TypeOK, Buys, Exchange
      <3>3. NotYetStored'
        BY <2>1, <2>3 DEF TypeOK, NotYetStored, Exchange
      <3>4. ReadsItsCode'
        BY <2>1, <2>3 DEF TypeOK, ReadsItsCode, Exchange
      <3>5. BoughtOnce'
        BY <2>1, <3>1, <3>2 DEF BoughtOnce
      <3>6. KeepsToCode'
        BY <2>1, <2>3, ConstantsAssumption DEF TypeOK, KeepsToCode, Exchange
      <3> QED
        BY <3>3, <3>4, <3>5, <3>6
    <2> QED
      BY <1>8, <2>2, <2>3 DEF Consume, Took, Within
  <1>9. ASSUME NEW x \in Exchanges, Insert(x) PROVE CodeInv'
    <2>1. /\ exch[x].pc = "insert" /\ tokens[x] = None
          /\ exch' = [exch EXCEPT ![x] = Idle]
          /\ tokens' = [tokens EXCEPT ![x] = TokenRow(exch[x])]
          /\ UNCHANGED <<codes, issued>>
      BY <1>9 DEF Insert, NotYetStored, exchangeUnchanged
    <2>2. \A y \in Exchanges, c \in Codes : Buys(y, c)' => Buys(y, c)
      BY <2>1 DEF TypeOK, Buys, TokenRow, Idle
    <2>3. NotYetStored'
      BY <2>1 DEF TypeOK, NotYetStored, Idle
    <2>4. ReadsItsCode'
      BY <2>1 DEF TypeOK, ReadsItsCode, Idle
    <2>5. BoughtOnce'
      BY <2>1, <2>2 DEF BoughtOnce
    <2>6. KeepsToCode'
      BY <2>1 DEF TypeOK, KeepsToCode, TokenRow, Idle
    <2> QED
      BY <2>3, <2>4, <2>5, <2>6
  <1>10. CASE Start
    BY <1>10, <1>2, TokensStay DEF Start, codeVars, requestVars
  <1>11. CASE Stop
    BY <1>11, <1>3 DEF Stop, codeVars, TypeOK
  <1>12. ASSUME NEW x \in Exchanges, Revoke(x) PROVE CodeInv'
    BY <1>12, <1>2, TokensStay DEF Revoke, codeVars, requestVars
  <1>13. ASSUME NEW x \in Exchanges, Purge(x) PROVE CodeInv'
    <2>1. exch[x].code \in Codes
      BY <1>13 DEF Purge, ReadsItsCode
    <2> QED
      BY <1>13, <2>1, <1>3 DEF Purge, exchangeUnchanged, TypeOK
  <1>14. ASSUME NEW x \in Exchanges, Fail(x) PROVE CodeInv'
    BY <1>14, <1>3 DEF Fail, exchangeUnchanged, TypeOK
  <1>15. CASE Tick \/ Browser
    BY <1>15, <1>1, <1>4 DEF Tick, Browser, GithubRedirect, Callback, Exchanged, Fetched,
                       Logout, Show, Deny, Approval, codeVars, requestVars
  <1>16. ASSUME \/ \E a \in Apps : Register(a)
                \/ \E k \in Calls, x \in Exchanges, e \in Endpoints : CallWithToken(k, x, e)
                \/ \E k \in Calls, e \in Endpoints : CallWithSession(k, e)
                \/ \E k \in Calls : Name(k) \/ EndCall(k)
         PROVE  CodeInv'
    BY <1>16, <1>1 DEF Register, CallWithToken, CallWithSession, Name, EndCall, codeVars,
                       requestVars
  <1>17. CASE UNCHANGED vars
    BY <1>17, <1>1 DEF vars
  <1> QED
    BY <1>4, <1>5, <1>6, <1>7, <1>8, <1>9, <1>10, <1>11, <1>12, <1>13, <1>14, <1>15, <1>16,
       <1>17 DEF Next, Client, Server

-----------------------------------------------------------------------------
(* What the owner approved.                                                *)

LEMMA ApprovedInit == Init => IssuedWasApproved
  BY DEF Init, IssuedWasApproved

LEMMA ApprovedNext == TypeOK /\ IssuedWasApproved /\ [Next]_vars => IssuedWasApproved'
  <1> SUFFICES ASSUME TypeOK, IssuedWasApproved, [Next]_vars PROVE IssuedWasApproved'
    OBVIOUS
  <1>1. ASSUME UNCHANGED <<sessions, issued, approved>> PROVE IssuedWasApproved'
    BY <1>1 DEF IssuedWasApproved
  <1>2. ASSUME NEW l \in Logins, NEW user \in {Owner, Other}, Fetched(l, user)
        PROVE  IssuedWasApproved'
    <2>1. /\ \/ sessions' = sessions
             \/ sessions' = sessions \cup {[user |-> Owner, expires |-> now + SessionTTL]}
          /\ UNCHANGED <<issued, approved>>
      BY <1>2 DEF Fetched, LetsIn, SessionFor, codeVars
    <2> QED
      BY <2>1 DEF IssuedWasApproved
  <1>3. ASSUME NEW c \in Codes, Approval(c) PROVE IssuedWasApproved'
    <2>1. PICK row \in Code, consent \in Consent :
             /\ consent # None
             /\ issued' = [issued EXCEPT ![c] = row]
             /\ approved' = [approved EXCEPT ![c] = consent]
             /\ consent.app = row.app /\ consent.scopes = row.scopes
             /\ \E session \in sessions : consent.user = session.user
      BY <1>3, ApprovalStores
    <2>2. consent.user = Owner /\ sessions' = sessions
      BY <1>3, <2>1, ApprovalStores DEF IssuedWasApproved
    <2> QED
      BY <2>1, <2>2 DEF TypeOK, IssuedWasApproved
  <1>4. CASE Logout
    BY <1>1, <1>4 DEF Logout, codeVars
  <1>5. ASSUME NEW p \in Pages, NEW a \in Apps, NEW u \in Uris, NEW ask \in Asks,
               Show(p, a, u, ask)
        PROVE  IssuedWasApproved'
    BY <1>1, <1>5 DEF Show, codeVars
  <1>6. CASE Start \/ Stop \/ Tick \/ Client \/ Server
    BY ZenonT(30), <1>6, <1>1 DEF Start, Stop, Tick, Client, Server, Register, BeginCode, BeginClient,
         Revoke, CallWithToken, CallWithSession, Select, Purge, Consume, Insert, Fail,
         Name, EndCall, exchangeUnchanged, browserVars, codeVars
  <1>7. ASSUME NEW l \in Logins, GithubRedirect(l) \/ Callback(l) \/ Exchanged(l)
        PROVE  IssuedWasApproved'
    BY <1>7, <1>1 DEF GithubRedirect, Callback, Exchanged, codeVars
  <1>8. ASSUME NEW p \in Pages, Deny(p) PROVE IssuedWasApproved'
    BY <1>8, <1>1 DEF Deny, codeVars
  <1>9. CASE UNCHANGED vars
    BY <1>9, <1>1 DEF vars
  <1> QED
    BY <1>2, <1>3, <1>4, <1>5, <1>6, <1>7, <1>8, <1>9 DEF Next, Browser, Approval

-----------------------------------------------------------------------------
(* Calls, and the tokens as the migration and their clients see them.      *)

CallInv == RunsWithCode /\ Forms /\ Told

LEMMA CallInit == Init => CallInv
  BY ConstantsAssumption
     DEF Init, CallInv, RunsWithCode, Forms, Told, NoCall, LegacyToken

LEMMA CallNext == TypeOK /\ CodeInv /\ CallInv /\ [Next]_vars => CallInv'
  <1> SUFFICES ASSUME TypeOK, CodeInv, CallInv, [Next]_vars PROVE CallInv'
    OBVIOUS
  <1> USE DEF CallInv
  <1>1. ASSUME UNCHANGED <<call, tokens, known, told, up, migrated>> PROVE CallInv'
    BY <1>1 DEF RunsWithCode, Forms, Told
  <1>2. ASSUME UNCHANGED <<tokens, known, told, up, migrated>>,
               NEW k \in Calls, NEW b, NEW e, NEW pc,
               call' = [call EXCEPT ![k] = [pc |-> pc, by |-> b, endpoint |-> e]],
               b \in Exchanges => /\ tokens[b] # None /\ tokens[b].grant = "code"
                                  /\ Grants(tokens[b].scopes, e)
        PROVE  CallInv'
    BY <1>2 DEF TypeOK, RunsWithCode, Forms, Told
  <1>3. CASE Start
    <2>1. SameTokens
      BY <1>3, TokensStay
    <2>2. RunsWithCode'
      BY <1>3, <2>1 DEF Start, SameTokens, RunsWithCode, requestVars
    <2>3. Forms'
      BY <1>3 DEF Start, Forms, TypeOK, Hash, Token
    <2>4. Told'
      <3>1. \A t \in Token : Hash(t).revoked = t.revoked
        BY DEF Hash, Token
      <3>2. \A x \in told : tokens'[x].revoked
        BY <1>3, <3>1 DEF Start, TypeOK, Told
      <3> QED
        BY <1>3, <2>1, <3>2 DEF Start, TypeOK, SameTokens, Told, historyVars
    <2> QED
      BY <2>2, <2>3, <2>4
  <1>4. CASE Stop
    BY <1>4, ConstantsAssumption
       DEF Stop, NoCall, TypeOK, RunsWithCode, Forms, Told, historyVars
  <1>5. ASSUME NEW x \in Exchanges, Insert(x) PROVE CallInv'
    <2>1. /\ tokens[x] = None /\ tokens' = [tokens EXCEPT ![x] = TokenRow(exch[x])]
          /\ known' \in {known, known \cup {x}}
          /\ UNCHANGED <<call, up, migrated, told>>
      BY <1>5 DEF Insert, CodeInv, NotYetStored, exchangeUnchanged
    <2>2. TokenRow(exch[x]) # None
      <3>1. exch[x] \in Exchange
        BY DEF TypeOK
      <3>2. TokenRow(exch[x]) \in Token
        BY <3>1, ConstantsAssumption DEF TypeOK, TokenRow, Exchange, Token
      <3> QED
        BY <3>2, NoneAssumption
    <2>3. RunsWithCode'
      BY <2>1 DEF TypeOK, RunsWithCode
    <2>4. Forms'
      BY <2>1 DEF TypeOK, Forms, TokenRow
    <2>5. Told'
      BY <2>1, <2>2 DEF TypeOK, Told
    <2> QED
      BY <2>3, <2>4, <2>5
  <1>6. ASSUME NEW x \in Exchanges, Revoke(x) PROVE CallInv'
    <2>1. SameTokens
      BY <1>6, TokensStay
    <2>2. tokens[x] \in Token /\ tokens[x].form = "hashed"
      BY <1>6 DEF Revoke, TypeOK, Told, Forms
    <2>3. /\ tokens' = [tokens EXCEPT ![x] = [tokens[x] EXCEPT !.revoked = TRUE]]
          /\ told' \in {told, told \cup {x}} /\ UNCHANGED <<call, up, migrated, known>>
      BY <1>6, <2>2 DEF Revoke, RevokeRow, Matches, requestVars
    <2>4. RunsWithCode'
      BY <2>1, <2>3 DEF SameTokens, RunsWithCode
    <2>5. Forms'
      BY <2>1, <2>2, <2>3 DEF SameTokens, TypeOK, Forms, Token
    <2>6. Told'
      <3>1. \A y \in known : tokens'[y] # None
        BY <2>1, <2>3 DEF SameTokens, TypeOK, Told
      <3>2. x \in Exchanges /\ tokens'[x] # None /\ tokens'[x].revoked
        <4>1. tokens[x] # None
          BY <2>2, NoneAssumption
        <4>2. tokens'[x] = [tokens[x] EXCEPT !.revoked = TRUE]
          BY <2>3 DEF TypeOK
        <4>3. tokens'[x].revoked
          BY <2>2, <4>2 DEF Token
        <4> QED
          BY <4>1, <4>3, <2>1 DEF SameTokens
      <3>3. ASSUME NEW y \in told, y # x PROVE tokens'[y] # None /\ tokens'[y].revoked
        <4>1. tokens'[y] = tokens[y]
          BY <2>3, <3>3 DEF TypeOK
        <4> QED
          BY <4>1 DEF Told
      <3>4. \A y \in told' : tokens'[y] # None /\ tokens'[y].revoked
        BY <2>3, <3>2, <3>3
      <3> QED
        BY <2>3, <3>1, <3>4 DEF Told
    <2> QED
      BY <2>4, <2>5, <2>6
  <1>7. ASSUME NEW k \in Calls, NEW x \in Exchanges, NEW e \in Endpoints, CallWithToken(k, x, e)
        PROVE  CallInv'
    BY <1>7, <1>2 DEF CallWithToken, Admits, Found, historyVars
  <1>8. ASSUME NEW k \in Calls, NEW e \in Endpoints, CallWithSession(k, e) PROVE CallInv'
    BY <1>8, <1>2, NoneAssumption DEF CallWithSession, historyVars
  <1>9. ASSUME NEW k \in Calls, Name(k) \/ EndCall(k) PROVE CallInv'
    <2>1. /\ call'[k] \in {NoCall, [call[k] EXCEPT !.pc = "named"]}
          /\ Name(k) \/ call'[k] = NoCall
          /\ \A j \in Calls \ {k} : call'[j] = call[j]
          /\ UNCHANGED <<tokens, known, told, up, migrated>>
      BY <1>9 DEF Name, EndCall, TypeOK, historyVars
    <2>2. call'[k] # NoCall => /\ call[k].pc # "idle" /\ call'[k].by = call[k].by
                               /\ call'[k].endpoint = call[k].endpoint
      BY <1>9, <2>1 DEF Name, TypeOK
    <2>3. NoCall.by \notin Exchanges
      BY ConstantsAssumption DEF NoCall
    <2> QED
      BY <2>1, <2>2, <2>3 DEF RunsWithCode, Forms, Told
  <1>10. CASE Tick \/ Browser
    BY <1>10, <1>1 DEF Tick, Browser, GithubRedirect, Callback, Exchanged, Fetched, Logout,
                       Show, Deny, Approve, codeVars, requestVars, historyVars
  <1>11. ASSUME \/ \E a \in Apps : Register(a)
                \/ \E x \in Exchanges, a \in Apps, c \in Codes, u \in Uris, ask \in Asks :
                       BeginCode(x, a, c, u, ask)
                \/ \E x \in Exchanges, a \in Apps, ask \in Asks : BeginClient(x, a, ask)
                \/ \E x \in Exchanges : Select(x) \/ Purge(x) \/ Consume(x) \/ Fail(x)
         PROVE  CallInv'
    BY <1>11, <1>1 DEF Register, BeginCode, BeginClient, Select, Purge, Consume, Fail,
                       exchangeUnchanged, requestVars, historyVars
  <1>12. CASE UNCHANGED vars
    BY <1>12, <1>1 DEF vars
  <1> QED
    BY <1>3, <1>4, <1>5, <1>6, <1>7, <1>8, <1>9, <1>10, <1>11, <1>12
       DEF Next, Client, Server

-----------------------------------------------------------------------------
(* The invariant, and what it says of the properties.                      *)

(* The inductive invariant holds in every behaviour: each part needs only  *)
(* the types, and the parts before it.                                     *)
THEOREM Inductive == Spec => []IInv
  <1> USE DEF IInv, CodeInv, CallInv
  <1>1. Init => IInv
    BY TypeInit, CodeInit, ApprovedInit, CallInit
  <1>2. IInv /\ [Next]_vars => IInv'
    BY TypeNext, CodeNext, ApprovedNext, CallNext
  <1> QED
    BY <1>1, <1>2, PTL DEF Spec

(* Every variable keeps its type: rows, cookies, requests and history.     *)
THEOREM TypeCorrect == Spec => []TypeOK
  <1>1. IInv => TypeOK
    BY DEF IInv
  <1> QED
    BY <1>1, Inductive, PTL

(* However many exchanges race for a code, one token at most is stored for *)
(* it, for its application and within its scopes (CodeBuysOneToken).       *)
THEOREM CodeBuysOneTokenHolds == Spec => []CodeBuysOneToken
  <1>1. IInv => CodeBuysOneToken
    <2> SUFFICES ASSUME IInv PROVE CodeBuysOneToken
      OBVIOUS
    <2>1. \A x \in Exchanges : tokens[x] # None => tokens[x].code \in Codes \cup {None}
      BY DEF IInv, TypeOK, Token
    <2>2. ASSUME NEW x \in Exchanges, NEW y \in Exchanges, tokens[x] # None,
                 tokens[y] # None, tokens[x].code # None, tokens[x].code = tokens[y].code
          PROVE  x = y
      BY <2>1, <2>2 DEF IInv, BoughtOnce, Buys
    <2>3. ASSUME NEW x \in Exchanges, tokens[x] # None, tokens[x].code # None
          PROVE  /\ tokens[x].code \notin codes
                 /\ tokens[x].app = issued[tokens[x].code].app
                 /\ tokens[x].scopes \subseteq issued[tokens[x].code].scopes
      BY <2>1, <2>3 DEF IInv, BoughtOnce, Buys, KeepsToCode
    <2> QED
      BY <2>2, <2>3 DEF CodeBuysOneToken
  <1> QED
    BY <1>1, Inductive, PTL

(* More scopes grant no less, and none grant the administration.           *)
LEMMA GrantsGrow ==
    ASSUME NEW s, NEW t, s \subseteq t, NEW e, Grants(s, e)
    PROVE  Grants(t, e)
  <1>1. PICK r \in Required(e) : Covers(s, r)
    BY DEF Grants
  <1>2. Covers(t, r)
    BY <1>1 DEF Covers
  <1> QED
    BY <1>1, <1>2 DEF Grants

LEMMA NoneGrantAdmin ==
    ASSUME NEW s PROVE ~Grants(s, "admin")
  <1>1. "admin" \notin Reads \cup Writes \cup {"follow"} /\ "admin" # "verify"
    BY DEF Reads, Writes
  <1>2. Required("admin") = {}
    BY <1>1, Zenon DEF Required
  <1> QED
    BY <1>2 DEF Grants

(* A handler that runs with a token has the owner's approval for what it   *)
(* does, whoever asked for the token and however (AdmittedWasApproved).    *)
THEOREM AdmittedWasApprovedHolds == Spec => []AdmittedWasApproved
  <1>1. IInv => AdmittedWasApproved
    <2> SUFFICES ASSUME IInv, NEW k \in Calls, call[k].pc # "idle",
                        call[k].by \in Exchanges
                 PROVE  LET t == tokens[call[k].by]
                        IN  /\ t.code # None
                            /\ approved[t.code].user = Owner
                            /\ approved[t.code].app = t.app
                            /\ Grants(approved[t.code].scopes, call[k].endpoint)
                            /\ call[k].endpoint # "admin"
      BY DEF AdmittedWasApproved
    <2> DEFINE t == tokens[call[k].by]
    <2>1. t # None /\ t.grant = "code" /\ Grants(t.scopes, call[k].endpoint)
      BY DEF IInv, RunsWithCode
    <2>2. /\ t.code # None /\ t.app = issued[t.code].app
          /\ t.scopes \subseteq issued[t.code].scopes
      BY <2>1 DEF IInv, KeepsToCode
    <2>3. t.code \in Codes
      BY <2>1, <2>2 DEF IInv, TypeOK, Token
    <2>4. issued[t.code] # None
      BY <2>1, <2>3 DEF IInv, BoughtOnce, Buys
    <2>5. /\ approved[t.code].user = Owner
          /\ approved[t.code].app = issued[t.code].app
          /\ approved[t.code].scopes = issued[t.code].scopes
      BY <2>3, <2>4 DEF IInv, IssuedWasApproved
    <2>6. Grants(approved[t.code].scopes, call[k].endpoint)
      BY <2>1, <2>2, <2>5, GrantsGrow
    <2>7. call[k].endpoint # "admin"
      BY <2>1, NoneGrantAdmin
    <2> QED
      BY <2>2, <2>5, <2>6, <2>7
  <1> QED
    BY <1>1, Inductive, PTL

(* Starts and migrations, however often and with whatever rows, leave each *)
(* token its client's to use (TokensSurviveRestarts).                      *)
THEOREM TokensSurviveRestartsHolds == Spec => []TokensSurviveRestarts
  <1>1. IInv => TokensSurviveRestarts
    BY DEF IInv, TypeOK, Forms, Told, TokensSurviveRestarts, Found, Matches
  <1> QED
    BY <1>1, Inductive, PTL

(* After the answer to a revocation no call begins and no application is   *)
(* named with the token, nor with one that has expired (RevokedIsOut).     *)
THEOREM RevokedIsOutHolds == Spec => RevokedIsOut
  <1> DEFINE Out == \A k \in Calls :
                       /\ call'[k].by \in Exchanges
                       /\ call'[k].pc # call[k].pc
                       => /\ call'[k].by \notin told
                          /\ now < tokens[call'[k].by].expires
  <1>1. IInv /\ [Next]_vars => [Out]_vars
    <2> SUFFICES ASSUME IInv, Next PROVE Out
      BY Zenon
    <2>1. ASSUME UNCHANGED call PROVE Out
      BY <2>1
    <2>2. \A x \in Exchanges : Found(x) => x \notin told /\ now < tokens[x].expires
      BY DEF IInv, Told, Found
    <2>3. ASSUME NEW k \in Calls, NEW x \in Exchanges, NEW e \in Endpoints,
                 CallWithToken(k, x, e)
          PROVE  Out
      BY <2>2, <2>3 DEF IInv, TypeOK, CallWithToken, Admits
    <2>4. ASSUME NEW k \in Calls, NEW e \in Endpoints, CallWithSession(k, e) PROVE Out
      BY <2>4, NoneAssumption DEF IInv, TypeOK, CallWithSession
    <2>5. ASSUME NEW k \in Calls, Name(k) PROVE Out
      BY <2>2, <2>5, NoneAssumption, ConstantsAssumption DEF IInv, TypeOK, Name, NoCall
    <2>6. ASSUME NEW k \in Calls, EndCall(k) PROVE Out
      BY <2>6, ConstantsAssumption DEF IInv, TypeOK, EndCall, NoCall
    <2>7. CASE Stop
      BY <2>7, ConstantsAssumption DEF Stop, NoCall
    <2>8. CASE Start \/ Tick \/ Browser
      BY <2>8, <2>1 DEF Start, Tick, Browser, GithubRedirect, Callback, Exchanged, Fetched,
                        Logout, Show, Deny, Approve, requestVars
    <2>9. ASSUME \/ \E a \in Apps : Register(a)
                 \/ \E x \in Exchanges, a \in Apps, c \in Codes, u \in Uris, ask \in Asks :
                       BeginCode(x, a, c, u, ask)
                 \/ \E x \in Exchanges, a \in Apps, ask \in Asks : BeginClient(x, a, ask)
                 \/ \E x \in Exchanges : \/ Revoke(x) \/ Select(x) \/ Purge(x)
                                          \/ Consume(x) \/ Insert(x) \/ Fail(x)
          PROVE  Out
      BY <2>9, <2>1 DEF Register, BeginCode, BeginClient, Revoke, Select, Purge, Consume,
                        Insert, Fail, exchangeUnchanged, requestVars
    <2> QED
      BY <2>3, <2>4, <2>5, <2>6, <2>7, <2>8, <2>9 DEF Next, Client, Server
  <1> QED
    BY <1>1, Inductive, PTL DEF Spec, RevokedIsOut

-----------------------------------------------------------------------------
(* What a right request may count on.                                      *)

(* A code is issued for no more than its application may have.             *)
Issuable ==
    \A c \in Codes : issued[c] # None => issued[c].scopes \subseteq AppScopes[issued[c].app]

(* A request purges a code only after it has expired.                      *)
PurgesLate ==
    \A x \in Exchanges :
        /\ exch[x].at <= now
        /\ exch[x].pc = "purge" =>
              issued[exch[x].code] # None /\ issued[exch[x].code].expires <= now

(* Code c can no longer be bought, for one of the reasons there may be.    *)
Gone(c) == \/ \E y \in Exchanges : Buys(y, c)
           \/ c \in wasted
           \/ issued[c].expires <= now

(* A right request meets its code, and will not be refused for it.         *)
Covered(e) ==
    /\ e.code \in Codes /\ issued[e.code] # None
    /\ issued[e.code].app = e.app /\ issued[e.code].uri = e.uri
    /\ e.at < issued[e.code].expires
    /\ e.ask \subseteq issued[e.code].scopes

Promised ==
    "faults" \notin mode =>
        \A x \in Exchanges : exch[x].right =>
            /\ exch[x].pc \in {"select", "consume", "insert"}
            /\ Covered(exch[x])
            /\ exch[x].code \in codes \/ Gone(exch[x].code)

RightInv == IInv /\ Issuable /\ PurgesLate /\ Promised

LEMMA RightInit == Init => Issuable /\ PurgesLate /\ Promised
  BY DEF Init, Issuable, PurgesLate, Promised, Idle

LEMMA IssuableNext == RightInv /\ [Next]_vars => Issuable'
  <1> SUFFICES ASSUME RightInv, [Next]_vars PROVE Issuable'
    OBVIOUS
  <1>1. ASSUME UNCHANGED issued PROVE Issuable'
    BY <1>1 DEF RightInv, Issuable
  <1>2. ASSUME NEW c \in Codes, Approval(c) PROVE Issuable'
    <2>1. PICK row \in Code : /\ issued' = [issued EXCEPT ![c] = row]
                              /\ row.scopes \subseteq AppScopes[row.app]
      BY <1>2, ApprovalStores DEF RightInv, IInv
    <2> QED
      BY <2>1 DEF RightInv, IInv, TypeOK, Issuable
  <1>3. CASE Start \/ Stop \/ Tick \/ UNCHANGED vars
    BY <1>1, <1>3 DEF Start, Stop, Tick, codeVars, vars
  <1>4. CASE Browser
    BY <1>1, <1>2, <1>4 DEF Browser, GithubRedirect, Callback, Exchanged, Fetched, Logout,
                            Show, Deny, Approval, codeVars
  <1>5. CASE Client
    BY ZenonT(30), <1>1, <1>5 DEF Client, Register, BeginCode, BeginClient, Revoke, CallWithToken,
                      CallWithSession, codeVars, exchangeUnchanged
  <1>6. CASE Server
    BY <1>1, <1>6 DEF Server, Select, Purge, Consume, Insert, Fail, Name, EndCall,
                      codeVars, exchangeUnchanged
  <1> QED
    BY <1>3, <1>4, <1>5, <1>6 DEF Next

(* What an issued code says does not change, and the clock goes on.        *)
LEMMA IssuedStays ==
    ASSUME RightInv, [Next]_vars
    PROVE  /\ \A c \in Codes : issued[c] # None => issued'[c] = issued[c]
           /\ now' \in Nat /\ now <= now'
           /\ mode' = mode
  <1>1. ASSUME UNCHANGED <<issued, now, mode>>
        PROVE  /\ \A c \in Codes : issued[c] # None => issued'[c] = issued[c]
               /\ now' \in Nat /\ now <= now'
               /\ mode' = mode
    BY <1>1 DEF RightInv, IInv, TypeOK
  <1>2. ASSUME Tick
        PROVE  /\ \A c \in Codes : issued[c] # None => issued'[c] = issued[c]
               /\ now' \in Nat /\ now <= now'
               /\ mode' = mode
    BY <1>2 DEF RightInv, IInv, TypeOK, Tick, codeVars
  <1>3. ASSUME NEW c \in Codes, Approval(c)
        PROVE  /\ \A d \in Codes : issued[d] # None => issued'[d] = issued[d]
               /\ now' \in Nat /\ now <= now'
               /\ mode' = mode
    BY <1>3, ApprovalStores DEF RightInv, IInv, TypeOK
  <1>4. CASE Start \/ Stop \/ UNCHANGED vars
    BY <1>1, <1>4 DEF Start, Stop, codeVars, vars
  <1>5. CASE Browser
    BY <1>1, <1>3, <1>5 DEF Browser, GithubRedirect, Callback, Exchanged, Fetched, Logout,
                            Show, Deny, Approval, codeVars
  <1>6. CASE Client
    <2>1. UNCHANGED <<issued, now, mode>>
      <3>1. ASSUME NEW a \in Apps, Register(a) PROVE UNCHANGED <<issued, now, mode>>
        BY <3>1 DEF Register, codeVars
      <3>2. ASSUME NEW x, NEW a, NEW c, NEW u, NEW ask, BeginCode(x, a, c, u, ask)
            PROVE  UNCHANGED <<issued, now, mode>>
        BY <3>2 DEF BeginCode, exchangeUnchanged
      <3>3. ASSUME NEW x, NEW a, NEW ask, BeginClient(x, a, ask)
            PROVE  UNCHANGED <<issued, now, mode>>
        BY <3>3 DEF BeginClient, exchangeUnchanged
      <3>4. ASSUME NEW x, Revoke(x) PROVE UNCHANGED <<issued, now, mode>>
        BY <3>4 DEF Revoke, codeVars
      <3>5. ASSUME NEW k, NEW x, NEW e, CallWithToken(k, x, e) \/ CallWithSession(k, e)
            PROVE  UNCHANGED <<issued, now, mode>>
        BY <3>5 DEF CallWithToken, CallWithSession, codeVars
      <3> QED
        BY <1>6, <3>1, <3>2, <3>3, <3>4, <3>5 DEF Client
    <2> QED
      BY <1>1, <2>1
  <1>7. CASE Server
    BY <1>1, <1>7 DEF Server, Select, Purge, Consume, Insert, Fail, Name, EndCall,
                      codeVars, exchangeUnchanged
  <1> QED
    BY <1>2, <1>4, <1>5, <1>6, <1>7 DEF Next

(* How the requests for tokens go on, of whatever step.                    *)
GoesOn(x) ==
    \/ exch'[x] = exch[x] \/ exch'[x] = Idle
    \/ /\ exch[x].pc = "select"
       /\ exch[x].code \in codes
       /\ exch'[x].at = exch[x].at /\ exch'[x].code = exch[x].code
       /\ exch'[x].pc = "purge" /\ exch'[x].right = exch[x].right
       /\ Expired(issued[exch[x].code], exch[x])
    \/ /\ exch[x].pc \in {"select", "consume"}
       /\ exch'[x].pc \in {"consume", "insert"}
       /\ exch'[x].at = exch[x].at /\ exch'[x].code = exch[x].code
       /\ exch'[x].app = exch[x].app /\ exch'[x].uri = exch[x].uri
       /\ exch'[x].ask = exch[x].ask /\ exch'[x].right = exch[x].right
       /\ exch'[x].pc = "consume" => codes' = codes
       /\ UNCHANGED <<issued, tokens, wasted>>
    \/ /\ exch'[x].pc = "select" /\ exch'[x].at = now
       /\ exch'[x].right =>
             Covered(exch'[x]) /\ exch'[x].code \in codes
       /\ UNCHANGED <<issued, codes, now, tokens, wasted>>
    \/ exch'[x].pc = "insert" /\ exch'[x].at = 0 /\ ~exch'[x].right

LEMMA AllGoOn ==
    ASSUME RightInv, [Next]_vars PROVE \A x \in Exchanges : GoesOn(x)
  <1> USE DEF RightInv, IInv, TypeOK
  <1>1. ASSUME \A x \in Exchanges : exch'[x] \in {Idle, exch[x]}
        PROVE  \A x \in Exchanges : GoesOn(x)
    BY <1>1 DEF GoesOn
  <1>2. ASSUME NEW x \in Exchanges, NEW a \in Apps, NEW c \in Codes, NEW u \in Uris,
               NEW ask \in Asks, BeginCode(x, a, c, u, ask)
        PROVE  \A y \in Exchanges : GoesOn(y)
    <2> DEFINE e == [pc |-> "select", grant |-> "code", app |-> a, code |-> c,
                     uri |-> u, ask |-> ask, scopes |-> {}, at |-> now,
                     right |-> Right(a, c, u, ask)]
    <2>1. /\ exch' = [exch EXCEPT ![x] = e]
          /\ UNCHANGED <<issued, codes, now, tokens, wasted>>
      BY <1>2 DEF BeginCode, exchangeUnchanged
    <2>2. /\ e.pc = "select" /\ e.at = now /\ e.code = c /\ e.app = a /\ e.uri = u
          /\ e.ask = ask /\ e.right = Right(a, c, u, ask)
      OBVIOUS
    <2>3. ASSUME Right(a, c, u, ask) PROVE Covered(e) /\ e.code \in codes
      BY <2>2, <2>3 DEF Covered, Right
    <2> HIDE DEF e
    <2>4. exch'[x] = e
      BY <2>1
    <2>5. GoesOn(x)
      BY <2>1, <2>2, <2>3, <2>4 DEF GoesOn
    <2> QED
      BY <2>1, <2>5 DEF GoesOn
  <1>3. ASSUME NEW x \in Exchanges, NEW a \in Apps, NEW ask \in Asks, BeginClient(x, a, ask)
        PROVE  \A y \in Exchanges : GoesOn(y)
    BY <1>3 DEF BeginClient, GoesOn, Idle
  <1>4. ASSUME NEW x \in Exchanges, Select(x) PROVE \A y \in Exchanges : GoesOn(y)
    <2> DEFINE e == exch[x]
    <2>1. /\ e \in Exchange /\ e.pc = "select"
          /\ UNCHANGED <<codes, tokens, issued, wasted>>
      BY <1>4 DEF Select, exchangeUnchanged
    <2>2. CASE exch' = [exch EXCEPT ![x] = Idle]
      BY <2>2, <1>1
    <2>3. CASE /\ exch' = [exch EXCEPT ![x] = [e EXCEPT !.pc = "purge"]]
               /\ e.code \in codes /\ Expired(issued[e.code], e)
      BY <2>1, <2>3 DEF GoesOn, Exchange
    <2>4. CASE exch' = [exch EXCEPT ![x] = [e EXCEPT !.pc = "consume"]]
      BY <2>1, <2>4 DEF GoesOn, Exchange
    <2> QED
      BY <1>4, <2>2, <2>3, <2>4 DEF Select
  <1>5. ASSUME NEW x \in Exchanges, Consume(x) PROVE \A y \in Exchanges : GoesOn(y)
    <2> DEFINE e == exch[x]
               s == Asked(e.ask, issued[e.code].scopes)
    <2>1. /\ e \in Exchange /\ e.pc = "consume"
          /\ UNCHANGED <<tokens, issued>>
      BY <1>5 DEF Consume, exchangeUnchanged
    <2>2. CASE exch' = [exch EXCEPT ![x] = Idle]
      BY <2>2, <1>1
    <2>3. CASE /\ exch' = [exch EXCEPT ![x] = [e EXCEPT !.pc = "insert", !.scopes = s]]
               /\ UNCHANGED wasted
      BY <2>1, <2>3 DEF GoesOn, Exchange
    <2> QED
      BY <1>5, <2>2, <2>3 DEF Consume
  <1>6. CASE \E x \in Exchanges : Purge(x) \/ Insert(x) \/ Fail(x)
    BY <1>1, <1>6 DEF Purge, Insert, Fail
  <1>7. CASE Start \/ Stop \/ Tick \/ UNCHANGED vars
    BY <1>1, <1>7 DEF Start, Stop, Tick, requestVars, vars
  <1>8. CASE Browser
    BY <1>1, <1>8 DEF Browser, GithubRedirect, Callback, Exchanged, Fetched, Logout,
                      Show, Deny, Approve, requestVars
  <1>9. ASSUME \/ \E a \in Apps : Register(a)
               \/ \E x \in Exchanges :
                     \/ Revoke(x)
                     \/ \E k \in Calls, e \in Endpoints : CallWithToken(k, x, e)
               \/ \E k \in Calls, e \in Endpoints : CallWithSession(k, e)
               \/ \E k \in Calls : Name(k) \/ EndCall(k)
        PROVE  \A y \in Exchanges : GoesOn(y)
    BY <1>1, <1>9 DEF Register, Revoke, CallWithToken, CallWithSession, Name, EndCall,
                      requestVars
  <1> QED
    BY <1>2, <1>3, <1>4, <1>5, <1>6, <1>7, <1>8, <1>9 DEF Next, Client, Server

LEMMA PurgesLateNext == RightInv /\ [Next]_vars => PurgesLate'
  <1> SUFFICES ASSUME RightInv, [Next]_vars, NEW x \in Exchanges
               PROVE  /\ exch'[x].at <= now'
                      /\ exch'[x].pc = "purge" =>
                            /\ issued'[exch'[x].code] # None
                            /\ issued'[exch'[x].code].expires <= now'
    BY DEF PurgesLate
  <1> DEFINE e == exch[x]
  <1>1. /\ e \in Exchange /\ now \in Nat /\ e.at \in Nat /\ e.at <= now
        /\ e.pc \in {"select", "purge"} => e.code \in Codes
        /\ e.pc = "purge" => issued[e.code] # None /\ issued[e.code].expires <= now
        /\ \A c \in codes : c \in Codes /\ issued[c] # None
        /\ \A c \in Codes : issued[c] # None => issued[c].expires \in Nat
    BY DEF RightInv, IInv, TypeOK, ReadsItsCode, PurgesLate, Exchange, Code
  <1>2. /\ \A c \in Codes : issued[c] # None => issued'[c] = issued[c]
        /\ now' \in Nat /\ now <= now'
    BY IssuedStays
  <1>3. CASE exch'[x] = e
    <2>1. e.at <= now'
      BY <1>1, <1>2
    <2>2. ASSUME e.pc = "purge"
          PROVE  issued'[e.code] # None /\ issued'[e.code].expires <= now'
      <3>1. e.code \in Codes /\ issued'[e.code] = issued[e.code] /\ issued[e.code] # None
        BY <1>1, <1>2, <2>2
      <3>2. issued[e.code].expires \in Nat /\ issued[e.code].expires <= now
        BY <1>1, <2>2, <3>1
      <3> QED
        BY <1>1, <1>2, <3>1, <3>2
    <2> QED
      BY <1>3, <2>1, <2>2
  <1>4. CASE exch'[x] = Idle
    BY <1>2, <1>4 DEF Idle
  <1>5. CASE /\ e.pc = "select" /\ e.code \in codes
             /\ exch'[x].at = e.at /\ exch'[x].code = e.code
             /\ Expired(issued[e.code], e)
    <2>1. issued'[e.code] = issued[e.code] /\ issued[e.code] # None
      BY <1>1, <1>2, <1>5
    <2>2. issued[e.code].expires \in Nat /\ issued[e.code].expires <= e.at
      BY <1>1, <1>5 DEF Expired
    <2> QED
      BY <1>1, <1>2, <1>5, <2>1, <2>2
  <1>6. CASE exch'[x].pc # "purge" /\ exch'[x].at \in {e.at, 0, now}
    BY <1>1, <1>2, <1>6
  <1> QED
    BY AllGoOn, <1>3, <1>4, <1>5, <1>6 DEF GoesOn
(* A token that is stored stays with its code.                             *)
LEMMA StoredStays ==
    ASSUME RightInv, [Next]_vars, NEW x \in Exchanges, tokens[x] # None
    PROVE  tokens'[x] # None /\ tokens'[x].code = tokens[x].code
  <1> USE DEF RightInv, IInv
  <1>1. ASSUME UNCHANGED tokens PROVE tokens'[x] # None /\ tokens'[x].code = tokens[x].code
    BY <1>1
  <1>2. ASSUME Start \/ \E y \in Exchanges : Revoke(y)
        PROVE  tokens'[x] # None /\ tokens'[x].code = tokens[x].code
    BY <1>2, TokensStay DEF SameTokens
  <1>3. ASSUME NEW y \in Exchanges, Insert(y)
        PROVE  tokens'[x] # None /\ tokens'[x].code = tokens[x].code
    BY <1>3 DEF Insert, TypeOK, CodeInv, NotYetStored
  <1>4. CASE Stop \/ Tick \/ UNCHANGED vars
    BY <1>1, <1>4 DEF Stop, Tick, vars
  <1>5. CASE Browser
    BY <1>1, <1>5 DEF Browser, GithubRedirect, Callback, Exchanged, Fetched, Logout,
                      Show, Deny, Approve
  <1>6. CASE Client
    BY <1>1, <1>2, <1>6 DEF Client, Register, BeginCode, BeginClient, CallWithToken,
                            CallWithSession
  <1>7. CASE Server
    BY <1>1, <1>3, <1>7 DEF Server, Select, Purge, Consume, Fail, Name, EndCall
  <1> QED
    BY <1>2, <1>4, <1>5, <1>6, <1>7 DEF Next

(* Without faults, an exchange that is to store a token stores it.         *)
LEMMA BoughtStays ==
    ASSUME RightInv, [Next]_vars, "faults" \notin mode, NEW x \in Exchanges, NEW c,
           exch[x].pc = "insert", exch[x].code = c
    PROVE  Buys(x, c)'
  <1> USE DEF RightInv, IInv, TypeOK
  <1>1. ASSUME exch'[x] = exch[x] PROVE Buys(x, c)'
    BY <1>1 DEF Buys
  <1>2. ASSUME NEW y \in Exchanges, Insert(y) PROVE Buys(x, c)'
    <2>1. CASE y = x
      <3>1. tokens'[x] = TokenRow(exch[x]) /\ tokens'[x] # None
        <4>1. TokenRow(exch[x]) \in Token
          BY ConstantsAssumption DEF TokenRow, Exchange, Token
        <4> QED
          BY <1>2, <2>1, <4>1, NoneAssumption DEF Insert
      <3>2. TokenRow(exch[x]).code = c
        BY DEF TokenRow
      <3> QED
        BY <3>1, <3>2 DEF Buys
    <2> QED
      BY <1>1, <1>2, <2>1 DEF Insert
  <1>3. ASSUME NEW y \in Exchanges, NEW a \in Apps, NEW d \in Codes, NEW u \in Uris,
               NEW ask \in Asks, BeginCode(y, a, d, u, ask)
        PROVE  Buys(x, c)'
    BY <1>1, <1>3 DEF BeginCode, Idle
  <1>4. ASSUME NEW y \in Exchanges, NEW a \in Apps, NEW ask \in Asks, BeginClient(y, a, ask)
        PROVE  Buys(x, c)'
    BY <1>1, <1>4 DEF BeginClient, Idle
  <1>5. ASSUME NEW y \in Exchanges, Select(y) \/ Purge(y) \/ Consume(y) PROVE Buys(x, c)'
    BY <1>1, <1>5 DEF Select, Purge, Consume
  <1>6. CASE Start \/ Tick \/ UNCHANGED vars
    BY <1>1, <1>6 DEF Start, Tick, requestVars, vars
  <1>7. CASE Browser
    BY <1>1, <1>7 DEF Browser, GithubRedirect, Callback, Exchanged, Fetched, Logout,
                      Show, Deny, Approve, requestVars
  <1>8. ASSUME \/ \E a \in Apps : Register(a)
               \/ \E y \in Exchanges :
                     \/ Revoke(y)
                     \/ \E k \in Calls, e \in Endpoints : CallWithToken(k, y, e)
               \/ \E k \in Calls, e \in Endpoints : CallWithSession(k, e)
               \/ \E k \in Calls : Name(k) \/ EndCall(k)
        PROVE  Buys(x, c)'
    BY <1>1, <1>8 DEF Register, Revoke, CallWithToken, CallWithSession, Name, EndCall,
                      requestVars
  <1>9. ~Stop /\ \A y \in Exchanges : ~Fail(y)
    BY DEF Stop, Fail
  <1> QED
    BY <1>2, <1>3, <1>4, <1>5, <1>6, <1>7, <1>8, <1>9 DEF Next, Client, Server

(* A code that leaves the table is gone for one of the reasons, ...        *)
LEMMA LeavesGone ==
    ASSUME RightInv, [Next]_vars, "faults" \notin mode, NEW c \in codes, c \notin codes'
    PROVE  Gone(c)'
  <1> USE DEF RightInv, IInv, TypeOK
  <1>1. c \in Codes /\ issued[c] # None
    OBVIOUS
  <1>2. ASSUME NEW x \in Exchanges, Purge(x) PROVE Gone(c)'
    <2>1. exch[x].code = c /\ exch[x].pc = "purge" /\ UNCHANGED <<issued, now>>
      BY <1>2 DEF Purge, exchangeUnchanged
    <2> QED
      BY <2>1 DEF PurgesLate, Gone
  <1>3. ASSUME NEW x \in Exchanges, Consume(x) PROVE Gone(c)'
    <2> DEFINE e == exch[x]
               s == Asked(e.ask, issued[e.code].scopes)
    <2>1. e.code = c /\ e.code \in codes /\ e \in Exchange
      BY <1>3 DEF Consume
    <2>2. CASE exch' = [exch EXCEPT ![x] = [e EXCEPT !.pc = "insert", !.scopes = s]]
      BY <2>1, <2>2 DEF Gone, Buys, Exchange
    <2>3. CASE wasted' = wasted \cup {e.code}
      BY <2>1, <2>3 DEF Gone
    <2> QED
      BY <1>3, <2>1, <2>2, <2>3 DEF Consume, Took
  <1>4. ASSUME codes \subseteq codes' PROVE Gone(c)'
    BY <1>4
  <1>5. CASE Start \/ Stop \/ Tick \/ UNCHANGED vars
    BY <1>4, <1>5 DEF Start, Stop, Tick, codeVars, vars
  <1>6. CASE Browser
    BY <1>4, <1>6 DEF Browser, GithubRedirect, Callback, Exchanged, Fetched, Logout,
                      Show, Deny, Approve, codeVars
  <1>7. CASE Client
    BY ZenonT(30), <1>4, <1>7 DEF Client, Register, BeginCode, BeginClient, Revoke, CallWithToken,
                      CallWithSession, codeVars
  <1>8. CASE Server
    BY <1>2, <1>3, <1>4, <1>8 DEF Server, Select, Insert, Fail, Name, EndCall, codeVars
  <1> QED
    BY <1>5, <1>6, <1>7, <1>8 DEF Next

LEMMA WastedStays == ASSUME [Next]_vars PROVE wasted \subseteq wasted'
  <1>1. CASE Start \/ Stop \/ Tick \/ UNCHANGED vars
    BY <1>1 DEF Start, Stop, Tick, historyVars, vars
  <1>2. CASE Browser
    BY <1>2 DEF Browser, GithubRedirect, Callback, Exchanged, Fetched, Logout,
                Show, Deny, Approve, historyVars
  <1>3. CASE Client
    BY <1>3 DEF Client, Register, BeginCode, BeginClient, Revoke, CallWithToken,
                CallWithSession, historyVars
  <1>4. CASE Server
    BY <1>4 DEF Server, Select, Purge, Consume, Insert, Fail, Name, EndCall, historyVars
  <1> QED
    BY <1>1, <1>2, <1>3, <1>4 DEF Next

(* ... and is not there again.                                             *)
LEMMA GoneStays ==
    ASSUME RightInv, [Next]_vars, "faults" \notin mode, NEW c \in Codes,
           issued[c] # None, Gone(c)
    PROVE  Gone(c)'
  <1>1. ASSUME NEW y \in Exchanges, Buys(y, c) PROVE Gone(c)'
    <2>1. CASE exch[y].pc = "insert" /\ exch[y].code = c
      BY <2>1, BoughtStays DEF Gone
    <2>2. CASE tokens[y] # None /\ tokens[y].code = c
      BY <2>2, StoredStays DEF Gone, Buys
    <2> QED
      BY <1>1, <2>1, <2>2 DEF Buys
  <1>2. CASE c \in wasted
    BY <1>2, WastedStays DEF Gone
  <1>3. CASE issued[c].expires <= now
    <2>1. issued'[c] = issued[c] /\ now' \in Nat /\ now <= now'
      BY IssuedStays
    <2>2. issued[c].expires \in Nat /\ now \in Nat
      BY DEF RightInv, IInv, TypeOK, Code
    <2> QED
      BY <1>3, <2>1, <2>2 DEF Gone
  <1> QED
    BY <1>1, <1>2, <1>3 DEF Gone

LEMMA PromisedNext == RightInv /\ [Next]_vars => Promised'
  <1> SUFFICES ASSUME RightInv, [Next]_vars, "faults" \notin mode,
                      NEW x \in Exchanges, exch'[x].right
               PROVE  /\ exch'[x].pc \in {"select", "consume", "insert"}
                      /\ Covered(exch[x])'
                      /\ exch'[x].code \in codes' \/ Gone(exch[x].code)'
    BY IssuedStays DEF Promised
  <1> DEFINE e == exch[x]
  <1>1. ASSUME e.right
        PROVE  /\ e.pc \in {"select", "consume", "insert"}
               /\ Covered(e) /\ (e.code \in codes \/ Gone(e.code))
    BY <1>1 DEF RightInv, Promised
  <1>2. \A c \in Codes : issued[c] # None => issued'[c] = issued[c]
    BY IssuedStays
  <1>3. ASSUME e.right, NEW c, c = e.code PROVE c \in codes' \/ Gone(c)'
    <2>1. c \in Codes /\ issued[c] # None
      BY <1>1, <1>3 DEF Covered
    <2>2. CASE c \in codes
      BY <2>2, LeavesGone
    <2>3. CASE Gone(c)
      BY <2>1, <2>3, GoneStays
    <2> QED
      BY <1>1, <1>3, <2>2, <2>3
  <1>4. CASE /\ e.right
             /\ exch'[x].pc \in {"select", "consume", "insert"}
             /\ exch'[x].at = e.at /\ exch'[x].code = e.code
             /\ exch'[x].app = e.app /\ exch'[x].uri = e.uri /\ exch'[x].ask = e.ask
    <2>1. Covered(exch[x])'
      BY <1>1, <1>2, <1>4 DEF Covered
    <2>2. exch'[x].code \in codes' \/ Gone(exch[x].code)'
      BY <1>3, <1>4 DEF Gone, Buys
    <2> QED
      BY <1>4, <2>1, <2>2
  <1>5. CASE e.right /\ Expired(issued[e.code], e)
    <2>1. e.at < issued[e.code].expires /\ issued[e.code].expires <= e.at
      BY <1>1, <1>5 DEF Covered, Expired
    <2>2. e.at \in Nat /\ issued[e.code].expires \in Nat
      BY <1>1, <1>5 DEF Covered, RightInv, IInv, TypeOK, Exchange, Code
    <2> QED
      BY <2>1, <2>2
  <1>6. CASE /\ exch'[x].pc = "select" /\ exch'[x].at = now
             /\ Covered(exch'[x]) /\ exch'[x].code \in codes
             /\ UNCHANGED <<issued, codes>>
    BY <1>6 DEF Covered
  <1>7. CASE exch'[x] = Idle
    BY <1>7 DEF Idle
  <1> QED
    BY AllGoOn, <1>1, <1>4, <1>5, <1>6, <1>7 DEF GoesOn

(* Whatever wrong requests there are, a right one gets its token unless    *)
(* the code is gone for a reason that is not theirs (RightIsServed).       *)
THEOREM RightIsServedHolds == Spec => RightIsServed
  <1> DEFINE Done(c) == \/ \E y \in Exchanges : /\ tokens'[y] # None
                                                /\ tokens'[y].code = c
                        \/ \E y \in Buying : exch[y].code = c
                        \/ c \in wasted
                        \/ issued[c].expires <= now
             Served == \A x \in Exchanges :
                          LET c == exch[x].code
                          IN  /\ "faults" \notin mode
                              /\ exch[x].right
                              /\ exch'[x] = Idle
                              => Done(c)
  <1>1. RightInv /\ [Next]_vars => [Served]_vars
    <2> SUFFICES ASSUME RightInv, Next, NEW x \in Exchanges,
                        "faults" \notin mode, exch[x].right, exch'[x] = Idle
                 PROVE  Done(exch[x].code)
      BY Zenon
    <2> DEFINE e == exch[x]
    <2>1. /\ e.pc \in {"select", "consume", "insert"}
          /\ Covered(e) /\ (e.code \in codes \/ Gone(e.code))
          /\ e \in Exchange /\ e # Idle /\ e.right # FALSE
      BY DEF RightInv, IInv, TypeOK, Promised, Idle
    <2>2. ASSUME Gone(e.code) PROVE Done(e.code)
      <3>1. ASSUME NEW y \in Exchanges, Buys(y, e.code) PROVE Done(e.code)
        BY <3>1, StoredStays DEF Buys, Buying
      <3> QED
        BY <2>2, <3>1 DEF Gone
    <2>3. ASSUME exch'[x] = exch[x] PROVE Done(e.code)
      BY <2>1, <2>3
    <2>4. ASSUME NEW y \in Exchanges, Insert(y) PROVE Done(e.code)
      <3>1. CASE y # x
        BY <2>3, <2>4, <3>1 DEF Insert, RightInv, IInv, TypeOK
      <3>2. CASE y = x
        <4>1. e.pc = "insert"
          BY <2>4, <3>2 DEF Insert
        <4> QED
          BY <4>1 DEF Buying
      <3> QED
        BY <3>1, <3>2
    <2>5. ASSUME NEW y \in Exchanges, Select(y) PROVE Done(e.code)
      <3>1. CASE y # x
        BY <2>3, <2>5, <3>1 DEF Select, RightInv, IInv, TypeOK
      <3>2. CASE y = x
        <4>1. BoundTo(issued[e.code], e)
          BY <2>1 DEF Covered, BoundTo
        <4>2. [e EXCEPT !.pc = "purge"] # Idle /\ [e EXCEPT !.pc = "consume"] # Idle
          BY <2>1 DEF Idle, Exchange
        <4>3. e.code \notin codes
          BY <2>5, <3>2, <4>1, <4>2 DEF Select, RightInv, IInv, TypeOK
        <4> QED
          BY <2>1, <2>2, <4>3
      <3> QED
        BY <3>1, <3>2
    <2>6. ASSUME NEW y \in Exchanges, Consume(y) PROVE Done(e.code)
      <3>1. CASE y # x
        BY <2>3, <2>6, <3>1 DEF Consume, RightInv, IInv, TypeOK
      <3>2. CASE y = x
        <4> DEFINE s == Asked(e.ask, issued[e.code].scopes)
        <4>1. s \subseteq issued[e.code].scopes
          BY <2>1 DEF Asked, Covered
        <4>2. issued[e.code].scopes \subseteq AppScopes[e.app]
          BY <2>1 DEF Covered, RightInv, Issuable
        <4>3. Within(s, issued[e.code].scopes) /\ Within(s, AppScopes[e.app])
          BY <4>1, <4>2 DEF Within
        <4>4. [e EXCEPT !.pc = "insert", !.scopes = s] # Idle
          BY <2>1 DEF Idle, Exchange
        <4> HIDE DEF s
        <4>5. ~Took(e)
          BY <2>6, <3>2, <4>3, <4>4 DEF Consume, RightInv, IInv, TypeOK, s
        <4> QED
          BY <2>1, <2>2, <4>5 DEF Took
      <3> QED
        BY <3>1, <3>2
    <2>7. ASSUME NEW y \in Exchanges, Purge(y) PROVE Done(e.code)
      BY <2>1, <2>3, <2>7 DEF Purge, RightInv, IInv, TypeOK
    <2>8. ASSUME NEW y \in Exchanges,
                 \/ \E a \in Apps, c \in Codes, u \in Uris, ask \in Asks :
                       BeginCode(y, a, c, u, ask)
                 \/ \E a \in Apps, ask \in Asks : BeginClient(y, a, ask)
          PROVE  Done(e.code)
      BY <2>1, <2>3, <2>8 DEF BeginCode, BeginClient, RightInv, IInv, TypeOK
    <2>9. CASE Start \/ Tick
      BY <2>3, <2>9 DEF Start, Tick, requestVars
    <2>10. CASE Browser
      BY <2>3, <2>10 DEF Browser, GithubRedirect, Callback, Exchanged, Fetched, Logout,
                         Show, Deny, Approve, requestVars
    <2>11. ASSUME \/ \E a \in Apps : Register(a)
                  \/ \E y \in Exchanges :
                        \/ Revoke(y)
                        \/ \E k \in Calls, f \in Endpoints : CallWithToken(k, y, f)
                  \/ \E k \in Calls, f \in Endpoints : CallWithSession(k, f)
                  \/ \E k \in Calls : Name(k) \/ EndCall(k)
           PROVE  Done(e.code)
      BY <2>3, <2>11 DEF Register, Revoke, CallWithToken, CallWithSession, Name, EndCall,
                         requestVars
    <2>12. ~Stop /\ \A y \in Exchanges : ~Fail(y)
      BY DEF Stop, Fail
    <2> QED
      BY <2>4, <2>5, <2>6, <2>7, <2>8, <2>9, <2>10, <2>11, <2>12
         DEF Next, Client, Server
  <1>2. Init => Issuable /\ PurgesLate /\ Promised
    BY RightInit
  <1>3. IInv /\ Issuable /\ PurgesLate /\ Promised /\ [Next]_vars
        => Issuable' /\ PurgesLate' /\ Promised'
    BY IssuableNext, PurgesLateNext, PromisedNext DEF RightInv
  <1> QED
    BY <1>1, <1>2, <1>3, Inductive, PTL DEF Spec, RightIsServed, RightInv
=============================================================================

---------------------------- MODULE AccessProofs ----------------------------
(***************************************************************************)
(* What Access guarantees for every set of people, passwords, connectors,  *)
(* configured tokens and requests, and every number of rows, names, calls, *)
(* deadlines and starts of the process.                                    *)
(***************************************************************************)
EXTENDS Access, FiniteSetTheorems, TLAPS

-----------------------------------------------------------------------------
(* The inductive invariant. *)

InviteIds  == 1 .. MaxInvites
SessionIds == 1 .. MaxSessions
LinkIds    == 1 .. MaxLinks
TokenIds   == 1 .. MaxTokens
CodeIds    == 1 .. MaxCodes
ClientStates == {"none", "registered", "stale", "approved", "swept"}

Types ==
  /\ accounts \in [Users -> Account] /\ invites \in [InviteIds -> Invite]
  /\ sessions \in [SessionIds -> Session] /\ links \in [LinkIds -> Link]
  /\ tokens \in [TokenIds -> ApiToken] /\ codes \in [CodeIds -> Code]
  /\ clients \in [Clients -> ClientStates]
  /\ boot \in {"token", "seed", "invite", "up", "refused"} /\ key \in Keys \union {"unset"}
  /\ begun \in 0 .. MaxCalls /\ expiries \in 0 .. MaxExpiries /\ boots \in 1 .. MaxBoots

\* A call's next step with what it read, of the right types.
Typed(s) ==
  /\ s.next = "spend" => s.invite \in InviteIds /\ s.who \in People /\ s.pw \in Passwords
  /\ s.next = "link" => s.who \in People /\ s.purpose \in Purposes
  /\ s.next \in {"verified", "session", "connected", "mint", "approve", "password"} =>
       s.who \in People
  /\ s.next = "password" => s.pw \in Passwords
  /\ s.next = "logout" => s.session \in SessionIds
  /\ s.next \in {"mint", "grant"} => s.name \in Names \ {0}
  /\ s.next = "mint" => s.renames \in BOOLEAN
  /\ s.next = "revoke" => s.token \in TokenIds
  /\ s.next = "invite" => s.by \in People /\ s.for \in People \union {NoOne}
  /\ s.next = "withdraw" => s.invite \in InviteIds
  /\ s.next = "standing" => s.who \in Users /\ s.on \in BOOLEAN
  /\ s.next = "approve" => s.client \in Clients
  /\ s.next = "grant" => s.code \in CodeIds

\* What is still so of what a call read, whatever came in between.
Knows(s) ==
  /\ s.next = "spend" =>
       invites[s.invite].st # "unused" /\ invites[s.invite].for \in {NoOne, s.who}
  /\ s.next \in {"link", "verified", "password", "connected"} => accounts[s.who].exists
  /\ s.next \in {"session", "mint", "approve"} => accounts[s.who].verified
  /\ s.next = "standing" /\ s.on => AnyAccountHasEmail /\ ~accounts[s.who].admin
  /\ s.next = "revoke" => tokens[s.token].of \in Users

CallsFit == call \in [Calls -> Step] /\ \A c \in Calls : Knows(call[c])

\* Nobody who never registered is confirmed or an administrator, nor is the
\* machine, and rows are of accounts that did.
AccountsFit ==
  /\ ~accounts[Machine].admin
  /\ \A p \in People : ~accounts[p].exists => ~accounts[p].verified /\ ~accounts[p].admin
SessionsFit == \A s \in SessionIds : sessions[s].live => sessions[s].of \in People
LinksFit == \A l \in LinkIds :
  /\ links[l].live => links[l].of \in People
  /\ links[l].of \in People => accounts[links[l].of].exists

\* Ids are drawn in order.
LinksInOrder == \A l, m \in LinkIds : l <= m /\ links[l].of = NoOne => links[m] = NoLink
TokensInOrder == \A t, u \in TokenIds : t <= u /\ tokens[t].of = NoOne => tokens[u] = NoToken

\* The tokens of the machine account are those the process seeded, and a token
\* revoked by its id does not work.
TokensFit == \A t \in TokenIds :
  /\ tokens[t].of = Machine =>
       /\ tokens[t].name = 0 /\ tokens[t].client = NoOne
       /\ tokens[t].key \in Keys /\ ~tokens[t].expired
  /\ tokens[t].of # Machine => tokens[t].key = "random"
  /\ tokens[t].taken => ~tokens[t].live
OneSeeded == \A t, u \in TokenIds :
  tokens[t].of = Machine /\ tokens[t].live /\ tokens[u].of = Machine /\ tokens[u].live => t = u
\* The configured token's row is there, and it works unless somebody revoked it.
Seats(t) ==
  /\ tokens[t].of = Machine /\ tokens[t].key = key
  /\ tokens[t].live \/ tokens[t].taken
  /\ \A u \in TokenIds : tokens[u].of = Machine /\ tokens[u].live => u = t
BootFits ==
  /\ boot \in {"seed", "refused"} => key # "unset"
  /\ boot \in {"invite", "up"} /\ key # "unset" => \E t \in TokenIds : Seats(t)

\* A code is a confirmed account's, and the token it bought is that account's too.
CodesFit == \A k \in CodeIds :
  /\ codes[k].of = NoOne => codes[k] = NoCode
  /\ codes[k].of # NoOne => codes[k].client \in Clients /\ accounts[codes[k].of].verified
  /\ codes[k].token # 0 =>
       /\ tokens[codes[k].token].of = codes[k].of
       /\ tokens[codes[k].token].client = codes[k].client

\* At most one working invite is nobody's.
OneBootstrapInvite == \A i, j \in InviteIds :
  InviteLive(i) /\ invites[i].by = NoOne /\ InviteLive(j) /\ invites[j].by = NoOne => i = j

Rows ==
  /\ AccountsFit /\ SessionsFit /\ LinksFit /\ LinksInOrder /\ TokensInOrder
  /\ TokensFit /\ OneSeeded /\ BootFits /\ CodesFit /\ OneBootstrapInvite
Promises ==
  InviteBuysOneAccount /\ AdministratorStays /\ OldCredentialsEnd /\ ConfirmedOnly /\ GrantsAreBoughtOnce

AccessInv == Types /\ CallsFit /\ Rows /\ Promises

-----------------------------------------------------------------------------
(* Types. *)

\* The bounds are positive numbers.
LEMMA Bounds ==
  /\ MaxInvites \in Nat \ {0} /\ MaxSessions \in Nat \ {0} /\ MaxLinks \in Nat \ {0}
  /\ MaxTokens \in Nat \ {0} /\ MaxCodes \in Nat \ {0} /\ NameAttempts \in Nat \ {0}
  /\ MaxCalls \in Nat \ {0} /\ MaxExpiries \in Nat \ {0} /\ MaxBoots \in Nat \ {0}
BY BoundAssumption DEF BoundAssumption

\* Row by row, the ids of the tables.
LEMMA Domains ==
  ASSUME Types
  PROVE  /\ DOMAIN invites = InviteIds /\ DOMAIN sessions = SessionIds /\ DOMAIN links = LinkIds
         /\ DOMAIN tokens = TokenIds /\ DOMAIN codes = CodeIds
BY DEF Types

\* What a call holds has the types its step needs.
LEMMA StepTyped ==
  ASSUME Types, NEW s \in Step
  PROVE  Typed(s)
<1> USE Domains DEF Typed, InviteIds, SessionIds, TokenIds, CodeIds
<1>1. CASE s \in [next : {"none"}]
  BY <1>1
<1>2. CASE s \in [next : {"spend"}, invite : DOMAIN invites, who : People, pw : Passwords]
  BY <1>2
<1>3. CASE s \in [next : {"link"}, who : People, purpose : Purposes]
  BY <1>3
<1>4. CASE s \in [next : {"verified", "session", "connected"}, who : People]
  BY <1>4
<1>5. CASE s \in [next : {"password"}, who : People, pw : Passwords]
  BY <1>5
<1>6. CASE s \in [next : {"logout"}, session : DOMAIN sessions]
  BY <1>6
<1>7. CASE s \in [next : {"mint"}, who : People, name : Names \ {0}, renames : BOOLEAN]
  BY <1>7
<1>8. CASE s \in [next : {"revoke"}, token : 1 .. MaxTokens]
  BY <1>8
<1>9. CASE s \in [next : {"invite"}, by : People, for : People \union {NoOne}]
  BY <1>9
<1>10. CASE s \in [next : {"withdraw"}, invite : DOMAIN invites]
  BY <1>10
<1>11. CASE s \in [next : {"standing"}, who : Users, on : BOOLEAN]
  BY <1>11
<1>12. CASE s \in [next : {"approve"}, client : Clients, who : People]
  BY <1>12
<1>13. CASE s \in [next : {"grant"}, code : DOMAIN codes, name : Names \ {0}]
  BY <1>13
<1> HIDE DEF Typed
<1> QED BY <1>1, <1>2, <1>3, <1>4, <1>5, <1>6, <1>7, <1>8, <1>9, <1>10, <1>11, <1>12, <1>13 DEF Step

\* So a call under way has a typed step and knows what that step rests on.
LEMMA CallHolds ==
  ASSUME AccessInv, NEW c \in Calls
  PROVE  call[c] \in Step /\ Typed(call[c]) /\ Knows(call[c])
BY StepTyped DEF AccessInv, CallsFit

-----------------------------------------------------------------------------
(* What a step may do to the tables. *)

\* A registration spends an invite and creates its account.
Enters(p) ==
  /\ ~accounts[p].exists
  /\ \E pw \in Passwords : CreateIdentityAccount(p, pw)
  /\ \E i \in InviteIds : invites[i].for \in {NoOne, p} /\ SpendInvite(i, p)
  /\ UNCHANGED <<sessions, links, tokens, clients, codes>>

\* An account changes and stays who it was.
Stays(p) ==
  /\ accounts[p].exists /\ accounts' \in [Users -> Account]
  /\ \A q \in Users \ {p} : accounts'[q] = accounts[q]
  /\ accounts'[p].exists /\ accounts'[p].admin = accounts[p].admin
  /\ accounts[p].verified => accounts'[p].verified
Marks(p) ==
  /\ Stays(p) /\ accounts'[p].era = accounts[p].era
  /\ accounts'[p].disabled => accounts[p].disabled
  /\ UNCHANGED <<invites, sessions, links, tokens, clients, codes>>
\* Its password is set or it is suspended, and its credentials end.
Ends(p) ==
  /\ Stays(p) /\ accounts'[p].era = accounts[p].era + 1
  /\ accounts'[p].disabled => accounts[p].disabled \/ ~accounts[p].admin
  /\ sessions' = RevokeAccountSessions(p) /\ links' = RevokeAccountEmailTokens(p)
  /\ UNCHANGED <<invites, tokens, clients, codes>>

Opens(p) ==
  /\ accounts[p].verified
  /\ \E s \in SessionIds : IsNext(s, sessions, NoSession) /\ CreateSession(s, p)
  /\ UNCHANGED <<accounts, invites, links, tokens, clients, codes>>
SessionsDrop ==
  /\ sessions' \in [SessionIds -> Session]
  /\ \A s \in SessionIds :
       /\ sessions'[s].of = sessions[s].of /\ sessions'[s].era = sessions[s].era
       /\ sessions'[s].live => sessions[s].live
  /\ UNCHANGED <<accounts, invites, links, tokens, clients, codes>>

Mails(p) ==
  /\ accounts[p].exists
  /\ \E purpose \in Purposes : CreateEmailToken(p, purpose)
  /\ UNCHANGED <<accounts, invites, sessions, tokens, clients, codes>>
LinksDrop ==
  /\ links' \in [LinkIds -> Link]
  /\ \A l \in LinkIds :
       /\ links'[l].of = links[l].of /\ links'[l].era = links[l].era
       /\ links'[l].purpose = links[l].purpose
       /\ links'[l].live => links[l].live
       /\ links[l] = NoLink => links'[l] = NoLink
  /\ UNCHANGED <<accounts, invites, sessions, tokens, clients, codes>>

TokensDrop ==
  /\ tokens' \in [TokenIds -> ApiToken]
  /\ \A t \in TokenIds :
       /\ tokens'[t].of = tokens[t].of /\ tokens'[t].name = tokens[t].name
       /\ tokens'[t].client = tokens[t].client /\ tokens'[t].key = tokens[t].key
       /\ tokens'[t].live => tokens[t].live
       /\ tokens[t].of = NoOne => tokens'[t] = tokens[t]
       /\ tokens[t].of = Machine =>
            /\ tokens'[t].expired = tokens[t].expired
            /\ tokens[t].live => tokens'[t].live \/ tokens'[t].taken
       /\ tokens[t].taken => tokens'[t].taken
       /\ tokens'[t].taken => tokens[t].taken \/ ~tokens'[t].live
  /\ UNCHANGED <<accounts, invites, sessions, links, clients, codes>>
Mints(p) ==
  /\ accounts[p].verified
  /\ \E name \in Names \ {0} : CreateAPIToken(p, name, "random")
  /\ UNCHANGED <<accounts, invites, sessions, links, clients, codes>>
Grants(k) ==
  /\ \E name \in Names \ {0} : GrantClientToken(k, name)
  /\ UNCHANGED <<accounts, invites, sessions, links, clients>>
Retires ==
  /\ tokens' = RevokeTokensNamed(Machine, 0)
  /\ UNCHANGED <<accounts, invites, sessions, links, clients, codes>>
Seeds ==
  /\ key \in Keys /\ CreateAPIToken(Machine, 0, key)
  /\ UNCHANGED <<accounts, invites, sessions, links, clients, codes>>
Founds ==
  /\ accounts' = [accounts EXCEPT ![Machine] = [NoAccount EXCEPT !.exists = TRUE]]
  /\ UNCHANGED <<invites, sessions, links, tokens, clients, codes>>

Approves(cl, p) ==
  /\ accounts[p].verified /\ ApproveOAuthClientAndCreateCode(cl, p)
  /\ UNCHANGED <<accounts, invites, sessions, links, tokens>>
CodesExpire ==
  /\ codes' \in [CodeIds -> Code]
  /\ \A k \in CodeIds :
       /\ codes'[k].of = codes[k].of /\ codes'[k].client = codes[k].client
       /\ codes'[k].token = codes[k].token /\ codes'[k].consumed = codes[k].consumed
       /\ codes[k].of = NoOne => codes'[k] = codes[k]
  /\ UNCHANGED <<accounts, invites, sessions, links, tokens, clients>>
ClientsMove ==
  /\ clients' \in [Clients -> ClientStates]
  /\ \A cl \in Clients : clients[cl] = "approved" => clients'[cl] = "approved"
  /\ UNCHANGED <<accounts, invites, sessions, links, tokens, codes>>

Invites(by) ==
  /\ by = NoOne => ~AnyLiveBootstrapInvite
  /\ \E for \in People \union {NoOne} : CreateInvite(by, for)
  /\ UNCHANGED <<accounts, sessions, links, tokens, clients, codes>>
InvitesDrop ==
  /\ invites' \in [InviteIds -> Invite]
  /\ \A i \in InviteIds :
       /\ invites'[i].by = invites[i].by /\ invites'[i].for = invites[i].for
       /\ invites'[i].spentBy = invites[i].spentBy
       /\ invites[i].expired => invites'[i].expired
       /\ invites'[i].st = invites[i].st \/ (invites[i].st = "live" /\ invites'[i].st = "revoked")
  /\ UNCHANGED <<accounts, sessions, links, tokens, clients, codes>>

\* While the platform serves; the rest is what a start does.
Serving ==
  \/ UNCHANGED tables
  \/ \E p \in People : Enters(p) \/ Opens(p) \/ Mails(p) \/ Mints(p)
  \/ \E u \in Users : Marks(u) \/ Ends(u)
  \/ SessionsDrop \/ LinksDrop \/ TokensDrop \/ CodesExpire \/ ClientsMove \/ InvitesDrop
  \/ \E k \in CodeIds : Grants(k)
  \/ \E cl \in Clients, p \in People : Approves(cl, p)
  \/ \E by \in People \union {NoOne} : Invites(by)
Shape == Serving \/ Retires \/ Seeds \/ Founds

\* Retiring, confirming or ending leaves the other columns alone: the rows an
\* update by id may touch.
LEMMA AccountUpdates ==
  ASSUME AccessInv, NEW p \in Users, accounts[p].exists
  PROVE  /\ accounts' = MarkEmailVerified(p) \/ accounts' = MarkAccountConnected(p) =>
              Stays(p) /\ accounts'[p].era = accounts[p].era
              /\ (accounts'[p].disabled => accounts[p].disabled)
         /\ \A pw \in Passwords : accounts' = SetPasswordHash(p, pw) =>
              Stays(p) /\ accounts'[p].era = accounts[p].era + 1
              /\ accounts'[p].disabled = accounts[p].disabled
         /\ \A on \in BOOLEAN : accounts' = SetDisabledAt(p, on) =>
              Stays(p) /\ accounts'[p].era = (IF on THEN accounts[p].era + 1 ELSE accounts[p].era)
              /\ accounts'[p].disabled = on
<1>1. accounts \in [Users -> Account] /\ accounts[p] \in Account
  BY DEF AccessInv, Types
<1>2. ASSUME accounts' = MarkEmailVerified(p) \/ accounts' = MarkAccountConnected(p)
      PROVE  Stays(p) /\ accounts'[p].era = accounts[p].era
             /\ (accounts'[p].disabled => accounts[p].disabled)
  <2>1. CASE accounts' = MarkEmailVerified(p)
    BY <1>1, <2>1 DEF MarkEmailVerified, Stays, Account
  <2>2. CASE accounts' = MarkAccountConnected(p)
    BY <1>1, <2>2 DEF MarkAccountConnected, Stays, Account
  <2> QED BY <1>2, <2>1, <2>2
<1>3. ASSUME NEW pw \in Passwords, accounts' = SetPasswordHash(p, pw)
      PROVE  Stays(p) /\ accounts'[p].era = accounts[p].era + 1
             /\ accounts'[p].disabled = accounts[p].disabled
  BY <1>1, <1>3 DEF SetPasswordHash, Stays, Account
<1>4. ASSUME NEW on \in BOOLEAN, accounts' = SetDisabledAt(p, on)
      PROVE  Stays(p) /\ accounts'[p].era = (IF on THEN accounts[p].era + 1 ELSE accounts[p].era)
             /\ accounts'[p].disabled = on
  <2>1. CASE on
    BY <1>1, <1>4, <2>1 DEF SetDisabledAt, Stays, Account
  <2>2. CASE ~on
    BY <1>1, <1>4, <2>2 DEF SetDisabledAt, Stays, Account
  <2> QED BY <2>1, <2>2
<1> QED BY <1>2, <1>3, <1>4

\* What a request does when it begins, on a page or on a route.
Asks(c) ==
  \/ \E p \in People :
       \/ Resend(c, p) \/ Forgot(c, p)
       \/ \E pw \in Passwords :
            \/ Login(c, p, pw)
            \/ \E i \in InviteIds : Register(c, i, p, pw)
            \/ \E l \in LinkIds : Reset(c, l, pw)
  \/ \E l \in LinkIds : Verify(c, l)
  \/ \E s \in SessionIds :
       \/ Logout(c, s) \/ MarkConnected(c, s)
       \/ \E name \in Names \ {0}, renames \in BOOLEAN : MintToken(c, s, name, renames)
       \/ \E t \in TokenIds : AuthenticateSession(s) /\ RevokeToken(c, t, sessions[s].of)
       \/ \E cl \in Clients : ApproveClient(c, s, cl)
       \/ \E i \in InviteIds : WithdrawInvite(c, s, i)
       \/ \E for \in People \union {NoOne} : IssueInvite(c, s, for)
       \/ \E p \in Users :
            \/ \E on \in BOOLEAN : ChangeStanding(c, s, p, on)
            \/ \E t \in TokenIds : RevokeToken(c, t, p)
  \/ \E cl \in Clients : RegisterClient(c, cl)
  \/ \E k \in CodeIds, pkce, rest \in BOOLEAN : Grant(c, k, pkce, rest)

\* The pages ask what the routes ask.
LEMMA RequestsAsk ==
  ASSUME AccessInv, NEW c \in Calls, Page(c) \/ Route(c)
  PROVE  Asks(c)
<1>1. /\ DOMAIN invites = InviteIds /\ DOMAIN sessions = SessionIds /\ DOMAIN links = LinkIds
      /\ DOMAIN tokens = TokenIds /\ DOMAIN codes = CodeIds
  BY Domains DEF AccessInv
<1>2. Names \ {0} # {} /\ 1 \in Names \ {0}
  BY Bounds DEF Names
<1>3. CASE Page(c)
  <2>1. ASSUME NEW nonce \in Nonces, NEW field \in Nonces, NEW p \in People,
               \/ ResendSubmit(c, p, nonce, field) \/ ForgotSubmit(c, p, nonce, field)
               \/ \E pw \in Passwords :
                    \/ LoginSubmit(c, p, pw, nonce, field)
                    \/ \E i \in DOMAIN invites : RegisterSubmit(c, i, p, pw, nonce, field)
                    \/ \E l \in DOMAIN links : ResetSubmit(c, l, pw, nonce, field)
        PROVE  Asks(c)
    BY <1>1, <2>1 DEF Asks, ResendSubmit, ForgotSubmit, LoginSubmit, RegisterSubmit, ResetSubmit
  <2>2. ASSUME NEW l \in DOMAIN links, VerifyPage(c, l) PROVE Asks(c)
    BY <1>1, <2>2 DEF Asks, VerifyPage
  <2>3. ASSUME NEW s \in SessionIds, NEW field \in SessionIds,
               \/ LogoutPage(c, s, field) \/ ConnectMint(c, s, field) \/ ConnectPage(c, s)
               \/ \E name \in Names \ {0} : TokenMint(c, s, field, name)
               \/ \E t \in DOMAIN tokens : TokenRevoke(c, s, field, t)
               \/ \E cl \in Clients : AuthorizeSubmit(c, s, field, cl)
               \/ \E i \in DOMAIN invites : AdminInviteRevoke(c, s, field, i)
               \/ \E for \in People \union {NoOne} : AdminInviteMint(c, s, field, for)
        PROVE  Asks(c)
    <3>1. CASE LogoutPage(c, s, field) \/ ConnectMint(c, s, field) \/ ConnectPage(c, s)
      BY <1>2, <3>1 DEF Asks, LogoutPage, ConnectMint, ConnectPage
    <3>2. CASE \E name \in Names \ {0} : TokenMint(c, s, field, name)
      BY <3>2 DEF Asks, TokenMint
    <3>3. CASE \E t \in DOMAIN tokens : TokenRevoke(c, s, field, t)
      BY <1>1, <3>3 DEF Asks, TokenRevoke
    <3>4. CASE \E cl \in Clients : AuthorizeSubmit(c, s, field, cl)
      BY <3>4 DEF Asks, AuthorizeSubmit
    <3>5. CASE \E i \in DOMAIN invites : AdminInviteRevoke(c, s, field, i)
      BY <1>1, <3>5 DEF Asks, AdminInviteRevoke
    <3>6. CASE \E for \in People \union {NoOne} : AdminInviteMint(c, s, field, for)
      BY <3>6 DEF Asks, AdminInviteMint
    <3> QED BY <2>3, <3>1, <3>2, <3>3, <3>4, <3>5, <3>6
  <2>4. ASSUME NEW s \in SessionIds, NEW field \in SessionIds, NEW p \in Users, NEW typed \in Users,
               \/ AdminDisable(c, s, field, p, typed) \/ AdminEnable(c, s, field, p)
               \/ \E t \in DOMAIN tokens : AdminRevokeToken(c, s, field, p, t)
        PROVE  Asks(c)
    <3>1. CASE AdminDisable(c, s, field, p, typed)
      BY <3>1 DEF Asks, AdminDisable
    <3>2. CASE AdminEnable(c, s, field, p)
      BY <3>2 DEF Asks, AdminEnable
    <3>3. CASE \E t \in DOMAIN tokens : AdminRevokeToken(c, s, field, p, t)
      BY <1>1, <3>3 DEF Asks, AdminRevokeToken
    <3> QED BY <2>4, <3>1, <3>2, <3>3
  <2> QED BY <1>1, <1>3, <2>1, <2>2, <2>3, <2>4 DEF Page
<1>4. CASE Route(c)
  <2>1. CASE AuthRoutes(c)
    BY <1>1, <2>1 DEF Asks, AuthRoutes
  <2>2. CASE MintRoute(c) \/ RevokeRoute(c) \/ InviteRoutes(c)
    BY <1>1, <2>2 DEF Asks, MintRoute, RevokeRoute, InviteRoutes
  <2>3. CASE AdminRoutes(c)
    BY <1>1, <2>3 DEF Asks, AdminRoutes
  <2>4. CASE ClientRegistration(c) \/ TokenExchange(c)
    BY <1>1, <2>4 DEF Asks, ClientRegistration, TokenExchange
  <2> QED BY <1>4, <2>1, <2>2, <2>3, <2>4 DEF Route
<1> QED BY <1>3, <1>4

\* Beginning reads, but for a link it spends or a client that registers.
LEMMA AskShape ==
  ASSUME AccessInv, NEW c \in Calls, Asks(c)
  PROVE  Serving
<1>1. \/ UNCHANGED tables
      \/ \E l \in LinkIds, purpose \in Purposes :
           ConsumeEmailToken(l, purpose) /\ UNCHANGED <<accounts, invites, sessions, tokens, clients, codes>>
      \/ \E cl \in Clients : RegisterClient(c, cl)
  BY DEF Asks, Resend, Forgot, Login, Register, Reset, Verify, Logout, MarkConnected, MintToken,
    RevokeToken, ApproveClient, WithdrawInvite, IssueInvite, ChangeStanding, Grant, Purposes
<1>2. ASSUME NEW l \in LinkIds, NEW purpose \in Purposes, ConsumeEmailToken(l, purpose),
             UNCHANGED <<accounts, invites, sessions, tokens, clients, codes>>
      PROVE  LinksDrop
  <2>1. links \in [LinkIds -> Link] /\ l \in LinkIds /\ links[l].live
    BY <1>2, Domains DEF AccessInv, Types, ConsumeEmailToken
  <2>2. links' = [links EXCEPT ![l].live = FALSE]
    BY <1>2 DEF ConsumeEmailToken
  <2>3. links' \in [LinkIds -> Link]
    BY <2>1, <2>2 DEF Link
  <2>4. ASSUME NEW m \in LinkIds
        PROVE  /\ links'[m].of = links[m].of /\ links'[m].era = links[m].era
               /\ links'[m].purpose = links[m].purpose /\ (links'[m].live => links[m].live)
               /\ links[m] = NoLink => links'[m] = NoLink
    <3>1. links[m] \in Link
      BY <2>1
    <3>2. NoLink.live = FALSE
      BY DEF NoLink
    <3> QED BY <2>1, <2>2, <3>1, <3>2 DEF Link
  <2> QED BY <1>2, <2>3, <2>4 DEF LinksDrop
<1>3. ASSUME NEW cl \in Clients, RegisterClient(c, cl)
      PROVE  ClientsMove
  BY <1>3 DEF RegisterClient, ClientsMove, ClientStates, AccessInv, Types
<1> QED BY <1>1, <1>2, <1>3 DEF Serving

\* What the transaction of a request does.
LEMMA ContinueShape ==
  ASSUME AccessInv, NEW c \in Calls, Continue(c)
  PROVE  Serving
<1>1. call[c] \in Step /\ Typed(call[c]) /\ Knows(call[c])
  BY CallHolds
<1>2. PICK s : s = call[c]
  OBVIOUS
<1>3. Typed(s) /\ Knows(s)
  BY <1>1, <1>2
<1>4. \A p \in People : accounts[p].verified => accounts[p].exists
  BY DEF AccessInv, Rows, AccountsFit
<1>5. CASE Spend(c)
  <2>1. s.next = "spend" /\ s.who \in People /\ s.pw \in Passwords /\ s.invite \in InviteIds
        /\ invites[s.invite].for \in {NoOne, s.who}
    BY <1>2, <1>3, <1>5 DEF Spend, At, Typed, Knows
  <2>2. Enters(s.who)
    BY <1>2, <1>5, <2>1 DEF Spend, SpendInviteAndCreateAccount, AccountExistsByEmail, Enters
  <2> QED BY <2>1, <2>2 DEF Serving
<1>6. CASE IssueLink(c)
  <2>1. s.who \in People /\ s.purpose \in Purposes /\ accounts[s.who].exists
    BY <1>2, <1>3, <1>6 DEF IssueLink, At, Typed, Knows
  <2>2. Mails(s.who)
    BY <1>2, <1>6, <2>1 DEF IssueLink, Mails
  <2> QED BY <2>1, <2>2 DEF Serving
<1>7. CASE MarkVerified(c) \/ StampConnected(c)
  <2>1. s.who \in Users /\ accounts[s.who].exists
    BY <1>2, <1>3, <1>7 DEF Users, MarkVerified, StampConnected, At, Typed, Knows
  <2>2. Marks(s.who)
    BY <1>2, <1>7, <2>1, AccountUpdates DEF MarkVerified, StampConnected, Marks
  <2> QED BY <2>1, <2>2 DEF Serving
<1>8. CASE ResetPassword(c)
  <2>1. s.who \in Users /\ s.pw \in Passwords /\ accounts[s.who].exists
    BY <1>2, <1>3, <1>8 DEF Users, ResetPassword, At, Typed, Knows
  <2>2. Ends(s.who)
    BY <1>2, <1>8, <2>1, AccountUpdates DEF ResetPassword, SetPassword, Ends
  <2> QED BY <2>1, <2>2 DEF Serving
<1>9. CASE OpenSession(c)
  <2>1. s.who \in People /\ accounts[s.who].verified
    BY <1>2, <1>3, <1>9 DEF OpenSession, At, Typed, Knows
  <2>2. Opens(s.who)
    BY <1>2, <1>9, <2>1, Domains DEF OpenSession, Opens, AccessInv
  <2> QED BY <2>1, <2>2 DEF Serving
<1>10. CASE EndSession(c)
  <2>1. s.session \in SessionIds
    BY <1>2, <1>3, <1>10 DEF EndSession, At, Typed
  <2>2. sessions \in [SessionIds -> Session] /\ sessions' = [sessions EXCEPT ![s.session].live = FALSE]
    BY <1>2, <1>10 DEF EndSession, RevokeSession, AccessInv, Types
  <2>3. sessions' \in [SessionIds -> Session]
    BY <2>1, <2>2 DEF Session
  <2>4. \A i \in SessionIds :
          /\ sessions'[i].of = sessions[i].of /\ sessions'[i].era = sessions[i].era
          /\ sessions'[i].live => sessions[i].live
    BY <2>1, <2>2 DEF Session
  <2>5. SessionsDrop
    BY <1>10, <2>3, <2>4 DEF EndSession, SessionsDrop
  <2> QED BY <2>5 DEF Serving
<1>11. CASE Mint(c)
  <2>1. s.who \in People /\ s.name \in Names \ {0} /\ accounts[s.who].verified
    BY <1>2, <1>3, <1>11 DEF Mint, At, Typed, Knows
  <2>2. Mints(s.who) \/ UNCHANGED tables
    BY <1>2, <1>11, <2>1 DEF Mint, Mints, tables
  <2> QED BY <2>1, <2>2 DEF Serving
<1>12. CASE Revoke(c)
  <2>1. s.token \in TokenIds /\ tokens[s.token].of \in Users /\ NoOne \notin Users
    BY <1>2, <1>3, <1>12, PeopleAssumption DEF PeopleAssumption, Users, Revoke, At, Typed, Knows
  <2>2. /\ tokens \in [TokenIds -> ApiToken]
        /\ tokens' = [tokens EXCEPT ![s.token].live = FALSE, ![s.token].taken = TRUE]
    BY <1>2, <1>12 DEF Revoke, RevokeAPIToken, AccessInv, Types
  <2>3. PICK row : row = [[tokens[s.token] EXCEPT !.live = FALSE] EXCEPT !.taken = TRUE]
    OBVIOUS
  <2>4. tokens[s.token] \in ApiToken
    BY <2>1, <2>2
  <2>5. /\ row \in ApiToken /\ ~row.live /\ row.taken /\ row.of = tokens[s.token].of
        /\ row.name = tokens[s.token].name /\ row.client = tokens[s.token].client
        /\ row.key = tokens[s.token].key /\ row.expired = tokens[s.token].expired
    BY <2>3, <2>4 DEF ApiToken
  <2>6. tokens' = [tokens EXCEPT ![s.token] = row]
    BY <2>1, <2>2, <2>3
  <2>7. tokens' \in [TokenIds -> ApiToken]
    BY <2>2, <2>5, <2>6
  <2>8. tokens'[s.token] = row /\ \A t \in TokenIds \ {s.token} : tokens'[t] = tokens[t]
    BY <2>1, <2>2, <2>6
  <2>9. TokensDrop
    BY <1>12, <2>1, <2>5, <2>7, <2>8 DEF Revoke, TokensDrop
  <2> QED BY <2>9 DEF Serving
<1>13. CASE MintInvite(c)
  <2>1. s.by \in People /\ s.for \in People \union {NoOne}
    BY <1>2, <1>3, <1>13 DEF MintInvite, At, Typed
  <2>2. Invites(s.by)
    BY <1>2, <1>13, <2>1, PeopleAssumption DEF PeopleAssumption, MintInvite, Invites
  <2> QED BY <2>1, <2>2 DEF Serving
<1>14. CASE Withdraw(c)
  <2>1. s.invite \in InviteIds
    BY <1>2, <1>3, <1>14 DEF Withdraw, At, Typed
  <2>2. /\ invites \in [InviteIds -> Invite] /\ invites' = [invites EXCEPT ![s.invite].st = "revoked"]
        /\ invites[s.invite].st = "live"
    BY <1>2, <1>14 DEF Withdraw, RevokeInvite, InviteLive, AccessInv, Types
  <2>3. invites' \in [InviteIds -> Invite]
    BY <2>1, <2>2 DEF Invite
  <2>4. \A i \in InviteIds :
       /\ invites'[i].by = invites[i].by /\ invites'[i].for = invites[i].for
       /\ invites'[i].spentBy = invites[i].spentBy
       /\ invites[i].expired => invites'[i].expired
       /\ invites'[i].st = invites[i].st \/ (invites[i].st = "live" /\ invites'[i].st = "revoked")
    BY <2>1, <2>2 DEF Invite
  <2>5. InvitesDrop
    BY <1>14, <2>3, <2>4 DEF Withdraw, InvitesDrop
  <2> QED BY <2>5 DEF Serving
<1>15. CASE SetDisabled(c)
  <2>1. s.who \in Users /\ s.on \in BOOLEAN /\ accounts[s.who].exists
        /\ (s.on => ~accounts[s.who].admin)
    BY <1>2, <1>3, <1>15 DEF SetDisabled, SetAccountDisabled, At, Typed, Knows
  <2>2. Stays(s.who) /\ accounts'[s.who].disabled = s.on
        /\ accounts'[s.who].era = (IF s.on THEN accounts[s.who].era + 1 ELSE accounts[s.who].era)
    BY <1>2, <1>15, <2>1, AccountUpdates DEF SetDisabled, SetAccountDisabled
  <2>3. CASE s.on
    <3>1. Ends(s.who)
      BY <1>2, <1>15, <2>1, <2>2, <2>3 DEF SetDisabled, SetAccountDisabled, Ends
    <3> QED BY <2>1, <3>1 DEF Serving
  <2>4. CASE ~s.on
    <3>1. Marks(s.who)
      BY <1>2, <1>15, <2>1, <2>2, <2>4 DEF SetDisabled, SetAccountDisabled, Marks
    <3> QED BY <2>1, <3>1 DEF Serving
  <2> QED BY <2>3, <2>4
<1>16. CASE Approve(c)
  <2>1. s.client \in Clients /\ s.who \in People /\ accounts[s.who].verified
    BY <1>2, <1>3, <1>16 DEF Approve, At, Typed, Knows
  <2>2. Approves(s.client, s.who)
    BY <1>2, <1>16, <2>1 DEF Approve, Approves
  <2> QED BY <2>1, <2>2 DEF Serving
<1>17. CASE GrantToken(c)
  <2>1. s.code \in CodeIds /\ s.name \in Names \ {0}
    BY <1>2, <1>3, <1>17 DEF GrantToken, At, Typed
  <2>2. Grants(s.code) \/ UNCHANGED tables
    BY <1>2, <1>17, <2>1 DEF GrantToken, Grants, tables
  <2> QED BY <2>1, <2>2 DEF Serving
<1>18. CASE Stop(c)
  BY <1>18 DEF Stop, Serving
<1> QED BY <1>5, <1>6, <1>7, <1>8, <1>9, <1>10, <1>11, <1>12, <1>13, <1>14, <1>15, <1>16, <1>17, <1>18
        DEF Continue

\* What time does.
LEMMA ExpireShape ==
  ASSUME AccessInv, Expire
  PROVE  Serving
<1> USE DEF AccessInv, Types
<1>1. CASE /\ \E s \in DOMAIN sessions :
                sessions[s].live /\ sessions' = [sessions EXCEPT ![s].expired = TRUE]
           /\ UNCHANGED <<accounts, invites, links, tokens, clients, codes>>
  <2>1. PICK s \in SessionIds : sessions' = [sessions EXCEPT ![s].expired = TRUE]
    BY <1>1
  <2>2. sessions' \in [SessionIds -> Session]
    BY <2>1 DEF Session
  <2>3. \A i \in SessionIds :
          /\ sessions'[i].of = sessions[i].of /\ sessions'[i].era = sessions[i].era
          /\ sessions'[i].live => sessions[i].live
    BY <2>1 DEF Session
  <2> QED BY <1>1, <2>2, <2>3 DEF SessionsDrop, Serving
<1>2. CASE /\ \E l \in DOMAIN links :
                links[l].live /\ links' = [links EXCEPT ![l].expired = TRUE]
           /\ UNCHANGED <<accounts, invites, sessions, tokens, clients, codes>>
  <2>1. PICK l \in LinkIds : links[l].live /\ links' = [links EXCEPT ![l].expired = TRUE]
    BY <1>2
  <2>2. links' \in [LinkIds -> Link]
    BY <2>1 DEF Link
  <2>3. \A m \in LinkIds :
       /\ links'[m].of = links[m].of /\ links'[m].era = links[m].era
       /\ links'[m].purpose = links[m].purpose /\ (links'[m].live => links[m].live)
    BY <2>1 DEF Link
  <2>4. \A m \in LinkIds : links[m] = NoLink => links'[m] = NoLink
    <3>1. NoLink.live = FALSE
      BY DEF NoLink
    <3>2. \A m \in LinkIds : links[m] = NoLink => m # l
      BY <2>1, <3>1
    <3>3. \A m \in LinkIds : m # l => links'[m] = links[m]
      BY <2>1
    <3> QED BY <3>2, <3>3
  <2> QED BY <1>2, <2>2, <2>3, <2>4 DEF LinksDrop, Serving
<1>3. CASE /\ \E i \in DOMAIN invites :
                invites[i].st = "live" /\ invites' = [invites EXCEPT ![i].expired = TRUE]
           /\ UNCHANGED <<accounts, sessions, links, tokens, clients, codes>>
  <2>1. PICK i \in InviteIds : invites' = [invites EXCEPT ![i].expired = TRUE]
    BY <1>3
  <2>2. invites' \in [InviteIds -> Invite]
    BY <2>1 DEF Invite
  <2>3. \A j \in InviteIds :
       /\ invites'[j].by = invites[j].by /\ invites'[j].for = invites[j].for
       /\ invites'[j].spentBy = invites[j].spentBy /\ invites'[j].st = invites[j].st
       /\ invites[j].expired => invites'[j].expired
    BY <2>1 DEF Invite
  <2> QED BY <1>3, <2>2, <2>3 DEF InvitesDrop, Serving
<1>4. CASE /\ \E t \in DOMAIN tokens :
                /\ tokens[t].live /\ tokens[t].of # Machine /\ tokens[t].client = NoOne
                /\ tokens' = [tokens EXCEPT ![t].expired = TRUE]
           /\ UNCHANGED <<accounts, invites, sessions, links, clients, codes>>
  <2>1. PICK t \in TokenIds : /\ tokens[t].live /\ tokens[t].of # Machine
                              /\ tokens' = [tokens EXCEPT ![t].expired = TRUE]
    BY <1>4
  <2>2. tokens[t] # NoToken /\ tokens[t].of # NoOne
    <3>1. NoToken.live = FALSE
      BY DEF NoToken
    <3> QED BY <2>1, <3>1 DEF Rows, TokensInOrder, TokenIds
  <2>3. tokens[t].of \in People
    BY <2>1, <2>2 DEF ApiToken, Users
  <2>4. tokens' \in [TokenIds -> ApiToken]
    BY <2>1 DEF ApiToken
  <2>5. \A u \in TokenIds :
          /\ tokens'[u].of = tokens[u].of /\ tokens'[u].name = tokens[u].name
          /\ tokens'[u].client = tokens[u].client /\ tokens'[u].key = tokens[u].key
          /\ tokens'[u].live = tokens[u].live /\ tokens'[u].taken = tokens[u].taken
    BY <2>1 DEF ApiToken
  <2>6. \A u \in TokenIds : tokens[u].of \notin People => tokens'[u] = tokens[u]
    BY <2>1, <2>3
  <2>7. TokensDrop
    BY <1>4, <2>4, <2>5, <2>6, PeopleAssumption DEF PeopleAssumption, TokensDrop
  <2> QED BY <2>7 DEF Serving
<1>5. CASE /\ \E k \in DOMAIN codes :
                codes[k].of # NoOne /\ codes' = [codes EXCEPT ![k].expired = TRUE]
           /\ UNCHANGED <<accounts, invites, sessions, links, tokens, clients>>
  <2>1. PICK k \in CodeIds : codes[k].of # NoOne /\ codes' = [codes EXCEPT ![k].expired = TRUE]
    BY <1>5
  <2>2. codes' \in [CodeIds -> Code]
    BY <2>1 DEF Code
  <2>3. \A j \in CodeIds :
       /\ codes'[j].of = codes[j].of /\ codes'[j].client = codes[j].client
       /\ codes'[j].token = codes[j].token /\ codes'[j].consumed = codes[j].consumed
       /\ codes[j].of = NoOne => codes'[j] = codes[j]
    BY <2>1 DEF Code
  <2> QED BY <1>5, <2>2, <2>3 DEF CodesExpire, Serving
<1>6. CASE /\ \E cl \in Clients :
                clients[cl] = "registered" /\ clients' = [clients EXCEPT ![cl] = "stale"]
           /\ UNCHANGED <<accounts, invites, sessions, links, tokens, codes>>
  BY <1>6 DEF ClientsMove, Serving, ClientStates
<1> HIDE DEF AccessInv, Types
<1> QED BY <1>1, <1>2, <1>3, <1>4, <1>5, <1>6 DEF Expire

\* Only clients nobody approved are swept, so no code goes with them.
LEMMA SweepShape ==
  ASSUME AccessInv, SweepClients
  PROVE  ClientsMove
<1>1. clients \in [Clients -> ClientStates] /\ codes \in [CodeIds -> Code]
  BY DEF AccessInv, Types
<1>2. ASSUME NEW k \in CodeIds, codes[k].client \in Clients, clients[codes[k].client] = "stale"
      PROVE  codes[k] = NoCode
  BY <1>1, <1>2 DEF AccessInv, Rows, CodesFit, Promises, GrantsAreBoughtOnce, LastGrantStands
<1>3. codes' = [k \in CodeIds |->
         IF codes[k].client \in {cl \in Clients : clients[cl] = "stale"} THEN NoCode ELSE codes[k]]
  BY <1>1 DEF SweepClients
<1>4. codes' = codes
  BY <1>1, <1>2, <1>3
<1>5. /\ clients' \in [Clients -> ClientStates]
      /\ \A cl \in Clients : clients[cl] = "approved" => clients'[cl] = "approved"
  BY <1>1 DEF SweepClients, ClientStates
<1> QED BY <1>4, <1>5 DEF SweepClients, ClientsMove

\* What a step of the starting process does.
BootStep ==
  \/ BootUnset \/ BootAccount \/ BootToken \/ BootRetire \/ BootSeed \/ BootRefused \/ Retry
  \/ BootInvite
LEMMA BootShape ==
  ASSUME AccessInv, BootStep
  PROVE  Shape
<1>1. CASE BootUnset \/ BootToken \/ BootRefused \/ Retry
  BY <1>1 DEF BootUnset, BootToken, BootRefused, Retry, Serving, Shape
<1>2. CASE BootRetire
  BY <1>2 DEF BootRetire, Retires, Serving, Shape
<1>3. CASE BootSeed
  <2>1. key \in Keys
    BY <1>3 DEF BootSeed, Boot, AccessInv, Types, Rows, BootFits
  <2>2. Seeds
    BY <1>3, <2>1 DEF BootSeed, Seeds
  <2> QED BY <2>2 DEF Serving, Shape
<1>4. CASE BootInvite
  <2>1. CASE UNCHANGED invites
    BY <1>4, <2>1 DEF BootInvite, Serving, Shape, tables
  <2>2. CASE CreateInvite(NoOne, NoOne) /\ ~AnyLiveBootstrapInvite
    <3>1. Invites(NoOne)
      BY <1>4, <2>2 DEF BootInvite, Invites
    <3> QED BY <3>1 DEF Serving, Shape
  <2> QED BY <1>4, <2>1, <2>2 DEF BootInvite
<1>5. CASE BootAccount
  BY <1>5 DEF BootAccount, Founds, Shape
<1> QED BY <1>1, <1>2, <1>3, <1>4, <1>5 DEF BootStep

\* What any step does.
LEMMA StepShape ==
  ASSUME AccessInv, [Next]_vars
  PROVE  Shape
<1>1. CASE UNCHANGED vars
  BY <1>1 DEF vars, Serving, Shape
<1>2. ASSUME NEW c \in Calls, Page(c) \/ Route(c) PROVE Shape
  BY <1>2, RequestsAsk, AskShape DEF Shape
<1>3. ASSUME NEW c \in Calls, Continue(c) PROVE Shape
  BY <1>3, ContinueShape DEF Shape
<1>4. CASE SweepClients
  BY <1>4, SweepShape DEF Serving, Shape
<1>5. CASE Expire
  BY <1>5, ExpireShape DEF Shape
<1>6. CASE BootStep
  BY <1>6, BootShape
<1>7. ASSUME NEW k \in Keys \union {"unset"}, Restart(k) PROVE Shape
  BY <1>7 DEF Restart, Serving, Shape
<1> QED BY <1>1, <1>2, <1>3, <1>4, <1>5, <1>6, <1>7 DEF Next, BootStep

-----------------------------------------------------------------------------
(* Rows keep their types. *)

\* The empty rows, and new ones, are rows.
LEMMA NewRows ==
  /\ NoAccount \in [exists : BOOLEAN, password : {"none"}, verified : BOOLEAN, disabled : BOOLEAN,
                    admin : BOOLEAN, connected : BOOLEAN, era : Nat]
  /\ NoInvite \in Invite /\ NoSession \in Session /\ NoLink \in Link /\ NoToken \in ApiToken
  /\ NoCode \in Code
  BY Bounds DEF NoAccount, NoInvite, Invite, NoSession, Session, NoLink, Link, Purposes, NoToken,
     ApiToken, Names, NoCode, Code

\* Shapes write rows of their tables.
LEMMA StepRows ==
  ASSUME AccessInv, Shape
  PROVE  /\ accounts' \in [Users -> Account] /\ invites' \in [InviteIds -> Invite]
         /\ sessions' \in [SessionIds -> Session] /\ links' \in [LinkIds -> Link]
         /\ tokens' \in [TokenIds -> ApiToken] /\ codes' \in [CodeIds -> Code]
         /\ clients' \in [Clients -> ClientStates]
<1> DEFINE Goal ==
         /\ accounts' \in [Users -> Account] /\ invites' \in [InviteIds -> Invite]
         /\ sessions' \in [SessionIds -> Session] /\ links' \in [LinkIds -> Link]
         /\ tokens' \in [TokenIds -> ApiToken] /\ codes' \in [CodeIds -> Code]
         /\ clients' \in [Clients -> ClientStates]
<1>1. /\ accounts \in [Users -> Account] /\ invites \in [InviteIds -> Invite]
      /\ sessions \in [SessionIds -> Session] /\ links \in [LinkIds -> Link]
      /\ tokens \in [TokenIds -> ApiToken] /\ codes \in [CodeIds -> Code]
      /\ clients \in [Clients -> ClientStates]
  BY DEF AccessInv, Types
<1>2. ASSUME NEW p \in People, Enters(p) PROVE Goal
  <2>1. PICK pw \in Passwords, i \in InviteIds :
          CreateIdentityAccount(p, pw) /\ SpendInvite(i, p)
    BY <1>2 DEF Enters
  <2>2. accounts' \in [Users -> Account]
    <3> DEFINE new == [NoAccount EXCEPT !.exists = TRUE, !.password = pw, !.admin = ~AnyAccountHasEmail]
    <3>1. new \in Account
      BY NewRows DEF Account, AnyAccountHasEmail
    <3>2. accounts' = [accounts EXCEPT ![p] = new] /\ p \in Users
      BY <2>1 DEF CreateIdentityAccount, Users
    <3> HIDE DEF new
    <3> QED BY <1>1, <3>1, <3>2
  <2>3. invites' \in [InviteIds -> Invite]
    <3>1. invites' = [invites EXCEPT ![i].st = "spent", ![i].spentBy = p]
      BY <2>1 DEF SpendInvite
    <3> DEFINE new == [[invites[i] EXCEPT !.st = "spent"] EXCEPT !.spentBy = p]
    <3>2. invites[i] \in Invite
      BY <1>1
    <3>3. new \in Invite
      BY <3>2 DEF Invite
    <3>4. invites' = [invites EXCEPT ![i] = new]
      BY <1>1, <3>1
    <3> HIDE DEF new
    <3> QED BY <1>1, <3>3, <3>4
  <2> QED BY <1>1, <1>2, <2>2, <2>3 DEF Enters
<1>3. ASSUME NEW p \in Users, Marks(p) PROVE Goal
  BY <1>1, <1>3 DEF Marks, Stays
<1>4. ASSUME NEW p \in Users, Ends(p) PROVE Goal
  <2>1. sessions' \in [SessionIds -> Session]
    BY <1>1, <1>4 DEF Ends, RevokeAccountSessions, Session
  <2>2. links' \in [LinkIds -> Link]
    BY <1>1, <1>4 DEF Ends, RevokeAccountEmailTokens, Link
  <2> QED BY <1>1, <1>4, <2>1, <2>2 DEF Ends, Stays
<1>5. ASSUME NEW p \in People, Opens(p) PROVE Goal
  BY <1>1, <1>5 DEF Opens, CreateSession, Session, Account, Users
<1>6. ASSUME NEW p \in People, Mails(p) PROVE Goal
  <2>1. PICK purpose \in Purposes, l \in LinkIds :
          links' = [ConsumeLiveEmailTokens(p, purpose) EXCEPT ![l] = NewEmailToken(p, purpose)]
    BY <1>1, <1>6 DEF Mails, CreateEmailToken
  <2>2. ConsumeLiveEmailTokens(p, purpose) \in [LinkIds -> Link]
    BY <1>1 DEF ConsumeLiveEmailTokens, Link
  <2>3. NewEmailToken(p, purpose) \in Link
    BY <1>1 DEF NewEmailToken, Link, Account, Users
  <2> QED BY <1>1, <1>6, <2>1, <2>2, <2>3 DEF Mails
<1>7. ASSUME NEW u \in Users, NEW name \in Names, NEW k \in Keys \union {"random"}, CreateAPIToken(u, name, k)
      PROVE  tokens' \in [TokenIds -> ApiToken]
  BY <1>1, <1>7 DEF CreateAPIToken, NewToken, ApiToken
<1>8. ASSUME NEW p \in People, Mints(p) PROVE Goal
  BY <1>1, <1>7, <1>8 DEF Mints, Users
<1>9. ASSUME Seeds PROVE Goal
  <2>1. 0 \in Names /\ Machine \in Users
    BY Bounds DEF Names, Users
  <2> QED BY <1>1, <1>7, <1>9, <2>1 DEF Seeds
<1>10. ASSUME Retires PROVE Goal
  <2>1. tokens' \in [TokenIds -> ApiToken]
    BY <1>1, <1>10 DEF Retires, RevokeTokensNamed, ApiToken
  <2> QED BY <1>1, <1>10, <2>1 DEF Retires
<1>11. ASSUME NEW k \in CodeIds, Grants(k) PROVE Goal
  <2>1. PICK name \in Names \ {0} : GrantClientToken(k, name)
    BY <1>11 DEF Grants
  <2>2. PICK t \in TokenIds :
          /\ tokens' = [RevokeLiveClientTokens(codes[k].of, codes[k].client) EXCEPT
                          ![t] = NewToken(codes[k].of, name, codes[k].client, "random")]
          /\ codes' = SetOAuthCodeToken(k, t)
    BY <1>1, <2>1 DEF GrantClientToken
  <2>3. RevokeLiveClientTokens(codes[k].of, codes[k].client) \in [TokenIds -> ApiToken]
    BY <1>1 DEF RevokeLiveClientTokens, ApiToken
  <2>4. NewToken(codes[k].of, name, codes[k].client, "random") \in ApiToken
    BY <1>1 DEF NewToken, ApiToken, Code, Users
  <2>5. tokens' \in [TokenIds -> ApiToken]
    BY <2>2, <2>3, <2>4
  <2>6. codes' \in [CodeIds -> Code]
    <3> DEFINE new == [[codes[k] EXCEPT !.consumed = TRUE] EXCEPT !.token = t]
    <3>1. codes[k] \in Code /\ t \in 0 .. MaxTokens
      BY <1>1, Bounds DEF TokenIds
    <3>2. new \in Code
      BY <3>1 DEF Code
    <3>3. codes' = [codes EXCEPT ![k] = new]
      BY <1>1, <2>2 DEF SetOAuthCodeToken
    <3> HIDE DEF new
    <3> QED BY <1>1, <3>2, <3>3
  <2> QED BY <1>1, <1>11, <2>5, <2>6 DEF Grants
<1>12. ASSUME NEW cl \in Clients, NEW p \in People, Approves(cl, p) PROVE Goal
  <2>1. PICK k \in CodeIds : codes' = [codes EXCEPT ![k] = [NoCode EXCEPT !.of = p, !.client = cl]]
    BY <1>1, <1>12 DEF Approves, ApproveOAuthClientAndCreateCode
  <2>2. [NoCode EXCEPT !.of = p, !.client = cl] \in Code
    BY NewRows DEF Code
  <2>3. codes' \in [CodeIds -> Code]
    BY <1>1, <2>1, <2>2
  <2>4. clients' \in [Clients -> ClientStates]
    BY <1>1, <1>12 DEF Approves, ApproveOAuthClientAndCreateCode, ClientStates
  <2> QED BY <1>1, <1>12, <2>3, <2>4 DEF Approves
<1>13. ASSUME NEW by \in People \union {NoOne}, Invites(by) PROVE Goal
  <2>1. PICK for \in People \union {NoOne}, i \in InviteIds :
          invites' = [invites EXCEPT ![i] = NewInvite(by, for)]
    BY <1>1, <1>13 DEF Invites, CreateInvite
  <2>2. NewInvite(by, for) \in Invite
    BY NewRows DEF NewInvite, Invite, Users
  <2>3. invites' \in [InviteIds -> Invite]
    BY <1>1, <2>1, <2>2
  <2> QED BY <1>1, <1>13, <2>3 DEF Invites
<1>14. ASSUME SessionsDrop \/ LinksDrop \/ TokensDrop \/ CodesExpire \/ ClientsMove \/ InvitesDrop PROVE Goal
  BY <1>1, <1>14 DEF SessionsDrop, LinksDrop, TokensDrop, CodesExpire, ClientsMove, InvitesDrop
<1>15. ASSUME UNCHANGED tables PROVE Goal
  BY <1>1, <1>15 DEF tables
<1>16. ASSUME Founds PROVE Goal
  <2> DEFINE new == [NoAccount EXCEPT !.exists = TRUE]
  <2>1. new \in Account
    BY NewRows DEF Account
  <2>2. accounts' = [accounts EXCEPT ![Machine] = new]
    BY <1>16 DEF Founds
  <2> HIDE DEF new
  <2>3. accounts' \in [Users -> Account]
    BY <1>1, <2>1, <2>2
  <2> QED BY <1>1, <1>16, <2>3 DEF Founds
<1> HIDE DEF Goal
<1>17. Goal
  BY <1>2, <1>3, <1>4, <1>5, <1>6, <1>8, <1>9, <1>10, <1>11, <1>12, <1>13, <1>14, <1>15, <1>16 DEF Serving, Shape
<1> QED BY <1>17 DEF Goal

\* Requests, time and starts keep to their bounds.
LEMMA StepTypes ==
  ASSUME AccessInv, [Next]_vars
  PROVE  Types'
<1> DEFINE Bounded ==
      /\ boot' \in {"token", "seed", "invite", "up", "refused"} /\ key' \in Keys \union {"unset"}
      /\ begun' \in 0 .. MaxCalls /\ expiries' \in 0 .. MaxExpiries /\ boots' \in 1 .. MaxBoots
<1>1. /\ boot \in {"token", "seed", "invite", "up", "refused"} /\ key \in Keys \union {"unset"}
      /\ begun \in 0 .. MaxCalls /\ expiries \in 0 .. MaxExpiries /\ boots \in 1 .. MaxBoots
      /\ MaxCalls \in Nat /\ MaxExpiries \in Nat /\ MaxBoots \in Nat
  BY Bounds DEF AccessInv, Types
<1>2. ASSUME NEW c \in Calls, NEW s, Begin(c, s) PROVE Bounded
  BY <1>1, <1>2 DEF Begin, Free
<1>3. ASSUME NEW c \in Calls, Page(c) \/ Route(c) PROVE Bounded
  <2>1. Asks(c)
    BY <1>3, RequestsAsk
  <2>2. \E s : Begin(c, s)
    BY <2>1 DEF Asks, Resend, Forgot, Login, Register, Reset, Verify, Logout, MarkConnected, MintToken,
      RevokeToken, ApproveClient, WithdrawInvite, IssueInvite, ChangeStanding, Grant, RegisterClient
  <2> QED BY <1>2, <2>2
<1>4. ASSUME NEW c \in Calls, Continue(c) PROVE Bounded
  <2>1. UNCHANGED <<boot, key, begun, expiries, boots>>
    BY <1>4 DEF Continue, Spend, IssueLink, MarkVerified, ResetPassword, OpenSession, EndSession,
      StampConnected, Mint, Revoke, MintInvite, Withdraw, SetDisabled, Approve, GrantToken, Stop, End, Go
  <2> QED BY <1>1, <2>1
<1>5. ASSUME Expire PROVE Bounded
  <2>1. UNCHANGED <<boot, key, begun, boots>> /\ expiries < MaxExpiries /\ expiries' = expiries + 1
    BY <1>5 DEF Expire
  <2> QED BY <1>1, <2>1
<1>6. ASSUME SweepClients \/ UNCHANGED vars PROVE Bounded
  <2>1. UNCHANGED <<boot, key, begun, expiries, boots>>
    BY <1>6 DEF SweepClients, vars
  <2> QED BY <1>1, <2>1
<1>7. ASSUME BootStep PROVE Bounded
  <2>1. PICK from, to \in {"token", "seed", "invite", "up", "refused"} : Boot(from, to)
    BY <1>7 DEF BootStep, BootUnset, BootAccount, BootToken, BootRetire, BootSeed, BootRefused, Retry,
      BootInvite
  <2>2. boot' = to /\ UNCHANGED <<key, begun, expiries, boots>>
    BY <2>1 DEF Boot
  <2> QED BY <1>1, <2>2
<1>8. ASSUME NEW k \in Keys \union {"unset"}, Restart(k) PROVE Bounded
  <2>1. /\ boot' = "token" /\ key' = k /\ boots < MaxBoots /\ boots' = boots + 1
        /\ UNCHANGED <<begun, expiries>>
    BY <1>8 DEF Restart
  <2> QED BY <1>1, <2>1
<1>9. Bounded
  <2> HIDE DEF Bounded
  <2> QED BY <1>3, <1>4, <1>5, <1>6, <1>7, <1>8 DEF Next, BootStep
<1> QED BY <1>9, StepShape, StepRows DEF Types

-----------------------------------------------------------------------------
(* What a call knows stays so. *)

\* Whatever a step does, people stay registered and confirmed, an invite once
\* issued keeps its address and a token its owner.
LEMMA FactsLast ==
  ASSUME AccessInv, Shape
  PROVE  /\ \A p \in People :
              /\ accounts[p].exists => accounts'[p].exists /\ accounts'[p].admin = accounts[p].admin
              /\ accounts[p].verified => accounts'[p].verified
         /\ \A i \in InviteIds : invites[i].st # "unused" =>
              invites'[i].st # "unused" /\ invites'[i].for = invites[i].for
         /\ \A t \in TokenIds : tokens[t].of # NoOne =>
              /\ tokens'[t].of = tokens[t].of /\ tokens'[t].client = tokens[t].client
              /\ tokens'[t].name = tokens[t].name /\ tokens'[t].key = tokens[t].key
              /\ tokens'[t].live => tokens[t].live
<1>1. /\ accounts \in [Users -> Account] /\ invites \in [InviteIds -> Invite]
      /\ tokens \in [TokenIds -> ApiToken]
  BY DEF AccessInv, Types
<1> DEFINE People1 == \A p \in People :
              /\ accounts[p].exists => accounts'[p].exists /\ accounts'[p].admin = accounts[p].admin
              /\ accounts[p].verified => accounts'[p].verified
           Invites1 == \A i \in InviteIds : invites[i].st # "unused" =>
              invites'[i].st # "unused" /\ invites'[i].for = invites[i].for
           Tokens1 == \A t \in TokenIds : tokens[t].of # NoOne =>
              /\ tokens'[t].of = tokens[t].of /\ tokens'[t].client = tokens[t].client
              /\ tokens'[t].name = tokens[t].name /\ tokens'[t].key = tokens[t].key
              /\ tokens'[t].live => tokens[t].live
<1>2. People1
  <2>1. ASSUME NEW p \in People, Enters(p) PROVE People1
    <3>1. \A q \in People \ {p} : accounts'[q] = accounts[q]
      BY <1>1, <2>1 DEF Enters, CreateIdentityAccount, Users
    <3>2. ~accounts[p].exists /\ ~accounts[p].verified
      BY <2>1 DEF Enters, AccessInv, Rows, AccountsFit
    <3> QED BY <3>1, <3>2
  <2>2. ASSUME NEW p \in Users, Marks(p) \/ Ends(p) PROVE People1
    BY <2>2 DEF Marks, Ends, Stays, Users
  <2>4. ASSUME Founds PROVE People1
    BY <1>1, <2>4, PeopleAssumption DEF PeopleAssumption, Founds, Users
  <2>3. \/ UNCHANGED accounts \/ Founds \/ \E p \in People : Enters(p)
        \/ \E u \in Users : Marks(u) \/ Ends(u)
    BY DEF Serving, Shape, Opens, Mails, Mints, SessionsDrop, LinksDrop, TokensDrop, CodesExpire, ClientsMove,
      InvitesDrop, Grants, Approves, Invites, Retires, Seeds, tables
  <2>5. ASSUME UNCHANGED accounts PROVE People1
    BY <2>5
  <2> HIDE DEF People1
  <2> QED BY <2>1, <2>2, <2>3, <2>4, <2>5
<1>3. Invites1
  <2>1. ASSUME NEW p \in People, Enters(p) PROVE Invites1
    BY <1>1, <2>1 DEF Enters, SpendInvite, InviteLive
  <2>2. ASSUME NEW by, Invites(by) PROVE Invites1
    <3>1. NoInvite.st = "unused"
      BY DEF NoInvite
    <3> QED BY <1>1, <2>2, <3>1 DEF Invites, CreateInvite, IsNext
  <2>3. CASE InvitesDrop
    BY <2>3 DEF InvitesDrop
  <2>4. UNCHANGED invites \/ InvitesDrop \/ (\E p \in People : Enters(p)) \/ \E by : Invites(by)
    BY DEF Serving, Shape, Marks, Ends, Opens, Mails, Mints, SessionsDrop, LinksDrop, TokensDrop, CodesExpire,
      ClientsMove, Grants, Approves, Retires, Seeds, Founds, tables
  <2> QED BY <2>1, <2>2, <2>3, <2>4
<1>4. Tokens1
  <2>1. NoToken.of = NoOne
    BY DEF NoToken
  <2>2. ASSUME NEW u, NEW name, NEW k, CreateAPIToken(u, name, k) PROVE Tokens1
    BY <1>1, <2>1, <2>2 DEF CreateAPIToken, IsNext
  <2>3. ASSUME NEW k \in CodeIds, Grants(k) PROVE Tokens1
    <3>1. PICK name \in Names \ {0}, t \in TokenIds :
            /\ IsNext(t, tokens, NoToken)
            /\ tokens' = [RevokeLiveClientTokens(codes[k].of, codes[k].client) EXCEPT
                            ![t] = NewToken(codes[k].of, name, codes[k].client, "random")]
      BY <1>1, <2>3 DEF Grants, GrantClientToken
    <3>2. \A u \in TokenIds \ {t} : tokens'[u] = tokens[u] \/ tokens'[u] = [tokens[u] EXCEPT !.live = FALSE]
      BY <1>1, <3>1 DEF RevokeLiveClientTokens
    <3>3. tokens[t].of = NoOne
      BY <2>1, <3>1 DEF IsNext
    <3> QED BY <1>1, <3>2, <3>3 DEF ApiToken
  <2>4. CASE Retires
    BY <1>1, <2>4 DEF Retires, RevokeTokensNamed, ApiToken
  <2>5. CASE TokensDrop
    BY <2>5 DEF TokensDrop
  <2>6. \/ UNCHANGED tokens \/ TokensDrop \/ Retires \/ \E k \in CodeIds : Grants(k)
        \/ \E u, name, k : CreateAPIToken(u, name, k)
    BY DEF Serving, Shape, Enters, Marks, Ends, Opens, Mails, Mints, SessionsDrop, LinksDrop, CodesExpire,
      ClientsMove, InvitesDrop, Approves, Invites, Seeds, Founds, tables
  <2> QED BY <2>2, <2>3, <2>4, <2>5, <2>6
<1> QED BY <1>2, <1>3, <1>4

\* So what a call read stays true, whatever comes in between.
LEMMA KnowsLasts ==
  ASSUME AccessInv, Shape, NEW s, Typed(s), Knows(s)
  PROVE  Knows(s)'
<1>1. ASSUME NEW p \in Users, AnyAccountHasEmail, ~accounts[p].admin PROVE ~accounts'[p].admin
  <2>1. accounts \in [Users -> Account]
    BY DEF AccessInv, Types
  <2>2. ASSUME NEW q \in People, Enters(q) PROVE ~accounts'[p].admin
    <3>1. PICK pw : accounts' = [accounts EXCEPT ![q] =
                 [NoAccount EXCEPT !.exists = TRUE, !.password = pw, !.admin = ~AnyAccountHasEmail]]
      BY <2>2 DEF Enters, CreateIdentityAccount
    <3>2. CASE q = p
      BY <1>1, <2>1, <3>1, <3>2 DEF NoAccount
    <3>3. CASE q # p
      BY <1>1, <2>1, <3>1, <3>3
    <3> QED BY <3>2, <3>3
  <2>3. ASSUME NEW u \in Users, Marks(u) \/ Ends(u) PROVE ~accounts'[p].admin
    BY <1>1, <2>3 DEF Marks, Ends, Stays
  <2>4. CASE Founds
    <3>1. accounts' = [accounts EXCEPT ![Machine] = [NoAccount EXCEPT !.exists = TRUE]]
      BY <2>4 DEF Founds
    <3>2. CASE p = Machine
      BY <2>1, <3>1, <3>2 DEF NoAccount
    <3>3. CASE p # Machine
      BY <1>1, <2>1, <3>1, <3>3
    <3> QED BY <3>2, <3>3
  <2>5. \/ UNCHANGED accounts \/ Founds \/ \E q \in People : Enters(q)
        \/ \E u \in Users : Marks(u) \/ Ends(u)
    BY DEF Serving, Shape, Opens, Mails, Mints, SessionsDrop, LinksDrop, TokensDrop, CodesExpire, ClientsMove,
      InvitesDrop, Grants, Approves, Invites, Retires, Seeds, tables
  <2> QED BY <1>1, <2>2, <2>3, <2>4, <2>5
<1>2. s.next = "spend" =>
        invites'[s.invite].st # "unused" /\ invites'[s.invite].for \in {NoOne, s.who}
  BY FactsLast DEF Typed, Knows
<1>3. s.next \in {"link", "verified", "password", "connected"} => accounts'[s.who].exists
  BY FactsLast DEF Typed, Knows
<1>4. s.next \in {"session", "mint", "approve"} => accounts'[s.who].verified
  BY FactsLast DEF Typed, Knows
<1>5. s.next = "standing" /\ s.on => AnyAccountHasEmail' /\ ~accounts'[s.who].admin
  <2>1. SUFFICES ASSUME s.next = "standing", s.on PROVE AnyAccountHasEmail' /\ ~accounts'[s.who].admin
    OBVIOUS
  <2>2. s.who \in Users /\ AnyAccountHasEmail /\ ~accounts[s.who].admin
    BY <2>1 DEF Typed, Knows
  <2>3. AnyAccountHasEmail'
    BY <2>2, FactsLast DEF AnyAccountHasEmail
  <2>4. ~accounts'[s.who].admin
    BY <1>1, <2>2
  <2> QED BY <2>3, <2>4
<1>6. s.next = "revoke" => tokens'[s.token].of \in Users
  <2>1. s.next = "revoke" => tokens[s.token].of # NoOne
    BY PeopleAssumption DEF PeopleAssumption, Knows, Users
  <2> QED BY <2>1, FactsLast DEF Typed, Knows
<1> QED BY <1>2, <1>3, <1>4, <1>5, <1>6 DEF Knows

\* A request begins knowing what its guards read.
LEMMA AskKnows ==
  ASSUME AccessInv, NEW c \in Calls, Asks(c)
  PROVE  /\ \E s \in Step : Typed(s) /\ Knows(s) /\ Begin(c, s)
         /\ UNCHANGED <<accounts, invites, tokens>>
<1> DEFINE Known(s) == s \in Step /\ Knows(s) /\ Begin(c, s)
<1>1. /\ DOMAIN invites = InviteIds /\ DOMAIN sessions = SessionIds /\ DOMAIN codes = CodeIds
      /\ TokenIds = 1 .. MaxTokens /\ 1 \in Names \ {0} /\ Idle \in Step
  BY Domains, Bounds DEF AccessInv, TokenIds, Names, Idle, Step
<1>2. ASSUME NEW s \in SessionIds, AuthenticateSession(s)
      PROVE  sessions[s].of \in People /\ accounts[sessions[s].of].verified
             /\ accounts[sessions[s].of].exists
  BY <1>2 DEF AuthenticateSession, ResolveSession, Usable, AccessInv, Rows, SessionsFit, AccountsFit
<1>3. ASSUME NEW p \in People, Resend(c, p) \/ Forgot(c, p) PROVE \E s : Known(s)
  <2>1. PICK purpose \in Purposes :
          Begin(c, [next |-> "link", who |-> p, purpose |-> purpose]) /\ accounts[p].exists
    BY <1>3 DEF Resend, Forgot, Purposes
  <2>2. PICK s : s = [next |-> "link", who |-> p, purpose |-> purpose]
    OBVIOUS
  <2>3. s \in Step /\ Knows(s)
    BY <2>1, <2>2 DEF Step, Knows
  <2> QED BY <2>1, <2>2, <2>3
<1>4. ASSUME NEW p \in People, NEW pw \in Passwords, Login(c, p, pw) PROVE \E s : Known(s)
  <2>1. PICK s : s = [next |-> "session", who |-> p]
    OBVIOUS
  <2>2. s \in Step /\ Knows(s)
    BY <1>4, <2>1 DEF Step, Knows, Login
  <2> QED BY <1>4, <2>1, <2>2 DEF Login
<1>5. ASSUME NEW p \in People, NEW pw \in Passwords, NEW i \in InviteIds, Register(c, i, p, pw)
      PROVE \E s : Known(s)
  <2>1. PICK s : s = [next |-> "spend", invite |-> i, who |-> p, pw |-> pw]
    OBVIOUS
  <2>2. s \in Step /\ Knows(s)
    BY <1>1, <1>5, <2>1 DEF Step, Knows, Register, LiveInviteByCodeHash, InviteLive
  <2> QED BY <1>5, <2>1, <2>2 DEF Register
<1>6. ASSUME NEW l \in LinkIds, Verify(c, l) \/ \E pw \in Passwords : Reset(c, l, pw)
      PROVE \E s : Known(s)
  <2>1. links[l].of \in People /\ accounts[links[l].of].exists
    BY <1>6 DEF Verify, Reset, ConsumeEmailToken, AccessInv, Rows, LinksFit
  <2>2. CASE Verify(c, l)
    <3>1. PICK s : s = [next |-> "verified", who |-> links[l].of]
      OBVIOUS
    <3>2. s \in Step /\ Knows(s)
      BY <2>1, <3>1 DEF Step, Knows
    <3> QED BY <2>2, <3>1, <3>2 DEF Verify
  <2>3. ASSUME NEW pw \in Passwords, Reset(c, l, pw) PROVE \E s : Known(s)
    <3>1. PICK s : s = [next |-> "password", who |-> links[l].of, pw |-> pw]
      OBVIOUS
    <3>2. s \in Step /\ Knows(s)
      BY <2>1, <3>1 DEF Step, Knows
    <3> QED BY <2>3, <3>1, <3>2 DEF Reset
  <2> QED BY <1>6, <2>2, <2>3
<1>7. ASSUME NEW i \in SessionIds, Logout(c, i) \/ MarkConnected(c, i) PROVE \E s : Known(s)
  <2>1. CASE Logout(c, i)
    <3>1. PICK s : s = [next |-> "logout", session |-> i]
      OBVIOUS
    <3>2. s \in Step /\ Knows(s)
      BY <1>1, <3>1 DEF Step, Knows
    <3> QED BY <2>1, <3>1, <3>2 DEF Logout
  <2>2. CASE MarkConnected(c, i)
    <3>1. PICK s : s = [next |-> "connected", who |-> sessions[i].of]
      OBVIOUS
    <3>2. s \in Step /\ Knows(s)
      BY <1>2, <2>2, <3>1 DEF MarkConnected, Step, Knows
    <3> QED BY <2>2, <3>1, <3>2 DEF MarkConnected
  <2> QED BY <1>7, <2>1, <2>2
<1>8. ASSUME NEW i \in SessionIds, NEW name \in Names \ {0}, NEW renames \in BOOLEAN,
             MintToken(c, i, name, renames)
      PROVE \E s : Known(s)
  <2>1. PICK s : s = [next |-> "mint", who |-> sessions[i].of, name |-> name, renames |-> renames]
    OBVIOUS
  <2>2. s \in Step /\ Knows(s)
    BY <1>2, <1>8, <2>1 DEF MintToken, Step, Knows
  <2> QED BY <1>8, <2>1, <2>2 DEF MintToken
<1>9. ASSUME NEW i \in SessionIds, NEW t \in TokenIds,
             \/ AuthenticateSession(i) /\ RevokeToken(c, t, sessions[i].of)
             \/ \E p \in Users : RevokeToken(c, t, p)
      PROVE \E s : Known(s)
  <2>1. tokens[t].of \in Users /\ Begin(c, [next |-> "revoke", token |-> t])
    BY <1>2, <1>9 DEF RevokeToken, Users
  <2>2. PICK s : s = [next |-> "revoke", token |-> t]
    OBVIOUS
  <2>3. s \in Step /\ Knows(s)
    BY <1>1, <2>1, <2>2 DEF Step, Knows
  <2> QED BY <2>1, <2>2, <2>3
<1>10. ASSUME NEW i \in SessionIds, NEW cl \in Clients, ApproveClient(c, i, cl) PROVE \E s : Known(s)
  <2>1. PICK s : s = [next |-> "approve", client |-> cl, who |-> sessions[i].of]
    OBVIOUS
  <2>2. s \in Step /\ Knows(s)
    BY <1>2, <1>10, <2>1 DEF ApproveClient, Step, Knows
  <2> QED BY <1>10, <2>1, <2>2 DEF ApproveClient
<1>11. ASSUME NEW i \in SessionIds, NEW j \in InviteIds, WithdrawInvite(c, i, j) PROVE \E s : Known(s)
  <2>1. PICK s : s = [next |-> "withdraw", invite |-> j]
    OBVIOUS
  <2>2. s \in Step /\ Knows(s)
    BY <1>1, <2>1 DEF Step, Knows
  <2> QED BY <1>11, <2>1, <2>2 DEF WithdrawInvite
<1>12. ASSUME NEW i \in SessionIds, NEW for \in People \union {NoOne}, IssueInvite(c, i, for)
       PROVE \E s : Known(s)
  <2>1. PICK s : s = [next |-> "invite", by |-> sessions[i].of, for |-> for]
    OBVIOUS
  <2>2. s \in Step /\ Knows(s)
    BY <1>2, <1>12, <2>1 DEF IssueInvite, AdminSession, Step, Knows
  <2> QED BY <1>12, <2>1, <2>2 DEF IssueInvite
<1>13. ASSUME NEW i \in SessionIds, NEW p \in Users, NEW on \in BOOLEAN, ChangeStanding(c, i, p, on)
       PROVE \E s : Known(s)
  <2>1. PICK s : s = [next |-> "standing", who |-> p, on |-> on]
    OBVIOUS
  <2>2. sessions[i].of \in People /\ accounts[sessions[i].of].exists /\ accounts[sessions[i].of].admin
    BY <1>2, <1>13 DEF ChangeStanding, AdminSession
  <2>3. AnyAccountHasEmail
    BY <2>2 DEF AnyAccountHasEmail
  <2>4. on => ~accounts[p].admin
    BY <1>13, <2>2, <2>3 DEF ChangeStanding, AccessInv, Rows, AccountsFit, Promises, AdministratorStays, Users
  <2>5. s \in Step /\ Knows(s)
    BY <2>1, <2>3, <2>4 DEF Step, Knows
  <2> QED BY <1>13, <2>1, <2>5 DEF ChangeStanding
<1>14. ASSUME NEW cl \in Clients, RegisterClient(c, cl) PROVE \E s : Known(s)
  BY <1>1, <1>14 DEF RegisterClient, Idle, Knows
<1>15. ASSUME NEW k \in CodeIds, NEW pkce \in BOOLEAN, NEW rest \in BOOLEAN, Grant(c, k, pkce, rest)
       PROVE \E s : Known(s)
  <2>1. codes \in [CodeIds -> Code] /\ codes[k] \in Code /\ codes[k].of \in People
    BY <1>15 DEF AccessInv, Types, Grant, Code
  <2>2. CASE codes[k].consumed /\ Begin(c, [next |-> "revoke", token |-> codes[k].token])
    <3>1. codes[k].token # 0
      BY <1>1, <2>2 DEF AccessInv, Promises, GrantsAreBoughtOnce, CodeBuysOneToken
    <3>2. codes[k].token \in TokenIds /\ tokens[codes[k].token].of \in People
      <4>1. codes[k].token \in TokenIds
        BY <2>1, <3>1, Bounds DEF Code, TokenIds
      <4>2. tokens[codes[k].token].of = codes[k].of
        BY <3>1 DEF AccessInv, Rows, CodesFit
      <4> QED BY <2>1, <4>1, <4>2
    <3>3. PICK s : s = [next |-> "revoke", token |-> codes[k].token]
      OBVIOUS
    <3>4. s \in Step /\ Knows(s)
      BY <1>1, <3>2, <3>3 DEF Step, Knows, Users
    <3> QED BY <2>2, <3>3, <3>4
  <2>3. CASE Begin(c, [next |-> "grant", code |-> k, name |-> 1])
    <3>1. PICK s : s = [next |-> "grant", code |-> k, name |-> 1]
      OBVIOUS
    <3>2. s \in Step /\ Knows(s)
      BY <1>1, <3>1 DEF Step, Knows
    <3> QED BY <2>3, <3>1, <3>2
  <2> QED BY <1>15, <2>2, <2>3 DEF Grant
<1>16. \E s : Known(s)
  <2> HIDE DEF Known
  <2> QED BY <1>3, <1>4, <1>5, <1>6, <1>7, <1>8, <1>9, <1>10, <1>11, <1>12, <1>13, <1>14, <1>15 DEF Asks
<1>17. \E s \in Step : Typed(s) /\ Knows(s) /\ Begin(c, s)
  BY <1>16, StepTyped DEF AccessInv
<1>18. UNCHANGED <<accounts, invites, tokens>>
  BY DEF Asks, Resend, Forgot, Login, Register, Reset, Verify, Logout, MarkConnected, MintToken,
    RevokeToken, ApproveClient, WithdrawInvite, IssueInvite, ChangeStanding, Grant, RegisterClient, tables
<1> QED BY <1>17, <1>18

\* A call ends up where it may be: its reads still hold.
Lands(c) == \E s \in Step : s = call'[c] /\ Knows(s)'

\* A step of another part leaves a call where it is or ends it; a step of its own
\* moves it to one whose reads hold.
LEMMA CallSteps ==
  ASSUME AccessInv, [Next]_vars, NEW c \in Calls
  PROVE  Lands(c)
<1> USE DEF Lands
<1>1. call \in [Calls -> Step] /\ Shape /\ Idle \in Step
  BY StepShape DEF AccessInv, CallsFit, Idle, Step
<1>2. Knows(Idle)'
  BY DEF Knows, Idle
<1>3. CASE call'[c] = call[c]
  BY <1>1, <1>3, CallHolds, KnowsLasts
<1>4. CASE call'[c] = Idle
  BY <1>1, <1>2, <1>4
<1>5. ASSUME NEW d \in Calls, NEW s, Go(d, s) PROVE call'[c] = call[c] \/ (c = d /\ call'[c] = s)
  BY <1>1, <1>5 DEF Go
<1>6. ASSUME NEW d \in Calls, Page(d) \/ Route(d)
      PROVE  Lands(c)
  <2>1. PICK s \in Step : Typed(s) /\ Knows(s) /\ Begin(d, s)
    BY <1>6, RequestsAsk, AskKnows
  <2>2. Knows(s)'
    BY <1>1, <2>1, KnowsLasts
  <2>3. call'[c] = call[c] \/ call'[c] = s
    BY <1>1, <2>1 DEF Begin
  <2>4. CASE call'[c] = s
    BY <2>1, <2>2, <2>4
  <2> QED BY <1>3, <2>3, <2>4
<1>7. ASSUME NEW d \in Calls, Spend(d) PROVE Lands(c)
  <2>1. PICK t : t = call[d]
    OBVIOUS
  <2>2. t.next = "spend" /\ t.who \in People
    BY <1>7, <2>1, CallHolds DEF Spend, At, Typed
  <2>3. PICK s : s = [next |-> "link", who |-> t.who, purpose |-> "verify"]
    OBVIOUS
  <2>4. s \in Step
    BY <2>2, <2>3 DEF Step, Purposes
  <2>5. accounts'[t.who].exists
    <3>1. accounts \in [Users -> Account]
      BY DEF AccessInv, Types
    <3>2. CreateIdentityAccount(t.who, t.pw)
      BY <1>7, <2>1 DEF Spend, SpendInviteAndCreateAccount
    <3> QED BY <2>2, <3>1, <3>2 DEF CreateIdentityAccount, NoAccount, Users
  <2>6. Knows(s)'
    BY <2>3, <2>5 DEF Knows
  <2>7. call'[c] = call[c] \/ call'[c] = s
    BY <1>5, <1>7, <2>1, <2>3 DEF Spend
  <2>8. CASE call'[c] = s
    BY <2>4, <2>6, <2>8
  <2> QED BY <1>3, <2>7, <2>8
<1>8. ASSUME NEW d \in Calls, Mint(d) PROVE Lands(c)
  <2>1. PICK t : t = call[d]
    OBVIOUS
  <2>2. /\ t \in Step /\ t.next = "mint" /\ t.who \in People /\ accounts[t.who].verified
        /\ t.name \in Names \ {0}
    BY <1>8, <2>1, CallHolds DEF Mint, At, Typed, Knows
  <2>3. End(d) \/ (MoreNames(t.name) /\ Go(d, [t EXCEPT !.name = t.name + 1]))
    BY <1>8, <2>1 DEF Mint
  <2>4. CASE End(d)
    BY <1>3, <1>4, <1>5, <2>4 DEF End
  <2>5. CASE MoreNames(t.name) /\ Go(d, [t EXCEPT !.name = t.name + 1])
    <3>1. PICK s : s = [t EXCEPT !.name = t.name + 1]
      OBVIOUS
    <3>2. t \in [next : {"mint"}, who : People, name : Names \ {0}, renames : BOOLEAN]
      BY <2>2 DEF Step
    <3>3. t.name + 1 \in Names \ {0}
      BY <2>2, <2>5, Bounds DEF MoreNames, Names
    <3>4. s \in [next : {"mint"}, who : People, name : Names \ {0}, renames : BOOLEAN]
      BY <3>1, <3>2, <3>3
    <3>5. s \in Step /\ s.next = "mint" /\ s.who = t.who
      BY <3>1, <3>2, <3>4 DEF Step
    <3>6. accounts'[t.who].verified
      BY <1>1, <2>2, FactsLast
    <3>7. Knows(s)'
      BY <3>5, <3>6 DEF Knows
    <3>8. call'[c] = call[c] \/ call'[c] = s
      BY <1>5, <2>5, <3>1
    <3>9. CASE call'[c] = s
      BY <3>5, <3>7, <3>9
    <3> QED BY <1>3, <3>8, <3>9
  <2> QED BY <2>3, <2>4, <2>5
<1>9. ASSUME NEW d \in Calls, GrantToken(d) PROVE Lands(c)
  <2>1. PICK t : t = call[d]
    OBVIOUS
  <2>2. t \in Step /\ t.next = "grant" /\ t.name \in Names \ {0}
    BY <1>9, <2>1, CallHolds DEF GrantToken, At, Typed
  <2>3. End(d) \/ (MoreNames(t.name) /\ Go(d, [t EXCEPT !.name = t.name + 1]))
    BY <1>9, <2>1 DEF GrantToken
  <2>4. CASE End(d)
    BY <1>3, <1>4, <1>5, <2>4 DEF End
  <2>5. CASE MoreNames(t.name) /\ Go(d, [t EXCEPT !.name = t.name + 1])
    <3>1. PICK s : s = [t EXCEPT !.name = t.name + 1]
      OBVIOUS
    <3>2. t \in [next : {"grant"}, code : DOMAIN codes, name : Names \ {0}]
      BY <2>2 DEF Step
    <3>3. t.name + 1 \in Names \ {0}
      BY <2>2, <2>5, Bounds DEF MoreNames, Names
    <3>4. s \in [next : {"grant"}, code : DOMAIN codes, name : Names \ {0}]
      BY <3>1, <3>2, <3>3
    <3>5. s \in Step /\ s.next = "grant"
      BY <3>4 DEF Step
    <3>6. Knows(s)'
      BY <3>5 DEF Knows
    <3>7. call'[c] = call[c] \/ call'[c] = s
      BY <1>5, <2>5, <3>1
    <3>8. CASE call'[c] = s
      BY <3>5, <3>6, <3>8
    <3> QED BY <1>3, <3>7, <3>8
  <2> QED BY <2>3, <2>4, <2>5
<1>10. ASSUME NEW d \in Calls, Continue(d) PROVE Lands(c)
  <2>1. Spend(d) \/ Mint(d) \/ GrantToken(d) \/ End(d)
    BY <1>10 DEF Continue, IssueLink, MarkVerified, ResetPassword, OpenSession, EndSession,
      StampConnected, Revoke, MintInvite, Withdraw, SetDisabled, Approve, Stop
  <2>2. CASE End(d)
    BY <1>3, <1>4, <1>5, <2>2 DEF End
  <2> QED BY <1>7, <1>8, <1>9, <2>1, <2>2
<1>11. CASE SweepClients \/ Expire \/ BootStep \/ UNCHANGED vars
  <2>1. call' = call
    BY <1>11 DEF SweepClients, Expire, BootStep, BootUnset, BootAccount, BootToken, BootRetire, BootSeed,
      BootRefused, Retry, BootInvite, Boot, vars
  <2> QED BY <1>3, <2>1
<1>12. ASSUME NEW k, Restart(k) PROVE Lands(c)
  BY <1>4, <1>12 DEF Restart
<1> QED BY <1>6, <1>10, <1>11, <1>12 DEF Next, BootStep

\* So the calls stay fit.
LEMMA StepCalls ==
  ASSUME AccessInv, [Next]_vars
  PROVE  CallsFit'
<1>1. Step' = Step
  <2>1. Types /\ Types'
    BY StepTypes DEF AccessInv
  <2>2. /\ DOMAIN invites = InviteIds /\ DOMAIN sessions = SessionIds /\ DOMAIN codes = CodeIds
        /\ DOMAIN invites' = InviteIds /\ DOMAIN sessions' = SessionIds /\ DOMAIN codes' = CodeIds
    BY <2>1 DEF Types
  <2> QED BY <2>2 DEF Step
<1>2. call' = [c \in Calls |-> call'[c]]
  <2>1. call \in [Calls -> Step]
    BY DEF AccessInv, CallsFit
  <2>2. \/ call' = call
        \/ \E c \in Calls : \E s : call' = [call EXCEPT ![c] = s]
        \/ call' = [c \in Calls |-> Idle]
    <3>1. ASSUME NEW c \in Calls, Page(c) \/ Route(c) PROVE \E s : call' = [call EXCEPT ![c] = s]
      BY <3>1, RequestsAsk, AskKnows DEF Begin
    <3>2. ASSUME NEW c \in Calls, Continue(c) PROVE \E s : call' = [call EXCEPT ![c] = s]
      BY <3>2 DEF Continue, Spend, IssueLink, MarkVerified, ResetPassword, OpenSession, EndSession,
        StampConnected, Mint, Revoke, MintInvite, Withdraw, SetDisabled, Approve, GrantToken, Stop, End, Go
    <3>3. CASE SweepClients \/ Expire \/ BootStep \/ UNCHANGED vars
      BY <3>3 DEF SweepClients, Expire, BootStep, BootUnset, BootAccount, BootToken, BootRetire, BootSeed,
        BootRefused, Retry, BootInvite, Boot, vars
    <3>4. ASSUME NEW k, Restart(k) PROVE call' = [c \in Calls |-> Idle]
      BY <3>4 DEF Restart
    <3> QED BY <3>1, <3>2, <3>3, <3>4 DEF Next, BootStep
  <2> QED BY <2>1, <2>2
<1>3. \A c \in Calls : Lands(c)
  BY CallSteps
<1>4. call' \in [Calls -> Step']
  BY <1>1, <1>2, <1>3 DEF Lands
<1>5. (\A c \in Calls : Knows(call[c]))'
  <2>1. \A c \in Calls : \E s : s = call'[c] /\ Knows(s)'
    BY <1>3 DEF Lands
  <2> QED BY <2>1 DEF Knows
<1> QED BY <1>4, <1>5 DEF CallsFit

-----------------------------------------------------------------------------
(* The rows a step leaves. *)

\* Which steps write which table.
LEMMA Writers ==
  ASSUME Shape
  PROVE  /\ \/ UNCHANGED accounts \/ Founds \/ \E p \in People : Enters(p)
            \/ \E u \in Users : Marks(u) \/ Ends(u)
         /\ \/ UNCHANGED invites \/ InvitesDrop \/ \E p \in People : Enters(p)
            \/ \E by \in People \union {NoOne} : Invites(by)
         /\ \/ UNCHANGED sessions \/ SessionsDrop \/ \E u \in Users : Ends(u)
            \/ \E p \in People : Opens(p)
         /\ \/ UNCHANGED links \/ LinksDrop \/ \E u \in Users : Ends(u)
            \/ \E p \in People : Mails(p)
         /\ \/ UNCHANGED tokens \/ TokensDrop \/ Retires \/ Seeds
            \/ (\E p \in People : Mints(p)) \/ \E k \in CodeIds : Grants(k)
         /\ \/ UNCHANGED codes \/ CodesExpire \/ (\E k \in CodeIds : Grants(k))
            \/ \E cl \in Clients, p \in People : Approves(cl, p)
         /\ UNCHANGED clients \/ ClientsMove \/ \E cl \in Clients, p \in People : Approves(cl, p)
BY DEF Shape, Serving, Enters, Marks, Ends, Opens, Mails, Mints, SessionsDrop, LinksDrop, TokensDrop,
  CodesExpire, ClientsMove, InvitesDrop, Grants, Approves, Invites, Retires, Seeds, Founds, tables

\* A registration writes one account and one invite.
LEMMA EnterRows ==
  ASSUME AccessInv, NEW p \in People, Enters(p)
  PROVE  /\ ~accounts[p].exists
         /\ \A q \in Users \ {p} : accounts'[q] = accounts[q]
         /\ accounts'[p].exists /\ accounts'[p].admin = ~AnyAccountHasEmail
         /\ ~accounts'[p].disabled /\ ~accounts'[p].verified
         /\ \E i \in InviteIds :
              /\ InviteLive(i) /\ invites[i].for \in {NoOne, p}
              /\ invites'[i].st = "spent" /\ invites'[i].spentBy = p /\ invites'[i].for = invites[i].for
              /\ invites'[i].by = invites[i].by /\ invites'[i].expired = invites[i].expired
              /\ \A j \in InviteIds \ {i} : invites'[j] = invites[j]
<1>1. accounts \in [Users -> Account] /\ invites \in [InviteIds -> Invite]
  BY DEF AccessInv, Types
<1>2. PICK pw \in Passwords, i \in InviteIds :
        /\ accounts' = [accounts EXCEPT ![p] =
             [NoAccount EXCEPT !.exists = TRUE, !.password = pw, !.admin = ~AnyAccountHasEmail]]
        /\ InviteLive(i) /\ invites[i].for \in {NoOne, p}
        /\ invites' = [invites EXCEPT ![i].st = "spent", ![i].spentBy = p]
  BY DEF Enters, CreateIdentityAccount, SpendInvite
<1>3. /\ \A q \in Users \ {p} : accounts'[q] = accounts[q]
      /\ accounts'[p].exists /\ accounts'[p].admin = ~AnyAccountHasEmail
      /\ ~accounts'[p].disabled /\ ~accounts'[p].verified
  BY <1>1, <1>2 DEF NoAccount, Users
<1>4. \A j \in InviteIds \ {i} : invites'[j] = invites[j]
  BY <1>1, <1>2
<1>5. /\ invites'[i].st = "spent" /\ invites'[i].spentBy = p /\ invites'[i].for = invites[i].for
      /\ invites'[i].by = invites[i].by /\ invites'[i].expired = invites[i].expired
  BY <1>1, <1>2 DEF Invite
<1> QED BY <1>2, <1>3, <1>4, <1>5 DEF Enters

\* Setting a password or suspending ends an account's sessions and links.
LEMMA EndRows ==
  ASSUME AccessInv, NEW p \in Users, Ends(p)
  PROVE  /\ \A s \in SessionIds :
              /\ sessions'[s].of = sessions[s].of /\ sessions'[s].era = sessions[s].era
              /\ sessions'[s].live => sessions[s].live /\ sessions[s].of # p
         /\ \A l \in LinkIds :
              /\ links'[l].of = links[l].of /\ links'[l].era = links[l].era
              /\ links'[l].purpose = links[l].purpose
              /\ links'[l].live => links[l].live /\ links[l].of # p
              /\ links[l] = NoLink => links'[l] = NoLink
<1>1. sessions \in [SessionIds -> Session] /\ links \in [LinkIds -> Link]
  BY DEF AccessInv, Types
<1>2. /\ sessions' = [s \in SessionIds |->
           IF sessions[s].of = p THEN [sessions[s] EXCEPT !.live = FALSE] ELSE sessions[s]]
      /\ links' = [l \in LinkIds |->
           IF links[l].of = p THEN [links[l] EXCEPT !.live = FALSE] ELSE links[l]]
  BY <1>1 DEF Ends, RevokeAccountSessions, RevokeAccountEmailTokens
<1>3. ASSUME NEW s \in SessionIds
      PROVE  /\ sessions'[s].of = sessions[s].of /\ sessions'[s].era = sessions[s].era
             /\ sessions'[s].live => sessions[s].live /\ sessions[s].of # p
  <2>1. sessions[s] \in Session
    BY <1>1
  <2>2. CASE sessions[s].of = p
    <3>1. sessions'[s] = [sessions[s] EXCEPT !.live = FALSE]
      BY <1>2, <2>2
    <3> QED BY <2>1, <3>1 DEF Session
  <2>3. CASE sessions[s].of # p
    <3>1. sessions'[s] = sessions[s]
      BY <1>2, <2>3
    <3> QED BY <2>3, <3>1
  <2> QED BY <2>2, <2>3
<1>4. ASSUME NEW l \in LinkIds
      PROVE  /\ links'[l].of = links[l].of /\ links'[l].era = links[l].era
             /\ links'[l].purpose = links[l].purpose
             /\ links'[l].live => links[l].live /\ links[l].of # p
             /\ links[l] = NoLink => links'[l] = NoLink
  <2>1. links[l] \in Link
    BY <1>1
  <2>2. CASE links[l].of = p
    <3>1. links'[l] = [links[l] EXCEPT !.live = FALSE]
      BY <1>2, <2>2
    <3>2. NoLink.of = NoOne /\ p # NoOne
      BY PeopleAssumption DEF PeopleAssumption, NoLink, Users
    <3> QED BY <2>1, <2>2, <3>1, <3>2 DEF Link
  <2>3. CASE links[l].of # p
    <3>1. links'[l] = links[l]
      BY <1>2, <2>3
    <3> QED BY <2>3, <3>1
  <2> QED BY <2>2, <2>3
<1> QED BY <1>3, <1>4

\* Founding the machine's account leaves every other alone.
LEMMA FoundRows ==
  ASSUME AccessInv, Founds
  PROVE  (\A p \in People : accounts'[p] = accounts[p]) /\ ~accounts'[Machine].admin
<1>1. accounts \in [Users -> Account] /\ Machine \in Users /\ Machine \notin People
  BY PeopleAssumption DEF PeopleAssumption, AccessInv, Types, Users
<1>2. accounts' = [accounts EXCEPT ![Machine] = [NoAccount EXCEPT !.exists = TRUE]]
  BY DEF Founds
<1> QED BY <1>1, <1>2 DEF NoAccount, Users

\* Signing in writes the next session, of the account as it is.
LEMMA OpenRows ==
  ASSUME AccessInv, NEW p \in People, Opens(p)
  PROVE  \E s \in SessionIds :
           /\ sessions[s] = NoSession
           /\ sessions'[s].of = p /\ sessions'[s].live /\ sessions'[s].era = accounts[p].era
           /\ \A r \in SessionIds \ {s} : sessions'[r] = sessions[r]
<1>1. sessions \in [SessionIds -> Session]
  BY DEF AccessInv, Types
<1> QED BY <1>1 DEF Opens, CreateSession, IsNext

\* Mailing a link consumes the older ones of its purpose.
LEMMA MailRows ==
  ASSUME AccessInv, NEW p \in People, Mails(p)
  PROVE  \E l \in LinkIds, purpose \in Purposes :
           /\ links[l] = NoLink /\ \A m \in LinkIds : links[m] = NoLink => l <= m
           /\ links'[l].of = p /\ links'[l].purpose = purpose /\ links'[l].era = accounts[p].era
           /\ \A m \in LinkIds \ {l} :
                /\ links'[m].of = links[m].of /\ links'[m].era = links[m].era
                /\ links'[m].purpose = links[m].purpose
                /\ links'[m].live => links[m].live /\ ~(links[m].of = p /\ links[m].purpose = purpose)
                /\ links[m] = NoLink => links'[m] = NoLink
<1>1. links \in [LinkIds -> Link] /\ DOMAIN links = LinkIds
  BY DEF AccessInv, Types
<1>2. PICK purpose \in Purposes, l \in LinkIds :
        /\ IsNext(l, links, NoLink)
        /\ links' = [ConsumeLiveEmailTokens(p, purpose) EXCEPT ![l] = NewEmailToken(p, purpose)]
  BY <1>1 DEF Mails, CreateEmailToken
<1>3. links[l] = NoLink /\ \A m \in LinkIds : links[m] = NoLink => l <= m
  BY <1>1, <1>2 DEF IsNext
<1>4. ConsumeLiveEmailTokens(p, purpose) = [m \in LinkIds |->
        IF links[m].of = p /\ links[m].purpose = purpose
        THEN [links[m] EXCEPT !.live = FALSE] ELSE links[m]]
  BY <1>1 DEF ConsumeLiveEmailTokens
<1>5. links'[l] = NewEmailToken(p, purpose)
  BY <1>2, <1>4
<1>6. ASSUME NEW m \in LinkIds \ {l}
      PROVE  /\ links'[m].of = links[m].of /\ links'[m].era = links[m].era
             /\ links'[m].purpose = links[m].purpose
             /\ links'[m].live => links[m].live /\ ~(links[m].of = p /\ links[m].purpose = purpose)
             /\ links[m] = NoLink => links'[m] = NoLink
  <2>1. links[m] \in Link
    BY <1>1
  <2>2. CASE links[m].of = p /\ links[m].purpose = purpose
    <3>1. links'[m] = [links[m] EXCEPT !.live = FALSE]
      BY <1>2, <1>4, <2>2
    <3>2. NoLink.of = NoOne /\ p # NoOne
      BY PeopleAssumption DEF PeopleAssumption, NoLink, Users
    <3> QED BY <2>1, <2>2, <3>1, <3>2 DEF Link
  <2>3. CASE ~(links[m].of = p /\ links[m].purpose = purpose)
    <3>1. links'[m] = links[m]
      BY <1>2, <1>4, <2>3
    <3> QED BY <2>3, <3>1
  <2> QED BY <2>2, <2>3
<1> QED BY <1>3, <1>5, <1>6 DEF NewEmailToken

\* A new token takes the next row.
LEMMA DrawRows ==
  ASSUME AccessInv, NEW u, NEW name, NEW k, CreateAPIToken(u, name, k)
  PROVE  \E t \in TokenIds :
           /\ tokens[t] = NoToken /\ \A v \in TokenIds : tokens[v] = NoToken => t <= v
           /\ tokens'[t] = NewToken(u, name, NoOne, k)
           /\ \A v \in TokenIds \ {t} : tokens'[v] = tokens[v]
           /\ ~NameTaken(tokens, u, name)
<1>1. tokens \in [TokenIds -> ApiToken] /\ DOMAIN tokens = TokenIds
  BY DEF AccessInv, Types
<1>2. PICK t \in TokenIds :
        IsNext(t, tokens, NoToken) /\ tokens' = [tokens EXCEPT ![t] = NewToken(u, name, NoOne, k)]
  BY <1>1 DEF CreateAPIToken
<1>3. tokens'[t] = NewToken(u, name, NoOne, k) /\ \A v \in TokenIds \ {t} : tokens'[v] = tokens[v]
  BY <1>1, <1>2
<1> QED BY <1>1, <1>2, <1>3 DEF IsNext, CreateAPIToken

\* A grant ends the client's older tokens, takes the next row and spends the code on it.
LEMMA GrantRows ==
  ASSUME AccessInv, NEW k \in CodeIds, Grants(k)
  PROVE  /\ codes[k].of \in People /\ ~codes[k].consumed
         /\ \E t \in TokenIds :
              /\ tokens[t] = NoToken /\ \A v \in TokenIds : tokens[v] = NoToken => t <= v
              /\ tokens'[t].of = codes[k].of /\ tokens'[t].client = codes[k].client
              /\ tokens'[t].key = "random" /\ ~tokens'[t].taken
              /\ \A v \in TokenIds \ {t} :
                   /\ tokens'[v].of = tokens[v].of /\ tokens'[v].client = tokens[v].client
                   /\ tokens'[v].live => tokens[v].live
                        /\ ~(tokens[v].of = codes[k].of /\ tokens[v].client = codes[k].client)
                   /\ tokens[v].of \notin People => tokens'[v] = tokens[v]
                   /\ tokens'[v].key = tokens[v].key /\ tokens'[v].name = tokens[v].name
                   /\ tokens'[v].taken = tokens[v].taken
              /\ codes'[k].of = codes[k].of /\ codes'[k].client = codes[k].client
              /\ codes'[k].consumed /\ codes'[k].token = t
              /\ \A j \in CodeIds \ {k} : codes'[j] = codes[j]
<1>1. /\ tokens \in [TokenIds -> ApiToken] /\ DOMAIN tokens = TokenIds
      /\ codes \in [CodeIds -> Code] /\ codes[k] \in Code
  BY DEF AccessInv, Types
<1>2. PICK p, cl : p = codes[k].of /\ cl = codes[k].client
  OBVIOUS
<1>3. PICK name \in Names \ {0}, t \in TokenIds :
        /\ ConsumeOAuthCode(k) /\ IsNext(t, tokens, NoToken)
        /\ tokens' = [RevokeLiveClientTokens(p, cl) EXCEPT ![t] = NewToken(p, name, cl, "random")]
        /\ codes' = [codes EXCEPT ![k].consumed = TRUE, ![k].token = t]
  BY <1>1, <1>2 DEF Grants, GrantClientToken, SetOAuthCodeToken
<1>4. p \in People /\ ~codes[k].consumed
  BY <1>1, <1>2, <1>3 DEF ConsumeOAuthCode, Code
<1>5. tokens[t] = NoToken /\ \A v \in TokenIds : tokens[v] = NoToken => t <= v
  BY <1>1, <1>3 DEF IsNext
<1>6. RevokeLiveClientTokens(p, cl) = [v \in TokenIds |->
        IF tokens[v].of = p /\ tokens[v].client = cl
        THEN [tokens[v] EXCEPT !.live = FALSE] ELSE tokens[v]]
  BY <1>1 DEF RevokeLiveClientTokens
<1>7. tokens'[t] = NewToken(p, name, cl, "random")
  BY <1>3, <1>6
<1>8. ASSUME NEW v \in TokenIds \ {t}
      PROVE  /\ tokens'[v].of = tokens[v].of /\ tokens'[v].client = tokens[v].client
             /\ tokens'[v].live => tokens[v].live /\ ~(tokens[v].of = p /\ tokens[v].client = cl)
             /\ tokens[v].of \notin People => tokens'[v] = tokens[v]
             /\ tokens'[v].key = tokens[v].key /\ tokens'[v].name = tokens[v].name
             /\ tokens'[v].taken = tokens[v].taken
  <2>1. tokens[v] \in ApiToken
    BY <1>1
  <2>2. CASE tokens[v].of = p /\ tokens[v].client = cl
    <3>1. tokens'[v] = [tokens[v] EXCEPT !.live = FALSE]
      BY <1>3, <1>6, <2>2
    <3> QED BY <1>4, <2>1, <2>2, <3>1 DEF ApiToken
  <2>3. CASE ~(tokens[v].of = p /\ tokens[v].client = cl)
    <3>1. tokens'[v] = tokens[v]
      BY <1>3, <1>6, <2>3
    <3> QED BY <2>3, <3>1
  <2> QED BY <2>2, <2>3
<1>9. /\ codes'[k].of = codes[k].of /\ codes'[k].client = codes[k].client
      /\ codes'[k].consumed /\ codes'[k].token = t
  BY <1>1, <1>3 DEF Code
<1>10. \A j \in CodeIds \ {k} : codes'[j] = codes[j]
  BY <1>1, <1>3
<1> QED BY <1>2, <1>4, <1>5, <1>7, <1>8, <1>9, <1>10 DEF NewToken

\* Retiring ends every seeded token and no other.
LEMMA RetireRows ==
  ASSUME AccessInv, Retires
  PROVE  \A t \in TokenIds :
           /\ tokens[t].of = Machine => tokens'[t] = [tokens[t] EXCEPT !.live = FALSE]
           /\ tokens[t].of # Machine => tokens'[t] = tokens[t]
<1>1. tokens' = [t \in TokenIds |->
        IF tokens[t].of = Machine /\ tokens[t].name = 0
        THEN [tokens[t] EXCEPT !.live = FALSE] ELSE tokens[t]]
  BY DEF AccessInv, Types, Retires, RevokeTokensNamed
<1>2. \A t \in TokenIds : tokens[t].of = Machine => tokens[t].name = 0
  BY DEF AccessInv, Rows, TokensFit
<1> QED BY <1>1, <1>2

\* A new invite takes an empty row.
LEMMA InviteRows ==
  ASSUME AccessInv, NEW by \in People \union {NoOne}, Invites(by)
  PROVE  /\ by = NoOne => ~\E i \in InviteIds : InviteLive(i) /\ invites[i].by = NoOne
         /\ \E i \in InviteIds :
              /\ invites[i] = NoInvite /\ invites'[i].st = "live" /\ invites'[i].by = by
              /\ \A j \in InviteIds \ {i} : invites'[j] = invites[j]
<1>1. invites \in [InviteIds -> Invite] /\ DOMAIN invites = InviteIds
  BY DEF AccessInv, Types
<1>2. PICK for \in People \union {NoOne}, i \in InviteIds :
        invites[i] = NoInvite /\ invites' = [invites EXCEPT ![i] = NewInvite(by, for)]
  BY <1>1 DEF Invites, CreateInvite, IsNext
<1>3. NewInvite(by, for).st = "live" /\ NewInvite(by, for).by = by
  BY DEF NewInvite, NoInvite
<1>4. invites'[i] = NewInvite(by, for) /\ \A j \in InviteIds \ {i} : invites'[j] = invites[j]
  BY <1>1, <1>2
<1> QED BY <1>1, <1>2, <1>3, <1>4 DEF Invites, AnyLiveBootstrapInvite

\* A new code takes an empty row, and its client is approved.
LEMMA ApproveRows ==
  ASSUME AccessInv, NEW cl \in Clients, NEW p \in People, Approves(cl, p)
  PROVE  /\ clients'[cl] = "approved" /\ \A d \in Clients \ {cl} : clients'[d] = clients[d]
         /\ \E k \in CodeIds :
              /\ codes[k] = NoCode
              /\ codes'[k].of = p /\ codes'[k].client = cl /\ ~codes'[k].consumed /\ codes'[k].token = 0
              /\ \A j \in CodeIds \ {k} : codes'[j] = codes[j]
<1>1. codes \in [CodeIds -> Code] /\ DOMAIN codes = CodeIds /\ clients \in [Clients -> ClientStates]
  BY DEF AccessInv, Types
<1>2. PICK k \in CodeIds :
        codes[k] = NoCode /\ codes' = [codes EXCEPT ![k] = [NoCode EXCEPT !.of = p, !.client = cl]]
  BY <1>1 DEF Approves, ApproveOAuthClientAndCreateCode, IsNext
<1>3. PICK row : row = [NoCode EXCEPT !.of = p, !.client = cl]
  OBVIOUS
<1>4. row.of = p /\ row.client = cl /\ ~row.consumed /\ row.token = 0
  BY <1>3 DEF NoCode
<1>5. codes'[k] = row /\ \A j \in CodeIds \ {k} : codes'[j] = codes[j]
  BY <1>1, <1>2, <1>3
<1>6. clients' = [clients EXCEPT ![cl] = "approved"]
  BY DEF Approves, ApproveOAuthClientAndCreateCode
<1> QED BY <1>1, <1>2, <1>4, <1>5, <1>6

-----------------------------------------------------------------------------
(* Every row invariant survives a step. *)

\* Accounts, and the sessions and links that are theirs.
LEMMA StepAccounts ==
  ASSUME AccessInv, Shape
  PROVE  AccountsFit' /\ SessionsFit' /\ LinksFit'
<1>1. AccountsFit /\ SessionsFit /\ LinksFit
  BY DEF AccessInv, Rows
<1>2. AccountsFit'
  <2>1. ASSUME NEW p \in People, Enters(p) PROVE AccountsFit'
    BY <1>1, <2>1, EnterRows, PeopleAssumption DEF PeopleAssumption, AccountsFit, Users
  <2>2. ASSUME NEW p \in Users, Marks(p) \/ Ends(p) PROVE AccountsFit'
    BY <1>1, <2>2 DEF AccountsFit, Marks, Ends, Stays, Users
  <2>3. CASE UNCHANGED accounts
    BY <1>1, <2>3 DEF AccountsFit
  <2>4. CASE Founds
    BY <1>1, <2>4, FoundRows, PeopleAssumption DEF PeopleAssumption, AccountsFit
  <2> QED BY <2>1, <2>2, <2>3, <2>4, Writers
<1>3. SessionsFit'
  <2>1. ASSUME NEW p \in Users, Ends(p) PROVE SessionsFit'
    BY <1>1, <2>1, EndRows DEF SessionsFit
  <2>2. ASSUME NEW p \in People, Opens(p) PROVE SessionsFit'
    BY <1>1, <2>2, OpenRows DEF SessionsFit
  <2>3. CASE SessionsDrop
    BY <1>1, <2>3 DEF SessionsFit, SessionsDrop
  <2>4. CASE UNCHANGED sessions
    BY <1>1, <2>4 DEF SessionsFit
  <2> QED BY <2>1, <2>2, <2>3, <2>4, Writers
<1>4. LinksFit'
  <2> DEFINE Named == \A l \in LinkIds :
               /\ links'[l].live => links'[l].of \in People
               /\ links'[l].of \in People => accounts[links'[l].of].exists
  <2>1. ASSUME NEW p \in Users, Ends(p) PROVE Named
    BY <1>1, <2>1, EndRows DEF LinksFit
  <2>2. ASSUME NEW p \in People, Mails(p) PROVE Named
    <3>1. accounts[p].exists
      BY <2>2 DEF Mails
    <3> QED BY <1>1, <2>2, <3>1, MailRows DEF LinksFit
  <2>3. CASE LinksDrop
    <3>1. Named
      BY <1>1, <2>3 DEF LinksFit, LinksDrop
    <3> QED BY <3>1, FactsLast DEF LinksFit
  <2>4. CASE UNCHANGED links
    <3>1. Named
      BY <1>1, <2>4 DEF LinksFit
    <3> QED BY <3>1, FactsLast DEF LinksFit
  <2>5. ASSUME Named PROVE LinksFit'
    BY <2>5, FactsLast DEF LinksFit
  <2> HIDE DEF Named
  <2> QED BY <2>1, <2>2, <2>3, <2>4, <2>5, Writers
<1> QED BY <1>2, <1>3, <1>4

\* Rows are drawn in order.
LEMMA StepOrder ==
  ASSUME AccessInv, Shape
  PROVE  LinksInOrder' /\ TokensInOrder'
<1>1. LinksInOrder /\ TokensInOrder /\ LinkIds \subseteq Nat /\ TokenIds \subseteq Nat
  BY DEF AccessInv, Rows, LinkIds, TokenIds
<1>2. NoLink.of = NoOne /\ NoToken.of = NoOne
  BY DEF NoLink, NoToken
<1>3. LinksInOrder'
  <2>1. ASSUME NEW p \in Users, Ends(p) PROVE LinksInOrder'
    BY <1>1, <2>1, EndRows DEF LinksInOrder
  <2>2. ASSUME NEW p \in People, Mails(p) PROVE LinksInOrder'
    <3>1. PICK n \in LinkIds :
           /\ links[n] = NoLink /\ \A m \in LinkIds : links[m] = NoLink => n <= m
           /\ links'[n].of = p
           /\ \A m \in LinkIds \ {n} :
                links'[m].of = links[m].of /\ (links[m] = NoLink => links'[m] = NoLink)
      BY <2>2, MailRows
    <3>2. ASSUME NEW l \in LinkIds, NEW m \in LinkIds, l <= m, links'[l].of = NoOne
          PROVE  links'[m] = NoLink
      <4>1. l # n /\ links[l].of = NoOne
        BY <3>1, <3>2, PeopleAssumption DEF PeopleAssumption
      <4>2. links[l] = NoLink /\ links[m] = NoLink
        BY <1>1, <3>2, <4>1 DEF LinksInOrder
      <4>3. n <= l
        BY <3>1, <4>2
      <4>4. m # n
        BY <1>1, <3>2, <4>1, <4>3
      <4> QED BY <3>1, <4>2, <4>4
    <3> QED BY <3>2 DEF LinksInOrder
  <2>3. CASE LinksDrop
    BY <1>1, <2>3 DEF LinksInOrder, LinksDrop
  <2>4. CASE UNCHANGED links
    BY <1>1, <2>4 DEF LinksInOrder
  <2> QED BY <2>1, <2>2, <2>3, <2>4, Writers
<1>4. ASSUME NEW n \in TokenIds, tokens[n] = NoToken,
             \A v \in TokenIds : tokens[v] = NoToken => n <= v,
             tokens'[n].of # NoOne,
             \A v \in TokenIds \ {n} : /\ tokens'[v].of = tokens[v].of
                                       /\ tokens[v].of = NoOne => tokens'[v] = tokens[v]
      PROVE  TokensInOrder'
  <2>1. ASSUME NEW t \in TokenIds, NEW u \in TokenIds, t <= u, tokens'[t].of = NoOne
        PROVE  tokens'[u] = NoToken
    <3>1. t # n /\ tokens[t].of = NoOne
      BY <1>4, <2>1
    <3>2. tokens[t] = NoToken /\ tokens[u] = NoToken
      BY <1>1, <2>1, <3>1 DEF TokensInOrder
    <3>3. n <= t
      BY <1>4, <3>2
    <3>4. u # n
      BY <1>1, <2>1, <3>1, <3>3
    <3> QED BY <1>2, <1>4, <3>2, <3>4
  <2> QED BY <2>1 DEF TokensInOrder
<1>5. ASSUME NEW u \in Users, NEW name, NEW k, CreateAPIToken(u, name, k) PROVE TokensInOrder'
  <2>1. PICK n \in TokenIds :
          /\ tokens[n] = NoToken /\ \A v \in TokenIds : tokens[v] = NoToken => n <= v
          /\ tokens'[n] = NewToken(u, name, NoOne, k)
          /\ \A v \in TokenIds \ {n} : tokens'[v] = tokens[v]
    BY <1>5, DrawRows
  <2>2. tokens'[n].of # NoOne
    BY <2>1, PeopleAssumption DEF PeopleAssumption, NewToken, Users
  <2> QED BY <1>4, <2>1, <2>2
<1>6. TokensInOrder'
  <2>1. ASSUME NEW p \in People, Mints(p) PROVE TokensInOrder'
    BY <1>5, <2>1 DEF Mints, Users
  <2>2. CASE Seeds
    BY <1>5, <2>2 DEF Seeds, Users
  <2>3. ASSUME NEW k \in CodeIds, Grants(k) PROVE TokensInOrder'
    <3>1. PICK n \in TokenIds :
              /\ tokens[n] = NoToken /\ \A v \in TokenIds : tokens[v] = NoToken => n <= v
              /\ tokens'[n].of = codes[k].of
              /\ \A v \in TokenIds \ {n} :
                   /\ tokens'[v].of = tokens[v].of
                   /\ tokens[v].of = NoOne => tokens'[v] = tokens[v]
      BY <2>3, GrantRows, PeopleAssumption DEF PeopleAssumption
    <3>2. tokens'[n].of # NoOne
      BY <2>3, <3>1, GrantRows, PeopleAssumption DEF PeopleAssumption
    <3> QED BY <1>4, <3>1, <3>2
  <2>4. CASE Retires
    <3>1. \A t \in TokenIds : tokens'[t].of = tokens[t].of
      <4>1. \A t \in TokenIds : tokens[t] \in ApiToken
        BY DEF AccessInv, Types
      <4> QED BY <2>4, <4>1, RetireRows DEF ApiToken
    <3>2. \A t \in TokenIds : tokens[t] = NoToken => tokens'[t] = NoToken
      BY <1>2, <2>4, RetireRows, PeopleAssumption DEF PeopleAssumption
    <3> QED BY <1>1, <3>1, <3>2 DEF TokensInOrder
  <2>5. CASE TokensDrop
    <3>1. \A t \in TokenIds : tokens[t] = NoToken => tokens'[t] = NoToken
      BY <1>2, <2>5 DEF TokensDrop
    <3> QED BY <1>1, <2>5, <3>1 DEF TokensInOrder, TokensDrop
  <2>6. CASE UNCHANGED tokens
    BY <1>1, <2>6 DEF TokensInOrder
  <2> QED BY <2>1, <2>2, <2>3, <2>4, <2>5, <2>6, Writers
<1> QED BY <1>3, <1>6

\* The machine account's tokens are those seeded, one at a time.
LEMMA StepSeeded ==
  ASSUME AccessInv, Shape
  PROVE  TokensFit' /\ OneSeeded'
<1>1. TokensFit /\ OneSeeded
  BY DEF AccessInv, Rows
<1>2. NoToken.of = NoOne /\ NoToken.live = FALSE /\ NoToken.key = "random"
  BY DEF NoToken
<1>3. Machine \notin People /\ NoOne # Machine
  BY PeopleAssumption DEF PeopleAssumption
<1>4. \A t \in TokenIds : tokens[t] \in ApiToken
  BY DEF AccessInv, Types
<1>5. ASSUME NEW p \in People, Mints(p) PROVE TokensFit' /\ OneSeeded'
  <2>1. PICK t \in TokenIds, name \in Names :
          /\ tokens'[t] = NewToken(p, name, NoOne, "random")
          /\ \A v \in TokenIds \ {t} : tokens'[v] = tokens[v]
    BY <1>5, DrawRows DEF Mints
  <2>2. tokens'[t].of = p /\ tokens'[t].key = "random" /\ ~tokens'[t].taken
    BY <2>1 DEF NewToken
  <2> QED BY <1>1, <1>3, <2>1, <2>2 DEF TokensFit, OneSeeded
<1>6. CASE Seeds
  <2>1. PICK t \in TokenIds :
          /\ tokens'[t] = NewToken(Machine, 0, NoOne, key)
          /\ \A v \in TokenIds \ {t} : tokens'[v] = tokens[v]
          /\ ~NameTaken(tokens, Machine, 0)
    BY <1>6, DrawRows DEF Seeds
  <2>2. /\ tokens'[t].of = Machine /\ tokens'[t].name = 0 /\ tokens'[t].client = NoOne
        /\ tokens'[t].key = key /\ ~tokens'[t].expired /\ ~tokens'[t].taken /\ key \in Keys
    BY <1>6, <2>1 DEF NewToken, Seeds
  <2>3. \A v \in TokenIds : ~(tokens[v].of = Machine /\ tokens[v].live)
    BY <1>1, <2>1 DEF NameTaken, TokensFit, AccessInv, Types
  <2> QED BY <1>1, <2>1, <2>2, <2>3 DEF TokensFit, OneSeeded
<1>7. ASSUME NEW k \in CodeIds, Grants(k) PROVE TokensFit' /\ OneSeeded'
  <2>1. PICK t \in TokenIds :
          /\ tokens'[t].of = codes[k].of /\ tokens'[t].key = "random" /\ ~tokens'[t].taken
          /\ \A v \in TokenIds \ {t} :
               /\ tokens'[v].of = tokens[v].of
               /\ tokens'[v].taken = tokens[v].taken /\ (tokens'[v].live => tokens[v].live)
               /\ tokens[v].of \notin People => tokens'[v] = tokens[v]
               /\ tokens'[v].key = tokens[v].key
    BY <1>7, GrantRows
  <2>2. tokens'[t].of # Machine
    BY <1>3, <1>7, <2>1, GrantRows
  <2> QED BY <1>1, <1>3, <2>1, <2>2 DEF TokensFit, OneSeeded
<1>8. CASE Retires
  <2>1. \A t \in TokenIds : tokens[t].of = Machine =>
          /\ tokens'[t].of = tokens[t].of /\ tokens'[t].name = tokens[t].name
          /\ tokens'[t].client = tokens[t].client /\ tokens'[t].key = tokens[t].key
          /\ tokens'[t].expired = tokens[t].expired /\ ~tokens'[t].live
    BY <1>4, <1>8, RetireRows DEF ApiToken
  <2>2. \A t \in TokenIds : tokens[t].of # Machine => tokens'[t] = tokens[t]
    BY <1>8, RetireRows
  <2>3. TokensFit'
    BY <1>1, <2>1, <2>2 DEF TokensFit
  <2>4. OneSeeded'
    BY <1>1, <2>1, <2>2 DEF OneSeeded
  <2> QED BY <2>3, <2>4
<1>9. CASE TokensDrop
  <2>1. \A t \in TokenIds :
          /\ tokens'[t].of = tokens[t].of /\ tokens'[t].key = tokens[t].key
          /\ tokens'[t].name = tokens[t].name /\ tokens'[t].client = tokens[t].client
          /\ tokens'[t].live => tokens[t].live
          /\ tokens[t].of = Machine => tokens'[t].expired = tokens[t].expired
          /\ tokens'[t].taken => tokens[t].taken \/ ~tokens'[t].live
    BY <1>9 DEF TokensDrop
  <2>2. TokensFit'
    BY <1>1, <2>1 DEF TokensFit
  <2>3. OneSeeded'
    BY <1>1, <2>1 DEF OneSeeded
  <2> QED BY <2>2, <2>3
<1>10. CASE UNCHANGED tokens
  BY <1>1, <1>10 DEF TokensFit, OneSeeded
<1> QED BY <1>5, <1>6, <1>7, <1>8, <1>9, <1>10, Writers

\* While the platform serves, what the process seeded keeps its key, and ends only
\* when somebody revokes it.
LEMMA ServingKeepsSeeded ==
  ASSUME AccessInv, Serving
  PROVE  \A t \in TokenIds :
           /\ tokens[t].of = Machine =>
                /\ tokens'[t].of = Machine /\ tokens'[t].key = tokens[t].key
                /\ tokens[t].live \/ tokens[t].taken => tokens'[t].live \/ tokens'[t].taken
           /\ tokens'[t].of = Machine /\ tokens'[t].live => tokens[t].of = Machine /\ tokens[t].live
<1> DEFINE Kept == \A t \in TokenIds :
           /\ tokens[t].of = Machine =>
                /\ tokens'[t].of = Machine /\ tokens'[t].key = tokens[t].key
                /\ tokens[t].live \/ tokens[t].taken => tokens'[t].live \/ tokens'[t].taken
           /\ tokens'[t].of = Machine /\ tokens'[t].live => tokens[t].of = Machine /\ tokens[t].live
<1>1. NoToken.of = NoOne /\ Machine \notin People /\ NoOne # Machine
  BY PeopleAssumption DEF PeopleAssumption, NoToken
<1>2. \/ UNCHANGED tokens \/ TokensDrop
      \/ (\E p \in People : Mints(p)) \/ \E k \in CodeIds : Grants(k)
  BY DEF Serving, Enters, Marks, Ends, Opens, Mails, SessionsDrop, LinksDrop,
    CodesExpire, ClientsMove, InvitesDrop, Approves, Invites, tables
<1>3. ASSUME NEW p \in People, Mints(p) PROVE Kept
  <2>1. PICK n \in TokenIds, name \in Names :
          /\ tokens[n] = NoToken /\ tokens'[n] = NewToken(p, name, NoOne, "random")
          /\ \A v \in TokenIds \ {n} : tokens'[v] = tokens[v]
    BY <1>3, DrawRows DEF Mints
  <2>2. tokens'[n].of = p
    BY <2>1 DEF NewToken
  <2> QED BY <1>1, <2>1, <2>2
<1>4. ASSUME NEW k \in CodeIds, Grants(k) PROVE Kept
  <2>1. PICK n \in TokenIds :
          /\ tokens[n] = NoToken /\ tokens'[n].of = codes[k].of
          /\ \A v \in TokenIds \ {n} :
               /\ tokens'[v].of = tokens[v].of
               /\ tokens[v].of \notin People => tokens'[v] = tokens[v]
    BY <1>4, GrantRows
  <2>2. codes[k].of \in People
    BY <1>4, GrantRows
  <2> QED BY <1>1, <2>1, <2>2
<1>5. ASSUME TokensDrop PROVE Kept
  BY <1>5 DEF TokensDrop
<1>6. ASSUME UNCHANGED tokens PROVE Kept
  BY <1>6
<1>7. Kept
  <2> HIDE DEF Kept
  <2> QED BY <1>2, <1>3, <1>4, <1>5, <1>6
<1> QED BY <1>7

\* A process past its seed has a token for the key it was given, which works unless
\* it was revoked by its id, and no other.
LEMMA StepBoot ==
  ASSUME AccessInv, [Next]_vars
  PROVE  BootFits'
<1>1. BootFits /\ TokensFit /\ tokens \in [TokenIds -> ApiToken] /\ key \in Keys \union {"unset"}
  BY DEF AccessInv, Rows, Types
<1>2. ASSUME Serving, UNCHANGED <<boot, key>> PROVE BootFits'
  <2>1. ASSUME NEW t \in TokenIds, Seats(t) PROVE Seats(t)'
    BY <1>2, <2>1, ServingKeepsSeeded DEF Seats
  <2> QED BY <1>1, <1>2, <2>1 DEF BootFits
<1>3. ASSUME NEW c \in Calls, Page(c) \/ Route(c) PROVE BootFits'
  <2>1. Serving
    BY <1>3, RequestsAsk, AskShape
  <2>2. UNCHANGED <<boot, key>>
    BY <1>3, RequestsAsk, AskKnows DEF Begin
  <2> QED BY <1>2, <2>1, <2>2
<1>4. ASSUME NEW c \in Calls, Continue(c) PROVE BootFits'
  <2>1. Serving
    BY <1>4, ContinueShape
  <2>2. UNCHANGED <<boot, key>>
    BY <1>4 DEF Continue, Spend, IssueLink, MarkVerified, ResetPassword, OpenSession, EndSession,
      StampConnected, Mint, Revoke, MintInvite, Withdraw, SetDisabled, Approve, GrantToken, Stop, End, Go
  <2> QED BY <1>2, <2>1, <2>2
<1>5. CASE Expire
  <2>1. Serving
    BY <1>5, ExpireShape
  <2>2. UNCHANGED <<boot, key>>
    BY <1>5 DEF Expire
  <2> QED BY <1>2, <2>1, <2>2
<1>6. CASE SweepClients \/ UNCHANGED vars
  <2>1. UNCHANGED <<tokens, boot, key>>
    BY <1>6 DEF SweepClients, vars, tables
  <2> QED BY <1>1, <2>1 DEF BootFits, Seats
<1>7. CASE BootUnset \/ BootAccount \/ BootRefused \/ Retry
  BY <1>1, <1>7 DEF BootUnset, BootAccount, BootRefused, Retry, Boot, BootFits, tables
<1>8. CASE BootToken
  <2>1. PICK t \in TokenIds : tokens[t].live /\ tokens[t].key = key
    BY <1>1, <1>8 DEF BootToken, ResolveToken
  <2>2. key # "unset" => tokens[t].of = Machine
    BY <1>1, <2>1, KeyAssumption DEF KeyAssumption, TokensFit
  <2>3. boot' = "invite" /\ UNCHANGED <<tokens, key>>
    BY <1>8 DEF BootToken, Boot, tables
  <2>4. key # "unset" => Seats(t)
    BY <2>1, <2>2 DEF Seats, AccessInv, Rows, OneSeeded
  <2> QED BY <2>3, <2>4 DEF BootFits, Seats
<1>9. CASE BootRetire
  BY <1>9 DEF BootRetire, Boot, BootFits
<1>10. CASE BootSeed
  <2>1. PICK t \in TokenIds : tokens'[t] = NewToken(Machine, 0, NoOne, key)
    BY <1>10, DrawRows DEF BootSeed
  <2>2. tokens'[t].of = Machine /\ tokens'[t].live /\ tokens'[t].key = key
    BY <2>1 DEF NewToken
  <2>3. boot' = "invite" /\ key' = key
    BY <1>10 DEF BootSeed, Boot
  <2>4. OneSeeded'
    BY StepShape, StepSeeded
  <2>5. Seats(t)'
    BY <2>2, <2>3, <2>4 DEF Seats, OneSeeded
  <2> QED BY <2>3, <2>5 DEF BootFits
<1>11. CASE BootInvite
  <2>1. boot = "invite" /\ boot' = "up" /\ UNCHANGED <<tokens, key>>
    BY <1>11 DEF BootInvite, Boot
  <2> QED BY <1>1, <2>1 DEF BootFits, Seats
<1>12. ASSUME NEW k, Restart(k) PROVE BootFits'
  BY <1>12 DEF Restart, BootFits
<1> QED BY <1>3, <1>4, <1>5, <1>6, <1>7, <1>8, <1>9, <1>10, <1>11, <1>12 DEF Next

\* The row a code points at is the one token it bought.
LEMMA CodeTokens ==
  ASSUME AccessInv, NEW k \in CodeIds, codes[k].token # 0
  PROVE  /\ codes[k].token \in TokenIds /\ codes[k].of \in People
         /\ tokens[codes[k].token] # NoToken
<1>1. codes[k] \in Code
  BY DEF AccessInv, Types
<1>2. codes[k].token \in TokenIds
  BY <1>1, Bounds DEF Code, TokenIds
<1>3. NoCode.token = 0 /\ NoToken.of = NoOne
  BY DEF NoCode, NoToken
<1>4. codes[k].of # NoOne /\ tokens[codes[k].token].of = codes[k].of
  BY <1>3 DEF AccessInv, Rows, CodesFit
<1> QED BY <1>1, <1>2, <1>3, <1>4 DEF Code

\* Codes and what they bought.
LEMMA StepCodes ==
  ASSUME AccessInv, Shape
  PROVE  CodesFit'
<1>1. CodesFit /\ \A k \in CodeIds : codes[k] \in Code
  BY DEF AccessInv, Rows, Types
<1>2. NoCode.of = NoOne /\ NoCode.token = 0 /\ NoOne \notin People
  BY PeopleAssumption DEF PeopleAssumption, NoCode
<1> DEFINE Row(k) ==
      /\ codes'[k].of = NoOne => codes'[k] = NoCode
      /\ codes'[k].of # NoOne => codes'[k].client \in Clients /\ accounts'[codes'[k].of].verified
      /\ codes'[k].token # 0 =>
           /\ tokens'[codes'[k].token].of = codes'[k].of
           /\ tokens'[codes'[k].token].client = codes'[k].client
<1>3. ASSUME NEW k \in CodeIds, codes'[k].of = codes[k].of, codes'[k].client = codes[k].client,
             codes'[k].token = codes[k].token, codes[k].of = NoOne => codes'[k] = codes[k]
      PROVE  Row(k)
  <2>1. codes[k].of # NoOne => codes[k].of \in People /\ accounts'[codes[k].of].verified
    BY <1>1, FactsLast DEF CodesFit, Code
  <2>2. codes[k].token # 0 =>
          /\ tokens'[codes[k].token].of = codes[k].of
          /\ tokens'[codes[k].token].client = codes[k].client
    <3>1. SUFFICES ASSUME codes[k].token # 0
                   PROVE  /\ tokens'[codes[k].token].of = codes[k].of
                          /\ tokens'[codes[k].token].client = codes[k].client
      OBVIOUS
    <3>2. /\ codes[k].token \in TokenIds /\ codes[k].of \in People
          /\ tokens[codes[k].token].of = codes[k].of
          /\ tokens[codes[k].token].client = codes[k].client
      BY <1>1, <3>1, CodeTokens DEF CodesFit
    <3>3. tokens[codes[k].token].of # NoOne
      BY <1>2, <3>2
    <3> QED BY <3>2, <3>3, FactsLast
  <2> QED BY <1>1, <1>3, <2>1, <2>2 DEF CodesFit
<1>4. ASSUME NEW k \in CodeIds, Grants(k), NEW j \in CodeIds PROVE Row(j)
  <2>1. PICK t \in TokenIds :
          /\ tokens'[t].of = codes[k].of /\ tokens'[t].client = codes[k].client
          /\ codes'[k].of = codes[k].of /\ codes'[k].client = codes[k].client
          /\ codes'[k].token = t
          /\ \A i \in CodeIds \ {k} : codes'[i] = codes[i]
    BY <1>4, GrantRows
  <2>2. CASE j # k
    BY <1>3, <2>1, <2>2
  <2>3. CASE j = k
    <3>1. codes[k].of \in People
      BY <1>4, GrantRows
    <3>2. codes[k].client \in Clients /\ accounts'[codes[k].of].verified
      BY <1>1, <1>2, <3>1, FactsLast DEF CodesFit
    <3> QED BY <1>2, <2>1, <2>3, <3>1, <3>2
  <2> QED BY <2>2, <2>3
<1>5. ASSUME NEW cl \in Clients, NEW p \in People, Approves(cl, p), NEW j \in CodeIds PROVE Row(j)
  <2>1. PICK k \in CodeIds :
          /\ codes'[k].of = p /\ codes'[k].client = cl /\ codes'[k].token = 0
          /\ \A i \in CodeIds \ {k} : codes'[i] = codes[i]
    BY <1>5, ApproveRows
  <2>2. CASE j # k
    BY <1>3, <2>1, <2>2
  <2>3. CASE j = k
    <3>1. accounts'[p].verified
      BY <1>5, FactsLast DEF Approves
    <3> QED BY <1>2, <2>1, <2>3, <3>1
  <2> QED BY <2>2, <2>3
<1>6. ASSUME UNCHANGED codes \/ CodesExpire, NEW j \in CodeIds PROVE Row(j)
  <2>1. /\ codes'[j].of = codes[j].of /\ codes'[j].client = codes[j].client
        /\ codes'[j].token = codes[j].token /\ (codes[j].of = NoOne => codes'[j] = codes[j])
    BY <1>6 DEF CodesExpire
  <2> QED BY <1>3, <2>1
<1>7. \A k \in CodeIds : Row(k)
  <2> HIDE DEF Row
  <2> QED BY <1>4, <1>5, <1>6, Writers
<1> QED BY <1>7 DEF CodesFit

\* A code buys one token and a connector's tokens were all bought with one.
LEMMA StepBuys ==
  ASSUME AccessInv, Shape
  PROVE  CodeBuysOneToken'
<1>1. /\ DOMAIN tokens = TokenIds /\ DOMAIN codes = CodeIds
      /\ DOMAIN tokens' = TokenIds /\ DOMAIN codes' = CodeIds
  BY StepRows DEF AccessInv, Types
<1> DEFINE Bought(t) == \E k \in CodeIds : codes[k].token = t /\ codes[k].of = tokens[t].of
                                           /\ codes[k].client = tokens[t].client
           Bought1(t) == \E k \in CodeIds : codes'[k].token = t /\ codes'[k].of = tokens'[t].of
                                            /\ codes'[k].client = tokens'[t].client
           Once == \A k, j \in CodeIds :
             /\ codes[k].consumed <=> codes[k].token # 0
             /\ codes[k].token # 0 /\ codes[k].token = codes[j].token => k = j
           Once1 == \A k, j \in CodeIds :
             /\ codes'[k].consumed <=> codes'[k].token # 0
             /\ codes'[k].token # 0 /\ codes'[k].token = codes'[j].token => k = j
<1>2. (\A t \in TokenIds : tokens[t].client # NoOne => Bought(t)) /\ Once
  BY <1>1 DEF AccessInv, Promises, GrantsAreBoughtOnce, CodeBuysOneToken
<1>3. NoToken.client = NoOne /\ NoCode.token = 0 /\ 0 \notin TokenIds
  BY DEF NoToken, NoCode, TokenIds
<1>4. ASSUME NEW k \in CodeIds, Grants(k)
      PROVE  (\A t \in TokenIds : tokens'[t].client # NoOne => Bought1(t)) /\ Once1
  <2>1. PICK n \in TokenIds :
          /\ tokens[n] = NoToken
          /\ tokens'[n].of = codes[k].of /\ tokens'[n].client = codes[k].client
          /\ \A v \in TokenIds \ {n} :
               tokens'[v].of = tokens[v].of /\ tokens'[v].client = tokens[v].client
          /\ codes'[k].of = codes[k].of /\ codes'[k].client = codes[k].client
          /\ codes'[k].consumed /\ codes'[k].token = n
          /\ \A j \in CodeIds \ {k} : codes'[j] = codes[j]
    BY <1>4, GrantRows
  <2>2. ~codes[k].consumed /\ codes[k].token = 0
    BY <1>2, <1>4, GrantRows
  <2>3. \A j \in CodeIds : codes[j].token # n
    BY <1>3, <2>1, CodeTokens
  <2>4. ASSUME NEW t \in TokenIds, tokens'[t].client # NoOne PROVE Bought1(t)
    <3>1. CASE t = n
      BY <2>1, <3>1
    <3>2. CASE t # n
      <4>1. PICK j \in CodeIds : codes[j].token = t /\ codes[j].of = tokens[t].of
                                 /\ codes[j].client = tokens[t].client
        BY <1>2, <2>1, <2>4, <3>2
      <4>2. j # k
        BY <1>3, <2>2, <4>1
      <4> QED BY <2>1, <3>2, <4>1, <4>2
    <3> QED BY <3>1, <3>2
  <2>5. Once1
    BY <1>2, <1>3, <2>1, <2>3
  <2> QED BY <2>4, <2>5
<1>5. ASSUME NEW cl \in Clients, NEW p \in People, Approves(cl, p)
      PROVE  (\A t \in TokenIds : tokens'[t].client # NoOne => Bought1(t)) /\ Once1
  <2>1. PICK k \in CodeIds :
          /\ codes[k] = NoCode /\ ~codes'[k].consumed /\ codes'[k].token = 0
          /\ \A i \in CodeIds \ {k} : codes'[i] = codes[i]
    BY <1>5, ApproveRows
  <2>2. tokens' = tokens
    BY <1>5 DEF Approves
  <2>3. ASSUME NEW t \in TokenIds, tokens[t].client # NoOne PROVE Bought1(t)
    <3>1. PICK j \in CodeIds : codes[j].token = t /\ codes[j].of = tokens[t].of
                               /\ codes[j].client = tokens[t].client
      BY <1>2, <2>3
    <3>2. j # k
      BY <1>3, <2>1, <3>1
    <3> QED BY <2>1, <2>2, <3>1, <3>2
  <2>4. Once1
    BY <1>2, <2>1
  <2> QED BY <2>2, <2>3, <2>4
<1>6. ASSUME ~\E k \in CodeIds : Grants(k), ~\E cl \in Clients, p \in People : Approves(cl, p)
      PROVE  (\A t \in TokenIds : tokens'[t].client # NoOne => Bought1(t)) /\ Once1
  <2>1. \A k \in CodeIds :
          /\ codes'[k].of = codes[k].of /\ codes'[k].client = codes[k].client
          /\ codes'[k].token = codes[k].token /\ codes'[k].consumed = codes[k].consumed
    BY <1>6, Writers DEF CodesExpire
  <2>2. ASSUME NEW t \in TokenIds, tokens'[t].client # NoOne
        PROVE  tokens'[t].of = tokens[t].of /\ tokens'[t].client = tokens[t].client
    <3>1. ASSUME NEW u, NEW name, NEW k, CreateAPIToken(u, name, k)
          PROVE  tokens'[t].of = tokens[t].of /\ tokens'[t].client = tokens[t].client
      <4>1. PICK n \in TokenIds :
              /\ tokens'[n] = NewToken(u, name, NoOne, k)
              /\ \A v \in TokenIds \ {n} : tokens'[v] = tokens[v]
        BY <3>1, DrawRows
      <4>2. tokens'[n].client = NoOne
        BY <4>1 DEF NewToken
      <4>3. t # n
        BY <2>2, <4>2
      <4> QED BY <4>1, <4>3
    <3>2. ASSUME Retires
          PROVE  tokens'[t].of = tokens[t].of /\ tokens'[t].client = tokens[t].client
      <4>1. tokens[t] \in ApiToken
        BY DEF AccessInv, Types
      <4> QED BY <3>2, <4>1, RetireRows DEF ApiToken
    <3>3. CASE TokensDrop
      BY <3>3 DEF TokensDrop
    <3>4. UNCHANGED tokens \/ TokensDrop \/ Retires \/ \E u, name, k : CreateAPIToken(u, name, k)
      BY <1>6, Writers DEF Seeds, Mints
    <3> QED BY <3>1, <3>2, <3>3, <3>4
  <2>3. ASSUME NEW t \in TokenIds, tokens'[t].client # NoOne PROVE Bought1(t)
    <3>1. tokens'[t].of = tokens[t].of /\ tokens'[t].client = tokens[t].client
      BY <2>2, <2>3
    <3> QED BY <1>2, <2>1, <2>3, <3>1
  <2>4. Once1
    BY <1>2, <2>1
  <2> QED BY <2>3, <2>4
<1>7. (\A t \in TokenIds : tokens'[t].client # NoOne => Bought1(t)) /\ Once1
  <2> HIDE DEF Bought1, Once1
  <2> QED BY <1>4, <1>5, <1>6
<1> QED BY <1>1, <1>7 DEF CodeBuysOneToken

\* A connector's last grant stands.
LEMMA StepGrants ==
  ASSUME AccessInv, Shape
  PROVE  LastGrantStands'
<1>1. /\ DOMAIN tokens = TokenIds /\ DOMAIN codes = CodeIds
      /\ DOMAIN tokens' = TokenIds /\ DOMAIN codes' = CodeIds /\ TokenIds \subseteq Nat
      /\ \A k \in CodeIds : codes[k] \in Code
  BY StepRows DEF AccessInv, Types, TokenIds
<1> DEFINE Newest == \A t, u \in TokenIds :
             tokens[t].live /\ tokens[t].client # NoOne
               /\ tokens[u].client = tokens[t].client /\ tokens[u].of = tokens[t].of => u <= t
           Newest1 == \A t, u \in TokenIds :
             tokens'[t].live /\ tokens'[t].client # NoOne
               /\ tokens'[u].client = tokens'[t].client /\ tokens'[u].of = tokens'[t].of => u <= t
           Kept1 == \A k \in CodeIds : codes'[k].of # NoOne => clients'[codes'[k].client] = "approved"
<1>2. Newest /\ \A k \in CodeIds : codes[k].of # NoOne =>
                   clients[codes[k].client] = "approved" /\ codes[k].client \in Clients
  BY <1>1 DEF AccessInv, Promises, GrantsAreBoughtOnce, LastGrantStands, Rows, CodesFit
<1>3. NoToken.of = NoOne /\ NoToken.client = NoOne /\ NoOne \notin People /\ NoOne \notin Clients
  BY PeopleAssumption DEF PeopleAssumption, NoToken
<1>4. Newest1
  <2>1. ASSUME NEW k \in CodeIds, Grants(k) PROVE Newest1
    <3>1. PICK n \in TokenIds :
            /\ tokens[n] = NoToken /\ \A v \in TokenIds : tokens[v] = NoToken => n <= v
            /\ tokens'[n].of = codes[k].of /\ tokens'[n].client = codes[k].client
            /\ \A v \in TokenIds \ {n} :
                 /\ tokens'[v].of = tokens[v].of /\ tokens'[v].client = tokens[v].client
                 /\ tokens'[v].live => tokens[v].live
                      /\ ~(tokens[v].of = codes[k].of /\ tokens[v].client = codes[k].client)
      BY <2>1, GrantRows
    <3>2. codes[k].of \in People /\ codes[k].client \in Clients
      BY <1>2, <1>3, <2>1, GrantRows
    <3>3. ASSUME NEW t \in TokenIds, NEW u \in TokenIds, tokens'[t].live, tokens'[t].client # NoOne,
                 tokens'[u].client = tokens'[t].client, tokens'[u].of = tokens'[t].of
          PROVE  u <= t
      <4>1. CASE t = n /\ u # n
        <5>1. tokens[u].of \in People
          BY <3>1, <3>2, <3>3, <4>1
        <5>2. ~(n <= u)
          <6>1. n <= u /\ tokens[n].of = NoOne => tokens[u] = NoToken
            BY DEF AccessInv, Rows, TokensInOrder
          <6> QED BY <1>3, <3>1, <5>1, <6>1
        <5> QED BY <1>1, <4>1, <5>2
      <4>2. CASE t # n /\ u = n
        BY <3>1, <3>3, <4>2
      <4>3. CASE t # n /\ u # n
        BY <1>2, <3>1, <3>3, <4>3
      <4>4. CASE t = n /\ u = n
        BY <1>1, <4>4
      <4> QED BY <4>1, <4>2, <4>3, <4>4
    <3> QED BY <3>3
  <2>2. ASSUME NEW q, NEW name, NEW k, CreateAPIToken(q, name, k) PROVE Newest1
    <3>1. PICK n \in TokenIds :
            /\ tokens'[n] = NewToken(q, name, NoOne, k)
            /\ \A v \in TokenIds \ {n} : tokens'[v] = tokens[v]
      BY <2>2, DrawRows
    <3>2. tokens'[n].client = NoOne
      BY <3>1 DEF NewToken
    <3> QED BY <1>2, <3>1, <3>2
  <2>3. CASE Retires
    <3>1. \A t \in TokenIds :
            /\ tokens'[t].of = tokens[t].of /\ tokens'[t].client = tokens[t].client
            /\ tokens'[t].live => tokens[t].live
      <4>1. \A t \in TokenIds : tokens[t] \in ApiToken
        BY DEF AccessInv, Types
      <4> QED BY <2>3, <4>1, RetireRows DEF ApiToken
    <3>2. Newest1
      BY <1>2, <3>1
    <3> QED BY <3>2
  <2>4. CASE TokensDrop
    BY <1>2, <2>4 DEF TokensDrop
  <2>5. CASE UNCHANGED tokens
    BY <1>2, <2>5
  <2>6. \/ UNCHANGED tokens \/ TokensDrop \/ Retires \/ (\E k \in CodeIds : Grants(k))
        \/ \E u, name, k : CreateAPIToken(u, name, k)
    BY Writers DEF Seeds, Mints
  <2> HIDE DEF Newest1
  <2> QED BY <2>1, <2>2, <2>3, <2>4, <2>5, <2>6
<1>5. Kept1
  <2>1. ASSUME NEW cl \in Clients, NEW p \in People, Approves(cl, p) PROVE Kept1
    <3>1. PICK k \in CodeIds :
            codes'[k].client = cl /\ \A i \in CodeIds \ {k} : codes'[i] = codes[i]
      BY <2>1, ApproveRows
    <3>2. \A d \in Clients : clients[d] = "approved" => clients'[d] = "approved"
      BY <2>1, ApproveRows
    <3>3. clients'[cl] = "approved"
      BY <2>1, ApproveRows
    <3> QED BY <1>2, <3>1, <3>2, <3>3
  <2>2. ASSUME ~\E cl \in Clients, p \in People : Approves(cl, p) PROVE Kept1
    <3>1. \A d \in Clients : clients[d] = "approved" => clients'[d] = "approved"
      BY <2>2, Writers DEF ClientsMove
    <3>2. \A k \in CodeIds : codes'[k].of = codes[k].of /\ codes'[k].client = codes[k].client
      <4>1. ASSUME NEW j \in CodeIds, Grants(j)
            PROVE  \A k \in CodeIds : codes'[k].of = codes[k].of /\ codes'[k].client = codes[k].client
        BY <4>1, GrantRows
      <4>2. UNCHANGED codes \/ CodesExpire \/ \E j \in CodeIds : Grants(j)
        BY <2>2, Writers
      <4> QED BY <4>1, <4>2 DEF CodesExpire
    <3> QED BY <1>2, <3>1, <3>2
  <2> QED BY <2>1, <2>2
<1> QED BY <1>1, <1>4, <1>5 DEF LastGrantStands

\* Invites and the accounts they bought.
LEMMA StepInvites ==
  ASSUME AccessInv, Shape
  PROVE  OneBootstrapInvite' /\ InviteBuysOneAccount'
<1>1. /\ DOMAIN invites = InviteIds /\ DOMAIN invites' = InviteIds
      /\ \A i \in InviteIds : invites[i] \in Invite
  BY StepRows DEF AccessInv, Types
<1> DEFINE Buyers == \A i, j \in InviteIds :
             InviteLive(i) /\ invites[i].by = NoOne /\ InviteLive(j) /\ invites[j].by = NoOne => i = j
           Buys == \A p \in People : accounts[p].exists <=>
             \E i \in InviteIds : invites[i].st = "spent" /\ invites[i].spentBy = p
           Spent == \A i, j \in InviteIds :
             invites[i].st = "spent" =>
               /\ invites[i].for \in {NoOne, invites[i].spentBy}
               /\ invites[j].st = "spent" /\ invites[i].spentBy = invites[j].spentBy => i = j
           Buyers1 == \A i, j \in InviteIds :
             invites'[i].st = "live" /\ ~invites'[i].expired /\ invites'[i].by = NoOne
             /\ invites'[j].st = "live" /\ ~invites'[j].expired /\ invites'[j].by = NoOne => i = j
           Buys1 == \A p \in People : accounts'[p].exists <=>
             \E i \in InviteIds : invites'[i].st = "spent" /\ invites'[i].spentBy = p
           Spent1 == \A i, j \in InviteIds :
             invites'[i].st = "spent" =>
               /\ invites'[i].for \in {NoOne, invites'[i].spentBy}
               /\ invites'[j].st = "spent" /\ invites'[i].spentBy = invites'[j].spentBy => i = j
<1>2. Buyers /\ Buys /\ Spent
  BY <1>1 DEF AccessInv, Rows, OneBootstrapInvite, Promises, InviteBuysOneAccount
<1>3. ASSUME NEW p \in People, Enters(p) PROVE Buyers1 /\ Buys1 /\ Spent1
  <2>1. PICK i \in InviteIds :
          /\ InviteLive(i) /\ invites[i].for \in {NoOne, p}
          /\ invites'[i].st = "spent" /\ invites'[i].spentBy = p /\ invites'[i].for = invites[i].for
          /\ \A j \in InviteIds \ {i} : invites'[j] = invites[j]
    BY <1>3, EnterRows
  <2>2. invites[i].st = "live" /\ ~accounts[p].exists
    BY <1>3, <2>1, EnterRows DEF InviteLive
  <2>3. accounts'[p].exists /\ \A q \in People \ {p} : accounts'[q] = accounts[q]
    BY <1>3, EnterRows DEF Users
  <2>4. Buyers1
    BY <1>2, <2>1 DEF InviteLive
  <2>5. Buys1
    BY <1>2, <2>1, <2>2, <2>3
  <2>6. \A j \in InviteIds : invites[j].st = "spent" => invites[j].spentBy # p
    BY <1>2, <2>2
  <2>7. Spent1
    BY <1>2, <2>1, <2>6
  <2> QED BY <2>4, <2>5, <2>7
<1>4. ASSUME ~\E p \in People : Enters(p) PROVE Buyers1 /\ Buys1 /\ Spent1
  <2>1. \A p \in People : accounts'[p].exists <=> accounts[p].exists
    <3>1. ASSUME NEW u \in Users, Marks(u) \/ Ends(u)
          PROVE  \A q \in People : accounts'[q].exists <=> accounts[q].exists
      BY <3>1 DEF Marks, Ends, Stays, Users
    <3> QED BY <1>4, <3>1, FoundRows, Writers
  <2>2. ASSUME NEW by \in People \union {NoOne}, Invites(by) PROVE Buyers1 /\ Buys1 /\ Spent1
    <3>1. PICK n \in InviteIds :
            /\ invites[n] = NoInvite /\ invites'[n].st = "live" /\ invites'[n].by = by
            /\ \A j \in InviteIds \ {n} : invites'[j] = invites[j]
      BY <2>2, InviteRows
    <3>2. invites[n].st = "unused"
      BY <3>1 DEF NoInvite
    <3>3. by = NoOne => ~\E i \in InviteIds : InviteLive(i) /\ invites[i].by = NoOne
      BY <2>2, InviteRows
    <3>4. Buyers1
      BY <1>2, <3>1, <3>3 DEF InviteLive
    <3>5. Buys1
      BY <1>2, <2>1, <3>1, <3>2
    <3>6. Spent1
      BY <1>2, <3>1, <3>2
    <3> QED BY <3>4, <3>5, <3>6
  <2>3. ASSUME InvitesDrop \/ UNCHANGED invites PROVE Buyers1 /\ Buys1 /\ Spent1
    <3>1. \A i \in InviteIds :
            /\ invites'[i].by = invites[i].by /\ invites'[i].for = invites[i].for
            /\ invites'[i].spentBy = invites[i].spentBy
            /\ invites'[i].st = "spent" <=> invites[i].st = "spent"
            /\ invites'[i].st = "live" /\ ~invites'[i].expired => InviteLive(i)
      BY <2>3 DEF InvitesDrop, InviteLive
    <3>2. Buyers1
      BY <1>2, <3>1
    <3>3. Buys1
      BY <1>2, <2>1, <3>1
    <3>4. Spent1
      BY <1>2, <3>1
    <3> QED BY <3>2, <3>3, <3>4
  <2> HIDE DEF Buyers1, Buys1, Spent1
  <2> QED BY <1>4, <2>2, <2>3, Writers
<1>5. Buyers1 /\ Buys1 /\ Spent1
  <2> HIDE DEF Buyers1, Buys1, Spent1
  <2> QED BY <1>3, <1>4
<1>6. OneBootstrapInvite'
  BY <1>5 DEF OneBootstrapInvite, InviteLive
<1>7. InviteBuysOneAccount'
  BY <1>1, <1>5 DEF InviteBuysOneAccount
<1> QED BY <1>6, <1>7

\* The administrator stays in.
LEMMA StepAdministrator ==
  ASSUME AccessInv, Shape
  PROVE  AdministratorStays'
<1>1. AdministratorStays /\ AccountsFit
  BY DEF AccessInv, Rows, Promises
<1>2. ASSUME NEW p \in People, Enters(p) PROVE AdministratorStays'
  <2>1. /\ ~accounts[p].exists /\ \A q \in People \ {p} : accounts'[q] = accounts[q]
        /\ accounts'[p].exists /\ accounts'[p].admin = ~AnyAccountHasEmail /\ ~accounts'[p].disabled
    BY <1>2, EnterRows DEF Users
  <2>2. CASE AnyAccountHasEmail
    <3>1. PICK a \in People : /\ accounts[a].exists /\ accounts[a].admin /\ ~accounts[a].disabled
                              /\ \A q \in People : accounts[q].admin => q = a
      BY <1>1, <2>2 DEF AdministratorStays
    <3>2. /\ accounts'[a].exists /\ accounts'[a].admin /\ ~accounts'[a].disabled
          /\ \A q \in People : accounts'[q].admin => q = a
      BY <2>1, <2>2, <3>1
    <3> QED BY <3>2 DEF AdministratorStays
  <2>3. CASE ~AnyAccountHasEmail
    <3>1. \A q \in People : ~accounts[q].admin
      BY <1>1, <2>3 DEF AccountsFit, AnyAccountHasEmail
    <3>2. /\ accounts'[p].exists /\ accounts'[p].admin /\ ~accounts'[p].disabled
          /\ \A q \in People : accounts'[q].admin => q = p
      BY <2>1, <2>3, <3>1
    <3> QED BY <3>2 DEF AdministratorStays
  <2> QED BY <2>2, <2>3
<1>3. ASSUME NEW u \in Users, Marks(u) \/ Ends(u) PROVE AdministratorStays'
  <2>1. /\ \A q \in People : accounts'[q].admin = accounts[q].admin
        /\ \A q \in People : accounts'[q].exists <=> accounts[q].exists
        /\ \A q \in People : accounts'[q].disabled /\ accounts[q].admin => accounts[q].disabled
    BY <1>3 DEF Marks, Ends, Stays, Users
  <2>2. SUFFICES ASSUME AnyAccountHasEmail PROVE AdministratorStays'
    BY <2>1 DEF AdministratorStays, AnyAccountHasEmail
  <2>3. PICK a \in People : /\ accounts[a].exists /\ accounts[a].admin /\ ~accounts[a].disabled
                            /\ \A q \in People : accounts[q].admin => q = a
    BY <1>1, <2>2 DEF AdministratorStays
  <2>4. /\ accounts'[a].exists /\ accounts'[a].admin /\ ~accounts'[a].disabled
        /\ \A q \in People : accounts'[q].admin => q = a
    BY <2>1, <2>3
  <2> QED BY <2>4 DEF AdministratorStays
<1>4. ASSUME \A p \in People : accounts'[p] = accounts[p] PROVE AdministratorStays'
  BY <1>1, <1>4 DEF AdministratorStays, AnyAccountHasEmail
<1> QED BY <1>2, <1>3, <1>4, FoundRows, Writers

\* A password or a suspension ends what came before it.
LEMMA StepEras ==
  ASSUME AccessInv, Shape
  PROVE  OldCredentialsEnd'
<1>1. /\ DOMAIN sessions = SessionIds /\ DOMAIN links = LinkIds
      /\ DOMAIN sessions' = SessionIds /\ DOMAIN links' = LinkIds /\ LinkIds \subseteq Nat
  BY StepRows DEF AccessInv, Types, LinkIds
<1> DEFINE SessionEras1 == \A s \in SessionIds :
             sessions'[s].live => sessions'[s].era = accounts'[sessions'[s].of].era
           LinkEras1 == \A l \in LinkIds :
             links'[l].live => links'[l].era = accounts'[links'[l].of].era
           Newest1 == \A l, m \in LinkIds :
             links'[l].live /\ links'[m].of = links'[l].of /\ links'[m].purpose = links'[l].purpose => m <= l
<1>2. /\ \A s \in SessionIds : sessions[s].live =>
           sessions[s].era = accounts[sessions[s].of].era /\ sessions[s].of \in People
      /\ \A l \in LinkIds : links[l].live =>
           links[l].era = accounts[links[l].of].era /\ links[l].of \in People
      /\ \A l, m \in LinkIds :
           links[l].live /\ links[m].of = links[l].of /\ links[m].purpose = links[l].purpose => m <= l
  BY <1>1 DEF AccessInv, Rows, SessionsFit, LinksFit, Promises, OldCredentialsEnd
<1>3. NoOne \notin People /\ NoLink.of = NoOne
  BY PeopleAssumption DEF PeopleAssumption, NoLink
<1>4. \A p \in People : ~accounts[p].exists =>
        /\ \A s \in SessionIds : sessions[s].of # p
        /\ \A l \in LinkIds : links[l].of # p
  BY <1>1, <1>3 DEF AccessInv, Rows, AccountsFit, LinksFit, Promises, ConfirmedOnly
<1>5. ASSUME NEW p \in People, Enters(p) PROVE SessionEras1 /\ LinkEras1
  <2>1. /\ ~accounts[p].exists /\ \A q \in People \ {p} : accounts'[q] = accounts[q]
        /\ UNCHANGED <<sessions, links>>
    BY <1>5, EnterRows DEF Enters, Users
  <2> QED BY <1>2, <1>4, <2>1
<1>6. ASSUME NEW p \in Users, Marks(p) PROVE SessionEras1 /\ LinkEras1
  <2>1. (\A q \in People : accounts'[q].era = accounts[q].era) /\ UNCHANGED <<sessions, links>>
    BY <1>6 DEF Marks, Stays, Users
  <2> QED BY <1>2, <2>1
<1>7. ASSUME NEW p \in Users, Ends(p) PROVE SessionEras1 /\ LinkEras1
  <2>1. \A q \in People \ {p} : accounts'[q] = accounts[q]
    BY <1>7 DEF Ends, Stays, Users
  <2>2. /\ \A s \in SessionIds :
             /\ sessions'[s].of = sessions[s].of /\ sessions'[s].era = sessions[s].era
             /\ sessions'[s].live => sessions[s].live /\ sessions[s].of # p
        /\ \A l \in LinkIds :
             /\ links'[l].of = links[l].of /\ links'[l].era = links[l].era
             /\ links'[l].live => links[l].live /\ links[l].of # p
    BY <1>7, EndRows
  <2>3. SessionEras1
    BY <1>2, <2>1, <2>2
  <2>4. LinkEras1
    BY <1>2, <2>1, <2>2
  <2> QED BY <2>3, <2>4
<1>8. ASSUME \A q \in People : accounts'[q] = accounts[q], ~\E u \in Users : Ends(u) PROVE SessionEras1 /\ LinkEras1
  <2>1. SessionEras1
    <3>1. ASSUME NEW p \in People, Opens(p) PROVE SessionEras1
      BY <1>2, <1>8, <3>1, OpenRows
    <3>2. ASSUME SessionsDrop \/ UNCHANGED sessions PROVE SessionEras1
      BY <1>2, <1>8, <3>2 DEF SessionsDrop
    <3> HIDE DEF SessionEras1
    <3> QED BY <1>8, <3>1, <3>2, Writers
  <2>2. LinkEras1
    <3>1. ASSUME NEW p \in People, Mails(p) PROVE LinkEras1
      BY <1>2, <1>8, <3>1, MailRows
    <3>2. ASSUME LinksDrop \/ UNCHANGED links PROVE LinkEras1
      BY <1>2, <1>8, <3>2 DEF LinksDrop
    <3> HIDE DEF LinkEras1
    <3> QED BY <1>8, <3>1, <3>2, Writers
  <2> QED BY <2>1, <2>2
<1>9. Newest1
  <2>1. ASSUME NEW p \in People, Mails(p) PROVE Newest1
    <3>1. PICK n \in LinkIds, purpose \in Purposes :
           /\ links[n] = NoLink /\ \A m \in LinkIds : links[m] = NoLink => n <= m
           /\ links'[n].of = p /\ links'[n].purpose = purpose
           /\ \A m \in LinkIds \ {n} :
                /\ links'[m].of = links[m].of /\ links'[m].purpose = links[m].purpose
                /\ links'[m].live => links[m].live /\ ~(links[m].of = p /\ links[m].purpose = purpose)
      BY <2>1, MailRows
    <3>2. ASSUME NEW l \in LinkIds, NEW m \in LinkIds, links'[l].live,
                 links'[m].of = links'[l].of, links'[m].purpose = links'[l].purpose
          PROVE  m <= l
      <4>1. CASE l = n /\ m # n
        <5>1. links[m].of = p
          BY <3>1, <3>2, <4>1
        <5>2. n <= m /\ links[n].of = NoOne => links[m] = NoLink
          BY DEF AccessInv, Rows, LinksInOrder
        <5>3. ~(n <= m)
          BY <1>3, <3>1, <5>1, <5>2
        <5> QED BY <1>1, <4>1, <5>3
      <4>2. CASE l # n /\ m = n
        BY <3>1, <3>2, <4>2
      <4>3. CASE l # n /\ m # n
        BY <1>2, <3>1, <3>2, <4>3
      <4>4. CASE l = n /\ m = n
        BY <1>1, <4>4
      <4> QED BY <4>1, <4>2, <4>3, <4>4
    <3> QED BY <3>2
  <2>2. ASSUME NEW p \in Users, Ends(p) PROVE Newest1
    BY <1>2, <2>2, EndRows
  <2>3. ASSUME LinksDrop \/ UNCHANGED links PROVE Newest1
    BY <1>2, <2>3 DEF LinksDrop
  <2> HIDE DEF Newest1
  <2> QED BY <2>1, <2>2, <2>3, Writers
<1>10. SessionEras1 /\ LinkEras1
  <2> HIDE DEF SessionEras1, LinkEras1
  <2> QED BY <1>5, <1>6, <1>7, <1>8, FoundRows, Writers
<1> QED BY <1>1, <1>9, <1>10 DEF OldCredentialsEnd

\* Nobody unconfirmed is let in.
LEMMA StepConfirmed ==
  ASSUME AccessInv, Shape
  PROVE  ConfirmedOnly'
<1>1. /\ DOMAIN sessions = SessionIds /\ DOMAIN tokens = TokenIds
      /\ DOMAIN sessions' = SessionIds /\ DOMAIN tokens' = TokenIds
      /\ sessions' \in [SessionIds -> Session]
  BY StepRows DEF AccessInv, Types
<1> DEFINE Sessions1 == \A s \in SessionIds :
             sessions'[s].of # NoOne => accounts[sessions'[s].of].verified
           Tokens1 == \A t \in TokenIds :
             tokens'[t].of \in People => accounts[tokens'[t].of].verified
<1>2. /\ \A s \in SessionIds : sessions[s].of # NoOne => accounts[sessions[s].of].verified
      /\ \A t \in TokenIds : tokens[t].of \in People => accounts[tokens[t].of].verified
  BY <1>1 DEF AccessInv, Promises, ConfirmedOnly
<1>3. Machine \notin People /\ NoOne \notin People
  BY PeopleAssumption DEF PeopleAssumption
<1>4. Sessions1
  <2>1. ASSUME NEW p \in People, Opens(p) PROVE Sessions1
    <3>1. accounts[p].verified
      BY <2>1 DEF Opens
    <3> QED BY <1>2, <2>1, <3>1, OpenRows
  <2>2. ASSUME NEW p \in Users, Ends(p) PROVE Sessions1
    BY <1>2, <2>2, EndRows
  <2>3. ASSUME SessionsDrop \/ UNCHANGED sessions PROVE Sessions1
    BY <1>2, <2>3 DEF SessionsDrop
  <2> HIDE DEF Sessions1
  <2> QED BY <2>1, <2>2, <2>3, Writers
<1>5. Tokens1
  <2>1. ASSUME NEW u \in Users, NEW name, NEW k, CreateAPIToken(u, name, k),
               u \in People => accounts[u].verified
        PROVE  Tokens1
    <3>1. PICK n \in TokenIds :
            /\ tokens'[n] = NewToken(u, name, NoOne, k)
            /\ \A v \in TokenIds \ {n} : tokens'[v] = tokens[v]
      BY <2>1, DrawRows
    <3>2. tokens'[n].of = u
      BY <3>1 DEF NewToken
    <3> QED BY <1>2, <2>1, <3>1, <3>2
  <2>2. ASSUME NEW p \in People, Mints(p) PROVE Tokens1
    BY <2>1, <2>2 DEF Mints, Users
  <2>3. CASE Seeds
    <3>1. Tokens1
      BY <1>3, <2>1, <2>3 DEF Seeds, Users
    <3> QED BY <3>1
  <2>4. ASSUME NEW k \in CodeIds, Grants(k) PROVE Tokens1
    <3>1. codes[k].of \in People
      BY <2>4, GrantRows
    <3>2. accounts[codes[k].of].verified
      BY <1>3, <3>1 DEF AccessInv, Rows, CodesFit
    <3> QED BY <1>2, <2>4, <3>2, GrantRows
  <2>5. CASE Retires
    <3>1. \A t \in TokenIds : tokens'[t].of = tokens[t].of
      <4>1. \A t \in TokenIds : tokens[t] \in ApiToken
        BY DEF AccessInv, Types
      <4> QED BY <2>5, <4>1, RetireRows DEF ApiToken
    <3>2. Tokens1
      BY <1>2, <3>1
    <3> QED BY <3>2
  <2>6. CASE TokensDrop \/ UNCHANGED tokens
    BY <1>2, <2>6 DEF TokensDrop
  <2> HIDE DEF Tokens1
  <2> QED BY <2>2, <2>3, <2>4, <2>5, <2>6, Writers
<1>6. \A s \in SessionIds : sessions'[s].of # NoOne => accounts'[sessions'[s].of].verified
  BY <1>1, <1>4, FactsLast DEF Session
<1>7. \A t \in TokenIds : tokens'[t].of \in People => accounts'[tokens'[t].of].verified
  BY <1>5, FactsLast
<1> QED BY <1>1, <1>6, <1>7 DEF ConfirmedOnly

-----------------------------------------------------------------------------
(* The invariant. *)

\* Every step keeps it.
LEMMA StepInv ==
  ASSUME AccessInv, [Next]_vars
  PROVE  AccessInv'
<1>1. Shape
  BY StepShape
<1>2. Types' /\ CallsFit' /\ BootFits'
  BY StepTypes, StepCalls, StepBoot
<1>3. Rows'
  BY <1>1, <1>2, StepAccounts, StepOrder, StepSeeded, StepCodes, StepInvites DEF Rows
<1>4. Promises'
  BY <1>1, StepInvites, StepAdministrator, StepEras, StepConfirmed, StepBuys, StepGrants
     DEF Promises, GrantsAreBoughtOnce
<1> QED BY <1>2, <1>3, <1>4 DEF AccessInv

\* Both platforms start with no call under way.
LEMMA StartCalls ==
  ASSUME Types, call = [c \in Calls |-> Idle]
  PROVE  CallsFit
BY DEF CallsFit, Knows, Idle, Step

\* Tables of empty rows.
LEMMA EmptyTables ==
  /\ \A i \in InviteIds : Empty(MaxInvites, NoInvite)[i] = NoInvite
  /\ \A i \in SessionIds : Empty(MaxSessions, NoSession)[i] = NoSession
  /\ \A i \in LinkIds : Empty(MaxLinks, NoLink)[i] = NoLink
  /\ \A i \in TokenIds : Empty(MaxTokens, NoToken)[i] = NoToken
  /\ \A i \in CodeIds : Empty(MaxCodes, NoCode)[i] = NoCode
  /\ Empty(MaxInvites, NoInvite) \in [InviteIds -> Invite]
  /\ Empty(MaxSessions, NoSession) \in [SessionIds -> Session]
  /\ Empty(MaxLinks, NoLink) \in [LinkIds -> Link]
  /\ Empty(MaxTokens, NoToken) \in [TokenIds -> ApiToken]
  /\ Empty(MaxCodes, NoCode) \in [CodeIds -> Code]
BY NewRows DEF Empty, InviteIds, SessionIds, LinkIds, TokenIds, CodeIds

\* The empty rows say nothing.
LEMMA EmptyFacts ==
  /\ NoInvite.st = "unused" /\ NoInvite.by = NoOne
  /\ NoSession.of = NoOne /\ NoSession.live = FALSE
  /\ NoLink.of = NoOne /\ NoLink.live = FALSE
  /\ NoToken.of = NoOne /\ NoToken.live = FALSE /\ NoToken.client = NoOne /\ NoToken.key = "random"
  /\ NoToken.taken = FALSE
  /\ NoCode.of = NoOne /\ NoCode.token = 0 /\ NoCode.consumed = FALSE
  /\ NoAccount.exists = FALSE /\ NoAccount.verified = FALSE /\ NoAccount.admin = FALSE
  /\ NoOne \notin People /\ Machine \notin People /\ NoOne # Machine
BY PeopleAssumption DEF PeopleAssumption, NoInvite, NoSession, NoLink, NoToken, NoCode, NoAccount

\* A migrated database keeps every promise: it holds nothing.
LEMMA FreshInv ==
  ASSUME Init, FreshPlatform
  PROVE  AccessInv
<1>1. /\ \A p \in Users : accounts[p] = NoAccount
      /\ \A i \in InviteIds : invites[i] = NoInvite
      /\ \A i \in SessionIds : sessions[i] = NoSession
      /\ \A i \in LinkIds : links[i] = NoLink
      /\ \A i \in TokenIds : tokens[i] = NoToken
      /\ \A i \in CodeIds : codes[i] = NoCode
      /\ boot = "token"
  BY EmptyTables DEF Init, FreshPlatform
<1>2. Types
  <2>1. accounts \in [Users -> Account]
    <3>1. NoAccount \in Account
      BY DEF NoAccount, Account
    <3> QED BY <3>1 DEF FreshPlatform
  <2>2. clients \in [Clients -> ClientStates]
    BY DEF FreshPlatform, ClientStates
  <2>3. /\ invites \in [InviteIds -> Invite] /\ sessions \in [SessionIds -> Session]
        /\ links \in [LinkIds -> Link] /\ tokens \in [TokenIds -> ApiToken]
        /\ codes \in [CodeIds -> Code]
    BY EmptyTables DEF Init, FreshPlatform
  <2>4. /\ boot \in {"token", "seed", "invite", "up", "refused"} /\ key \in Keys \union {"unset"}
        /\ begun \in 0 .. MaxCalls /\ expiries \in 0 .. MaxExpiries /\ boots \in 1 .. MaxBoots
    BY Bounds DEF Init, FreshPlatform
  <2> QED BY <2>1, <2>2, <2>3, <2>4 DEF Types
<1>3. /\ DOMAIN invites = InviteIds /\ DOMAIN sessions = SessionIds /\ DOMAIN links = LinkIds
      /\ DOMAIN tokens = TokenIds /\ DOMAIN codes = CodeIds
  BY <1>2, Domains
<1>4. CallsFit
  BY <1>2, StartCalls DEF Init
<1>5. Rows
  <2>1. AccountsFit /\ SessionsFit /\ LinksFit
    BY <1>1, EmptyFacts DEF AccountsFit, SessionsFit, LinksFit, Users
  <2>2. LinksInOrder /\ TokensInOrder
    BY <1>1 DEF LinksInOrder, TokensInOrder
  <2>3. TokensFit /\ OneSeeded /\ BootFits
    BY <1>1, EmptyFacts DEF TokensFit, OneSeeded, BootFits
  <2>4. CodesFit
    BY <1>1, EmptyFacts DEF CodesFit
  <2>5. OneBootstrapInvite
    BY <1>1, EmptyFacts DEF OneBootstrapInvite, InviteLive
  <2> QED BY <2>1, <2>2, <2>3, <2>4, <2>5 DEF Rows
<1>6. Promises
  <2>1. InviteBuysOneAccount
    BY <1>1, <1>3, EmptyFacts DEF InviteBuysOneAccount, Users
  <2>2. AdministratorStays
    BY <1>1, EmptyFacts DEF AdministratorStays, AnyAccountHasEmail, Users
  <2>3. OldCredentialsEnd
    BY <1>1, <1>3, EmptyFacts DEF OldCredentialsEnd
  <2>4. ConfirmedOnly
    BY <1>1, <1>3, EmptyFacts DEF ConfirmedOnly
  <2>5. CodeBuysOneToken
    BY <1>1, <1>3, EmptyFacts DEF CodeBuysOneToken
  <2>6. LastGrantStands
    BY <1>1, <1>3, EmptyFacts DEF LastGrantStands
  <2> QED BY <2>1, <2>2, <2>3, <2>4, <2>5, <2>6 DEF Promises, GrantsAreBoughtOnce
<1> QED BY <1>2, <1>4, <1>5, <1>6 DEF AccessInv

\* So does one whose first account has moved in.
LEMMA SettledInv ==
  ASSUME Init, SettledPlatform
  PROVE  AccessInv
<1>1. PICK p \in People, pw \in Passwords :
  /\ accounts = [u \in Users |->
       IF u = p THEN [NoAccount EXCEPT !.exists = TRUE, !.password = pw, !.verified = TRUE,
                                       !.admin = TRUE, !.connected = TRUE]
       ELSE IF u = Machine THEN [NoAccount EXCEPT !.exists = TRUE] ELSE NoAccount]
  /\ invites = [Empty(MaxInvites, NoInvite) EXCEPT
       ![1] = [NoInvite EXCEPT !.st = "spent", !.spentBy = p], ![2] = NewInvite(p, NoOne)]
  /\ sessions = [Empty(MaxSessions, NoSession) EXCEPT
       ![1] = [of |-> p, live |-> TRUE, expired |-> FALSE, era |-> 0]]
  /\ links = [Empty(MaxLinks, NoLink) EXCEPT ![1] = [NoLink EXCEPT !.of = p]]
  /\ tokens = [Empty(MaxTokens, NoToken) EXCEPT ![1] = NewToken(Machine, 0, NoOne, key)]
  /\ clients = [cl \in Clients |-> "registered"]
  /\ boot = "up" /\ boots = MaxBoots
  BY DEF SettledPlatform
<1>2. 1 \in InviteIds /\ 1 \in SessionIds /\ 1 \in LinkIds /\ 1 \in TokenIds
  BY Bounds DEF InviteIds, SessionIds, LinkIds, TokenIds
<1>3. PICK me : me = [NoAccount EXCEPT !.exists = TRUE, !.password = pw, !.verified = TRUE,
                                       !.admin = TRUE, !.connected = TRUE]
  OBVIOUS
<1>4. /\ me \in Account /\ me.exists /\ me.verified /\ me.admin /\ ~me.disabled /\ me.era = 0
  BY <1>3 DEF NoAccount, Account
<1>5. PICK machine : machine = [NoAccount EXCEPT !.exists = TRUE]
  OBVIOUS
<1>51. machine \in Account /\ ~machine.admin
  BY <1>5 DEF NoAccount, Account
<1>52. accounts = [u \in Users |-> IF u = p THEN me ELSE IF u = Machine THEN machine ELSE NoAccount]
  BY <1>1, <1>3, <1>5
<1>53. /\ accounts[p] = me /\ accounts[Machine] = machine
       /\ \A q \in People \ {p} : accounts[q] = NoAccount
  BY <1>52, EmptyFacts DEF Users
<1>6. /\ invites \in [InviteIds -> Invite]
      /\ invites[1].st = "spent" /\ invites[1].spentBy = p /\ invites[1].for = NoOne
      /\ \A i \in InviteIds \ {1} : invites[i].st # "spent" /\ invites[i].by = NoOne => ~InviteLive(i)
      /\ \A i \in InviteIds \ {1} : invites[i].st # "spent"
  <2>1. PICK first, second : first = [[NoInvite EXCEPT !.st = "spent"] EXCEPT !.spentBy = p] /\ second = NewInvite(p, NoOne)
    OBVIOUS
  <2>2. first \in Invite /\ first.st = "spent" /\ first.spentBy = p /\ first.for = NoOne
    BY <2>1 DEF NoInvite, Invite
  <2>3. second \in Invite /\ second.st = "live" /\ second.by = p
    BY <2>1 DEF NewInvite, NoInvite, Invite, Users
  <2>4. [NoInvite EXCEPT !.st = "spent", !.spentBy = p] = first
    BY <2>1 DEF NoInvite
  <2>5. invites = [[Empty(MaxInvites, NoInvite) EXCEPT ![1] = first] EXCEPT ![2] = second]
    BY <1>1, <2>1, <2>4
  <2>6. invites \in [InviteIds -> Invite]
    BY <2>2, <2>3, <2>5, EmptyTables
  <2>7. /\ invites[1] = first
        /\ \A i \in InviteIds \ {1} : invites[i] = second \/ invites[i] = NoInvite
    BY <1>2, <2>5, EmptyTables
  <2> QED BY <2>2, <2>3, <2>6, <2>7, EmptyFacts DEF InviteLive
<1>7. /\ sessions \in [SessionIds -> Session]
      /\ sessions[1].of = p /\ sessions[1].era = 0
      /\ \A i \in SessionIds \ {1} : sessions[i] = NoSession
  <2>1. [of |-> p, live |-> TRUE, expired |-> FALSE, era |-> 0] \in Session
    BY DEF Session
  <2>2. sessions \in [SessionIds -> Session]
    BY <1>1, <2>1, EmptyTables
  <2>3. /\ sessions[1] = [of |-> p, live |-> TRUE, expired |-> FALSE, era |-> 0]
        /\ \A i \in SessionIds \ {1} : sessions[i] = NoSession
    BY <1>1, <1>2, EmptyTables
  <2> QED BY <2>2, <2>3
<1>8. /\ links \in [LinkIds -> Link]
      /\ links[1].of = p /\ ~links[1].live
      /\ \A i \in LinkIds \ {1} : links[i] = NoLink
  <2>1. PICK row : row = [NoLink EXCEPT !.of = p]
    OBVIOUS
  <2>2. row \in Link /\ row.of = p /\ ~row.live
    BY <2>1 DEF NoLink, Link, Purposes
  <2>3. links = [Empty(MaxLinks, NoLink) EXCEPT ![1] = row]
    BY <1>1, <2>1
  <2> QED BY <1>2, <2>2, <2>3, EmptyTables
<1>9. /\ tokens \in [TokenIds -> ApiToken] /\ key \in Keys
      /\ tokens[1].of = Machine /\ tokens[1].name = 0 /\ tokens[1].client = NoOne
      /\ tokens[1].key = key /\ tokens[1].live /\ ~tokens[1].expired
      /\ ~tokens[1].taken
      /\ \A i \in TokenIds \ {1} : tokens[i] = NoToken
  <2>1. PICK row : row = NewToken(Machine, 0, NoOne, key)
    OBVIOUS
  <2>2. key \in Keys /\ 0 \in Names /\ Machine \in Users
    BY Bounds DEF Init, Names, Users
  <2>3. /\ row \in ApiToken /\ row.of = Machine /\ row.name = 0 /\ row.client = NoOne
        /\ row.key = key /\ row.live /\ ~row.expired /\ ~row.taken
    BY <2>1, <2>2 DEF NewToken, ApiToken
  <2>4. tokens = [Empty(MaxTokens, NoToken) EXCEPT ![1] = row]
    BY <1>1, <2>1
  <2> QED BY <1>2, <2>2, <2>3, <2>4, EmptyTables
<1>10. codes \in [CodeIds -> Code] /\ \A k \in CodeIds : codes[k] = NoCode
  BY EmptyTables DEF Init
<1>11. Types
  <2>1. accounts \in [Users -> Account]
    <3>1. NoAccount \in Account
      BY DEF NoAccount, Account
    <3> QED BY <1>4, <1>51, <1>52, <3>1
  <2>2. clients \in [Clients -> ClientStates]
    BY <1>1 DEF ClientStates
  <2>3. /\ boot \in {"token", "seed", "invite", "up", "refused"} /\ key \in Keys \union {"unset"}
        /\ begun \in 0 .. MaxCalls /\ expiries \in 0 .. MaxExpiries /\ boots \in 1 .. MaxBoots
    BY <1>1, Bounds DEF Init
  <2> QED BY <1>6, <1>7, <1>8, <1>9, <1>10, <2>1, <2>2, <2>3 DEF Types
<1>12. /\ DOMAIN invites = InviteIds /\ DOMAIN sessions = SessionIds /\ DOMAIN links = LinkIds
       /\ DOMAIN tokens = TokenIds /\ DOMAIN codes = CodeIds
  BY <1>11, Domains
<1>13. CallsFit
  BY <1>11, StartCalls DEF Init
<1>14. Rows
  <2>1. AccountsFit
    BY <1>4, <1>51, <1>53, EmptyFacts DEF AccountsFit
  <2>2. SessionsFit
    BY <1>7, EmptyFacts DEF SessionsFit
  <2>3. LinksFit
    BY <1>4, <1>53, <1>8, EmptyFacts DEF LinksFit
  <2>4. LinksInOrder
    BY <1>8, EmptyFacts DEF LinksInOrder, LinkIds
  <2>5. TokensInOrder
    BY <1>9, EmptyFacts DEF TokensInOrder, TokenIds
  <2>6. TokensFit
    BY <1>9, EmptyFacts DEF TokensFit
  <2>7. OneSeeded
    BY <1>9, EmptyFacts DEF OneSeeded
  <2>8. BootFits
    BY <1>1, <1>2, <1>9, EmptyFacts DEF BootFits, Seats
  <2>9. CodesFit
    BY <1>10, EmptyFacts DEF CodesFit
  <2>10. OneBootstrapInvite
    BY <1>6 DEF OneBootstrapInvite, InviteLive
  <2> QED BY <2>1, <2>2, <2>3, <2>4, <2>5, <2>6, <2>7, <2>8, <2>9, <2>10 DEF Rows
<1>15. Promises
  <2>1. InviteBuysOneAccount
    <3>1. \A q \in People : accounts[q].exists <=> q = p
      BY <1>4, <1>53, EmptyFacts
    <3>2. \A i \in InviteIds : invites[i].st = "spent" <=> i = 1
      BY <1>6
    <3> QED BY <1>2, <1>6, <1>12, <3>1, <3>2 DEF InviteBuysOneAccount
  <2>2. AdministratorStays
    <3>1. \A q \in People : accounts[q].admin => q = p
      BY <1>53, EmptyFacts
    <3> QED BY <1>4, <1>53, <3>1 DEF AdministratorStays
  <2>3. OldCredentialsEnd
    <3>1. \A s \in SessionIds : sessions[s].live => sessions[s].era = accounts[sessions[s].of].era
      BY <1>4, <1>53, <1>7, EmptyFacts
    <3>2. \A l \in LinkIds : ~links[l].live
      BY <1>8, EmptyFacts
    <3> QED BY <1>12, <3>1, <3>2 DEF OldCredentialsEnd
  <2>4. ConfirmedOnly
    BY <1>4, <1>53, <1>7, <1>9, <1>12, EmptyFacts DEF ConfirmedOnly
  <2>5. \A t \in TokenIds : tokens[t].client = NoOne
    BY <1>9, EmptyFacts
  <2>6. CodeBuysOneToken
    BY <1>10, <1>12, <2>5, EmptyFacts DEF CodeBuysOneToken
  <2>7. LastGrantStands
    BY <1>10, <1>12, <2>5, EmptyFacts DEF LastGrantStands
  <2> QED BY <2>1, <2>2, <2>3, <2>4, <2>6, <2>7 DEF Promises, GrantsAreBoughtOnce
<1> QED BY <1>11, <1>13, <1>14, <1>15 DEF AccessInv

\* Every reachable platform satisfies the invariant.
LEMMA Invariance == Spec => []AccessInv
<1>1. Init => AccessInv
  BY FreshInv, SettledInv DEF Init
<1>2. AccessInv /\ [Next]_vars => AccessInv'
  BY StepInv
<1> QED BY <1>1, <1>2, PTL DEF Spec

-----------------------------------------------------------------------------
(* What it promises. *)

\* Every row and every call is one the program can write, whatever request, death
\* or deadline comes between a call's read and its write.
THEOREM TypesHold == Spec => []AccessTypeOK
<1>1. AccessInv => AccessTypeOK
  BY DEF AccessInv, Types, CallsFit, AccessTypeOK, InviteIds, SessionIds, LinkIds, TokenIds, CodeIds,
    ClientStates
<1> QED BY <1>1, Invariance, PTL

\* Every account was bought with one invite of its own
\* (SpendInviteAndCreateAccount is one transaction).
THEOREM AccountsAreBought == Spec => []InviteBuysOneAccount
<1>1. AccessInv => InviteBuysOneAccount
  BY DEF AccessInv, Promises
<1> QED BY <1>1, Invariance, PTL

\* A platform never has two working bootstrap invites: the starting process asks
\* AnyLiveBootstrapInvite before it issues one.
THEOREM OneInviteForNobody == Spec => []OneWayIn
<1>1. ASSUME AccessInv PROVE OneWayIn
  <2> DEFINE Ways == {i \in DOMAIN invites : InviteLive(i) /\ invites[i].by = NoOne}
  <2>1. DOMAIN invites = InviteIds
    BY <1>1, Domains DEF AccessInv
  <2>2. \A i, j \in Ways : i = j
    BY <1>1, <2>1 DEF AccessInv, Rows, OneBootstrapInvite
  <2>3. CASE Ways = {}
    BY <2>3, FS_EmptySet DEF OneWayIn
  <2>4. CASE Ways # {}
    <3>1. PICK i : Ways = {i}
      BY <2>2, <2>4
    <3>2. Cardinality(Ways) = 1
      BY <3>1, FS_Singleton
    <3> QED BY <3>2 DEF OneWayIn
  <2> QED BY <2>3, <2>4
<1> QED BY <1>1, Invariance, PTL

\* The first account is the one administrator and is never suspended
\* (CreateIdentityAccount makes it, ChangeStanding refuses to disable oneself).
THEOREM AdministratorIsNeverOut == Spec => []AdministratorStays
<1>1. AccessInv => AdministratorStays
  BY DEF AccessInv, Promises
<1> QED BY <1>1, Invariance, PTL

\* A password change or a suspension ends every session and link made before it.
THEOREM OldCredentialsAreEnded == Spec => []OldCredentialsEnd
<1>1. AccessInv => OldCredentialsEnd
  BY DEF AccessInv, Promises
<1> QED BY <1>1, Invariance, PTL

\* Sessions and tokens are of confirmed addresses only, though they are written
\* after the request that checked it.
THEOREM OnlyConfirmedAccounts == Spec => []ConfirmedOnly
<1>1. AccessInv => ConfirmedOnly
  BY DEF AccessInv, Promises
<1> QED BY <1>1, Invariance, PTL

\* A code buys one token, and of a connector's tokens on an account only the newest works.
THEOREM GrantsHold == Spec => []GrantsAreBoughtOnce
<1>1. AccessInv => GrantsAreBoughtOnce
  BY DEF AccessInv, Promises
<1> QED BY <1>1, Invariance, PTL

\* A platform that serves has a token for the key it was configured with, accepts it
\* unless an administrator revoked it or suspended the machine's account, and
\* resolves no other it ever seeded, however often it was restarted with another one
\* (Bootstrap, run before the first request is served).
THEOREM ConfiguredTokenWorks == Spec => []ServesWithItsToken
<1>1. ASSUME AccessInv PROVE ServesWithItsToken
  <2>1. SUFFICES ASSUME boot = "up", key # "unset"
                 PROVE  \E t \in DOMAIN tokens :
                          /\ tokens[t].key = key /\ Seeded \subseteq {t}
                          /\ Authenticate(t) = IF tokens[t].taken THEN "invalid"
                               ELSE IF accounts[Machine].disabled THEN "suspended" ELSE "ok"
    BY DEF ServesWithItsToken
  <2>2. DOMAIN tokens = TokenIds /\ \A t \in TokenIds : tokens[t] \in ApiToken
    BY <1>1 DEF AccessInv, Types
  <2>3. PICK t \in TokenIds : Seats(t)
    BY <1>1, <2>1 DEF AccessInv, Rows, BootFits
  <2>4. Seeded \subseteq {t}
    BY <2>2, <2>3 DEF Seeded, ResolveToken, Seats
  <2>5. /\ tokens[t].of = Machine /\ ~tokens[t].expired
        /\ tokens[t].taken => ~tokens[t].live
        /\ ~tokens[t].taken => tokens[t].live
    BY <1>1, <2>3 DEF AccessInv, Rows, TokensFit, Seats
  <2>6. Authenticate(t) = IF tokens[t].taken THEN "invalid"
                          ELSE IF accounts[Machine].disabled THEN "suspended" ELSE "ok"
    BY <2>5 DEF Authenticate, ResolveToken
  <2> QED BY <2>2, <2>3, <2>4, <2>6 DEF Seats
<1> QED BY <1>1, Invariance, PTL

\* No step revives what has ended: a revoked session or token, a consumed link or
\* code, a spent or revoked invite.
THEOREM NothingIsRevived == Spec => EndedStaysEnded
<1> DEFINE Kept ==
  /\ \A s \in DOMAIN sessions :
       sessions[s].of # NoOne /\ ~sessions[s].live => ~sessions'[s].live
  /\ \A l \in DOMAIN links : links[l].of # NoOne /\ ~links[l].live => ~links'[l].live
  /\ \A t \in DOMAIN tokens : tokens[t].of # NoOne /\ ~tokens[t].live => ~tokens'[t].live
  /\ \A i \in DOMAIN invites :
       invites[i].st \in {"spent", "revoked"} => invites'[i] = [invites[i] EXCEPT !.expired = invites'[i].expired]
  /\ \A k \in DOMAIN codes : codes[k].consumed => codes'[k].token = codes[k].token
<1>1. ASSUME AccessInv, [Next]_vars PROVE Kept
  <2>1. Shape
    BY <1>1, StepShape
  <2>2. /\ DOMAIN invites = InviteIds /\ DOMAIN sessions = SessionIds /\ DOMAIN links = LinkIds
        /\ DOMAIN tokens = TokenIds /\ DOMAIN codes = CodeIds
    BY <1>1, Domains DEF AccessInv
  <2>3. \A s \in SessionIds : sessions[s].of # NoOne /\ ~sessions[s].live => ~sessions'[s].live
    <3> DEFINE Here == \A s \in SessionIds : sessions[s].of # NoOne /\ ~sessions[s].live => ~sessions'[s].live
    <3>1. ASSUME NEW p \in Users, Ends(p) PROVE Here
      BY <1>1, <3>1, EndRows
    <3>2. ASSUME NEW p \in People, Opens(p) PROVE Here
      BY <1>1, <3>2, OpenRows, EmptyFacts
    <3>3. ASSUME SessionsDrop \/ UNCHANGED sessions PROVE Here
      BY <3>3 DEF SessionsDrop
    <3>4. Here
      <4> HIDE DEF Here
      <4> QED BY <2>1, <3>1, <3>2, <3>3, Writers
    <3> QED BY <3>4
  <2>4. \A l \in LinkIds : links[l].of # NoOne /\ ~links[l].live => ~links'[l].live
    <3> DEFINE Here == \A l \in LinkIds : links[l].of # NoOne /\ ~links[l].live => ~links'[l].live
    <3>1. ASSUME NEW p \in Users, Ends(p) PROVE Here
      BY <1>1, <3>1, EndRows
    <3>2. ASSUME NEW p \in People, Mails(p) PROVE Here
      BY <1>1, <3>2, MailRows, EmptyFacts
    <3>3. ASSUME LinksDrop \/ UNCHANGED links PROVE Here
      BY <3>3 DEF LinksDrop
    <3>4. Here
      <4> HIDE DEF Here
      <4> QED BY <2>1, <3>1, <3>2, <3>3, Writers
    <3> QED BY <3>4
  <2>5. \A t \in TokenIds : tokens[t].of # NoOne /\ ~tokens[t].live => ~tokens'[t].live
    BY <1>1, <2>1, FactsLast
  <2>6. ASSUME NEW i \in InviteIds, invites[i].st \in {"spent", "revoked"}
        PROVE  invites'[i] = [invites[i] EXCEPT !.expired = invites'[i].expired]
    <3>1. invites[i] \in Invite /\ invites'[i] \in Invite
      BY <1>1, <2>1, StepRows DEF AccessInv, Types
    <3>2. /\ invites'[i].by = invites[i].by /\ invites'[i].for = invites[i].for
          /\ invites'[i].spentBy = invites[i].spentBy /\ invites'[i].st = invites[i].st
      <4>1. ASSUME NEW p \in People, Enters(p) PROVE invites'[i] = invites[i]
        <5>1. PICK n \in InviteIds : InviteLive(n) /\ \A j \in InviteIds \ {n} : invites'[j] = invites[j]
          BY <1>1, <4>1, EnterRows
        <5>2. n # i
          BY <2>6, <5>1 DEF InviteLive
        <5> QED BY <5>1, <5>2
      <4>2. ASSUME NEW by \in People \union {NoOne}, Invites(by) PROVE invites'[i] = invites[i]
        <5>1. PICK n \in InviteIds : invites[n] = NoInvite /\ \A j \in InviteIds \ {n} : invites'[j] = invites[j]
          BY <1>1, <4>2, InviteRows
        <5>2. n # i
          BY <2>6, <5>1, EmptyFacts
        <5> QED BY <5>1, <5>2
      <4> QED BY <2>1, <2>6, <4>1, <4>2, Writers DEF InvitesDrop
    <3> QED BY <3>1, <3>2 DEF Invite
  <2>7. ASSUME NEW k \in CodeIds, codes[k].consumed PROVE codes'[k].token = codes[k].token
    <3>1. ASSUME NEW j \in CodeIds, Grants(j) PROVE codes'[k].token = codes[k].token
      BY <1>1, <2>7, <3>1, GrantRows
    <3>2. ASSUME NEW cl \in Clients, NEW p \in People, Approves(cl, p)
          PROVE  codes'[k].token = codes[k].token
      BY <1>1, <2>7, <3>2, ApproveRows, EmptyFacts
    <3> QED BY <2>1, <3>1, <3>2, Writers DEF CodesExpire
  <2> QED BY <2>2, <2>3, <2>4, <2>5, <2>6, <2>7
<1>2. AccessInv /\ [Next]_vars => [Kept]_vars
  <2> HIDE DEF Kept
  <2> QED BY <1>1
<1> HIDE DEF Kept
<1>3. Spec => [][Kept]_vars
  BY <1>2, Invariance, PTL DEF Spec
<1> QED BY <1>3 DEF EndedStaysEnded, Kept

=============================================================================

------------------------------- MODULE Access -------------------------------
(***************************************************************************)
(* Who may use the platform (src/internal/identity, src/internal/auth,     *)
(* their tables in src/internal/store and the two surfaces that call them, *)
(* src/internal/httpapi and src/internal/web): invites, accounts, sign-in  *)
(* sessions, mailed links, API tokens, connectors and their codes, and the *)
(* credential the process seeds while it starts.                           *)
(*                                                                         *)
(* A request is one call: it reads, then writes, each a step of its own,   *)
(* and between two of them another call may commit, a deadline may pass or *)
(* the call may end (its client leaves, a store call fails, the process    *)
(* stops).  call[c] names the store call it makes next and what it read.   *)
(*                                                                         *)
(* A raw secret is the number of its row: a caller holds it or does not.   *)
(* Mail is a link somebody may hold; one that never arrives is never used. *)
(* The attempt limiter (module Limits) may refuse any call before it       *)
(* begins; audit rows, which no decision reads, are left out.              *)
(***************************************************************************)
EXTENDS Naturals, FiniteSets

CONSTANTS
  People,       \* addresses that may be registered
  Passwords,    \* passwords that pass CheckPassword
  Keys,         \* values DEPLOYER_BOOTSTRAP_TOKEN is given
  Clients,      \* connectors that may register themselves
  Calls,        \* requests under way at once
  NoOne,        \* no account
  Machine,      \* the account named bootstrap, which has no address
  MaxInvites, MaxSessions, MaxLinks, MaxTokens, MaxCodes,  \* bounds on rows
  NameAttempts, \* grantNameAttempts, nameOrdinalLimit
  MaxCalls,     \* bound on calls in a behaviour
  MaxExpiries,  \* bound on deadlines that pass
  MaxBoots      \* bound on starts of the process

ASSUME PeopleAssumption ==
  /\ NoOne \notin People /\ Machine \notin People /\ NoOne # Machine
  /\ NoOne \notin Clients
\* The platform draws no token that somebody configured.
ASSUME KeyAssumption == "random" \notin Keys
ASSUME BoundAssumption ==
  {MaxInvites, MaxSessions, MaxLinks, MaxTokens, MaxCodes,
   NameAttempts, MaxCalls, MaxExpiries, MaxBoots} \subseteq Nat \ {0}

VARIABLES
  accounts, invites, sessions, links, tokens, clients, codes,  \* the tables
  call,                     \* what each request does next
  boot, key,                \* the starting process's next step, its configured token
  begun, expiries, boots    \* how many of each so far

tables == <<accounts, invites, sessions, links, tokens, clients, codes>>
vars   == <<tables, call, boot, key, begun, expiries, boots>>

-----------------------------------------------------------------------------
(* Rows.  An id is a number; the row of an id nobody has drawn is empty.    *)

Purposes == {"verify", "reset"}
Names    == 0 .. NameAttempts        \* token names; 0 is "bootstrap"
Users    == People \union {Machine}

\* era counts the changes that end an account's credentials: a password set,
\* a suspension.  taken marks a token somebody revoked by its id.  Both are
\* history, read by no step.
Account == [exists : BOOLEAN, password : Passwords \union {"none"}, verified : BOOLEAN,
            disabled : BOOLEAN, admin : BOOLEAN, connected : BOOLEAN, era : Nat]
Invite  == [by : Users \union {NoOne}, for : People \union {NoOne}, spentBy : People \union {NoOne},
            st : {"unused", "live", "spent", "revoked"}, expired : BOOLEAN]
Session == [of : People \union {NoOne}, live : BOOLEAN, expired : BOOLEAN, era : Nat]
Link    == [of : People \union {NoOne}, purpose : Purposes, live : BOOLEAN,
            expired : BOOLEAN, era : Nat]
ApiToken == [of : Users \union {NoOne}, name : Names, client : Clients \union {NoOne},
             key : Keys \union {"random"}, live : BOOLEAN, expired : BOOLEAN, taken : BOOLEAN]
Code    == [of : People \union {NoOne}, client : Clients \union {NoOne}, consumed : BOOLEAN,
            expired : BOOLEAN, token : 0 .. MaxTokens]

NoAccount == [exists |-> FALSE, password |-> "none", verified |-> FALSE, disabled |-> FALSE,
              admin |-> FALSE, connected |-> FALSE, era |-> 0]
NoInvite  == [by |-> NoOne, for |-> NoOne, spentBy |-> NoOne, st |-> "unused", expired |-> FALSE]
NoSession == [of |-> NoOne, live |-> FALSE, expired |-> FALSE, era |-> 0]
NoLink    == [of |-> NoOne, purpose |-> "verify", live |-> FALSE, expired |-> FALSE, era |-> 0]
NoToken   == [of |-> NoOne, name |-> 0, client |-> NoOne, key |-> "random",
              live |-> FALSE, expired |-> FALSE, taken |-> FALSE]
NoCode    == [of |-> NoOne, client |-> NoOne, consumed |-> FALSE, expired |-> FALSE, token |-> 0]
Idle      == [next |-> "none"]

\* The id ids.New draws: the lowest nobody has.
IsNext(id, rows, empty) ==
  /\ rows[id] = empty
  /\ \A j \in DOMAIN rows : rows[j] = empty => id <= j

-----------------------------------------------------------------------------
(* Queries.                                                                *)

ResolveSession(s) ==
  sessions[s].live /\ ~sessions[s].expired /\ ~accounts[sessions[s].of].disabled
CreateSession(s, p) ==
  sessions' = [sessions EXCEPT ![s] =
                 [of |-> p, live |-> TRUE, expired |-> FALSE, era |-> accounts[p].era]]
RevokeSession(s) == [sessions EXCEPT ![s].live = FALSE]
RevokeAccountSessions(p) ==
  [s \in DOMAIN sessions |->
     IF sessions[s].of = p THEN [sessions[s] EXCEPT !.live = FALSE] ELSE sessions[s]]

ConsumeLiveEmailTokens(p, purpose) ==
  [l \in DOMAIN links |->
     IF links[l].of = p /\ links[l].purpose = purpose
     THEN [links[l] EXCEPT !.live = FALSE] ELSE links[l]]
RevokeAccountEmailTokens(p) ==
  [l \in DOMAIN links |->
     IF links[l].of = p THEN [links[l] EXCEPT !.live = FALSE] ELSE links[l]]
ConsumeEmailToken(l, purpose) ==
  /\ links[l].live /\ ~links[l].expired /\ links[l].purpose = purpose
  /\ links' = [links EXCEPT ![l].live = FALSE]
NewEmailToken(p, purpose) ==
  [of |-> p, purpose |-> purpose, live |-> TRUE, expired |-> FALSE, era |-> accounts[p].era]

AnyAccountHasEmail == \E p \in People : accounts[p].exists
AccountExistsByEmail(p) == accounts[p].exists
CreateIdentityAccount(p, pw) ==
  accounts' = [accounts EXCEPT ![p] =
                 [NoAccount EXCEPT !.exists = TRUE, !.password = pw, !.admin = ~AnyAccountHasEmail]]
MarkEmailVerified(p) == [accounts EXCEPT ![p].verified = TRUE]
MarkAccountConnected(p) == [accounts EXCEPT ![p].connected = TRUE]
SetPasswordHash(p, pw) ==
  [accounts EXCEPT ![p].password = pw, ![p].era = @ + 1]
SetDisabledAt(p, on) ==
  [accounts EXCEPT ![p].disabled = on, ![p].era = IF on THEN @ + 1 ELSE @]

InviteLive(i) == invites[i].st = "live" /\ ~invites[i].expired
LiveInviteByCodeHash(i, p) == InviteLive(i) /\ invites[i].for \in {NoOne, p}
\* Bug: the query asks for an invite somebody issued.
AnyLiveBootstrapInvite_Issued == \E i \in DOMAIN invites : InviteLive(i) /\ invites[i].by # NoOne
AnyLiveBootstrapInvite == \E i \in DOMAIN invites : InviteLive(i) /\ invites[i].by = NoOne
NewInvite(by, for) == [NoInvite EXCEPT !.by = by, !.for = for, !.st = "live"]
\* Bug: the update drops its guard and overwrites who spent it.
SpendInvite_Unguarded(i, p) ==
  invites' = [invites EXCEPT ![i].st = "spent", ![i].spentBy = p]
SpendInvite(i, p) ==
  /\ InviteLive(i)
  /\ invites' = [invites EXCEPT ![i].st = "spent", ![i].spentBy = p]
RevokeInvite(i) ==
  /\ InviteLive(i)
  /\ invites' = [invites EXCEPT ![i].st = "revoked"]

ResolveToken(t) == tokens[t].live /\ ~tokens[t].expired
\* api_tokens_live_name: a name is taken until its token is revoked.
NameTaken(rows, u, name) ==
  \E t \in DOMAIN rows : rows[t].of = u /\ rows[t].name = name /\ rows[t].live
HashTaken(k) == k # "random" /\ \E t \in DOMAIN tokens : tokens[t].key = k
NewToken(u, name, client, k) ==
  [of |-> u, name |-> name, client |-> client, key |-> k, live |-> TRUE, expired |-> FALSE,
   taken |-> FALSE]
RevokeAPIToken(t) == [tokens EXCEPT ![t].live = FALSE, ![t].taken = TRUE]
RevokeTokensNamed(u, name) ==
  [t \in DOMAIN tokens |->
     IF tokens[t].of = u /\ tokens[t].name = name
     THEN [tokens[t] EXCEPT !.live = FALSE] ELSE tokens[t]]
RevokeLiveClientTokens(p, cl) ==
  [t \in DOMAIN tokens |->
     IF tokens[t].of = p /\ tokens[t].client = cl
     THEN [tokens[t] EXCEPT !.live = FALSE] ELSE tokens[t]]

\* Bug: the update does not ask whether the code is spent.
ConsumeOAuthCode_Again(k) == codes[k].of # NoOne /\ ~codes[k].expired
ConsumeOAuthCode(k) == codes[k].of # NoOne /\ ~codes[k].consumed /\ ~codes[k].expired
SetOAuthCodeToken(k, t) == [codes EXCEPT ![k].consumed = TRUE, ![k].token = t]

-----------------------------------------------------------------------------
(* Calls.  A call the code refuses, whose client leaves or whose store call *)
(* fails ends where it stands: its transaction is rolled back, what it      *)
(* committed before stays.                                                  *)

Free(c) == boot = "up" /\ call[c] = Idle /\ begun < MaxCalls
Begin(c, step) ==
  /\ Free(c)
  /\ begun' = begun + 1
  /\ call' = [call EXCEPT ![c] = step]
  /\ UNCHANGED <<boot, key, expiries, boots>>
At(c, next) == boot = "up" /\ call[c].next = next
Go(c, step) ==
  /\ call' = [call EXCEPT ![c] = step]
  /\ UNCHANGED <<boot, key, begun, expiries, boots>>
End(c)  == Go(c, Idle)
Stop(c) == call[c] # Idle /\ boot = "up" /\ End(c) /\ UNCHANGED tables

(* Transactions.                                                           *)

SpendInviteAndCreateAccount(i, p, pw) ==
  /\ SpendInvite(i, p)
  /\ ~AccountExistsByEmail(p)          \* accounts_email: else both roll back
  /\ CreateIdentityAccount(p, pw)
CreateInvite(by, for) ==
  /\ for # NoOne => ~AccountExistsByEmail(for)
  /\ \E i \in DOMAIN invites :
       /\ IsNext(i, invites, NoInvite)
       /\ invites' = [invites EXCEPT ![i] = NewInvite(by, for)]
CreateEmailToken(p, purpose) ==
  \E l \in DOMAIN links :
    /\ IsNext(l, links, NoLink)
    /\ links' = [ConsumeLiveEmailTokens(p, purpose) EXCEPT ![l] = NewEmailToken(p, purpose)]
SetPassword(p, pw) ==
  /\ accounts' = SetPasswordHash(p, pw)
  /\ sessions' = RevokeAccountSessions(p)
  /\ links' = RevokeAccountEmailTokens(p)
\* Bug: the links stay.
SetAccountDisabled_KeepsLinks(p, on) ==
  /\ accounts[p].exists
  /\ accounts' = SetDisabledAt(p, on)
  /\ sessions' = IF on THEN RevokeAccountSessions(p) ELSE sessions
  /\ links' = links
\* Bug: restoring an account restores its sessions.
SetAccountDisabled_Revives(p, on) ==
  /\ accounts[p].exists
  /\ accounts' = SetDisabledAt(p, on)
  /\ sessions' = IF on THEN RevokeAccountSessions(p)
                 ELSE [s \in DOMAIN sessions |-> [sessions[s] EXCEPT !.live = (sessions[s].of = p \/ @)]]
  /\ links' = IF on THEN RevokeAccountEmailTokens(p) ELSE links
SetAccountDisabled(p, on) ==
  /\ accounts[p].exists
  /\ accounts' = SetDisabledAt(p, on)
  /\ sessions' = IF on THEN RevokeAccountSessions(p) ELSE sessions
  /\ links' = IF on THEN RevokeAccountEmailTokens(p) ELSE links
CreateAPIToken(u, name, k) ==
  /\ ~NameTaken(tokens, u, name) /\ ~HashTaken(k)
  /\ \E t \in DOMAIN tokens :
       /\ IsNext(t, tokens, NoToken)
       /\ tokens' = [tokens EXCEPT ![t] = NewToken(u, name, NoOne, k)]
ApproveOAuthClientAndCreateCode(cl, p) ==
  /\ clients[cl] \notin {"none", "swept"}   \* the code refers to the client's row
  /\ clients' = [clients EXCEPT ![cl] = "approved"]
  /\ \E k \in DOMAIN codes :
       /\ IsNext(k, codes, NoCode)
       /\ codes' = [codes EXCEPT ![k] = [NoCode EXCEPT !.of = p, !.client = cl]]
GrantClientToken(k, name) ==
  LET p == codes[k].of
      cl == codes[k].client
      freed == RevokeLiveClientTokens(p, cl)
  IN /\ ConsumeOAuthCode(k)
     /\ ~NameTaken(freed, p, name)
     /\ \E t \in DOMAIN tokens :
          /\ IsNext(t, tokens, NoToken)
          /\ tokens' = [freed EXCEPT ![t] = NewToken(p, name, cl, "random")]
          /\ codes' = SetOAuthCodeToken(k, t)

-----------------------------------------------------------------------------
(* Registering, confirming and signing in.                                 *)

Register(c, i, p, pw) ==
  /\ LiveInviteByCodeHash(i, p)
  /\ Begin(c, [next |-> "spend", invite |-> i, who |-> p, pw |-> pw])
  /\ UNCHANGED tables
Spend(c) ==
  /\ At(c, "spend")
  /\ SpendInviteAndCreateAccount(call[c].invite, call[c].who, call[c].pw)
  /\ Go(c, [next |-> "link", who |-> call[c].who, purpose |-> "verify"])
  /\ UNCHANGED <<sessions, links, tokens, clients, codes>>
IssueLink(c) ==
  /\ At(c, "link")
  /\ CreateEmailToken(call[c].who, call[c].purpose)
  /\ End(c)
  /\ UNCHANGED <<accounts, invites, sessions, tokens, clients, codes>>

Verify(c, l) ==
  /\ ConsumeEmailToken(l, "verify")
  /\ Begin(c, [next |-> "verified", who |-> links[l].of])
  /\ UNCHANGED <<accounts, invites, sessions, tokens, clients, codes>>
MarkVerified(c) ==
  /\ At(c, "verified")
  /\ accounts' = MarkEmailVerified(call[c].who)
  /\ End(c)
  /\ UNCHANGED <<invites, sessions, links, tokens, clients, codes>>

Resend(c, p) ==
  /\ accounts[p].exists /\ ~accounts[p].verified /\ ~accounts[p].disabled
  /\ Begin(c, [next |-> "link", who |-> p, purpose |-> "verify"])
  /\ UNCHANGED tables
Forgot(c, p) ==
  /\ accounts[p].exists /\ ~accounts[p].disabled
  /\ Begin(c, [next |-> "link", who |-> p, purpose |-> "reset"])
  /\ UNCHANGED tables
Reset(c, l, pw) ==
  /\ ConsumeEmailToken(l, "reset")
  /\ Begin(c, [next |-> "password", who |-> links[l].of, pw |-> pw])
  /\ UNCHANGED <<accounts, invites, sessions, tokens, clients, codes>>
ResetPassword(c) ==
  /\ At(c, "password")
  /\ SetPassword(call[c].who, call[c].pw)
  /\ End(c)
  /\ UNCHANGED <<invites, tokens, clients, codes>>

\* Bug: an unconfirmed address may sign in.
Login_Unconfirmed(c, p, pw) ==
  /\ accounts[p].exists /\ accounts[p].password = pw /\ ~accounts[p].disabled
  /\ Begin(c, [next |-> "session", who |-> p])
  /\ UNCHANGED tables
\* The account is the copy AccountByEmail read: the password is checked
\* against it, and so is whether it is confirmed and in good standing.
Login(c, p, pw) ==
  /\ accounts[p].exists /\ accounts[p].password = pw
  /\ accounts[p].verified /\ ~accounts[p].disabled
  /\ Begin(c, [next |-> "session", who |-> p])
  /\ UNCHANGED tables
OpenSession(c) ==
  /\ At(c, "session")
  /\ \E s \in DOMAIN sessions :
       IsNext(s, sessions, NoSession) /\ CreateSession(s, call[c].who)
  /\ End(c)
  /\ UNCHANGED <<accounts, invites, links, tokens, clients, codes>>

-----------------------------------------------------------------------------
(* Calls made with a session.  The account is the copy the session         *)
(* resolved to; an expiry the touch moves forward is a deadline that has   *)
(* not passed.                                                             *)

Usable(p) == ~accounts[p].disabled /\ accounts[p].verified
AuthenticateSession(s) == ResolveSession(s) /\ Usable(sessions[s].of)
AdminSession(s) == AuthenticateSession(s) /\ accounts[sessions[s].of].admin

Logout(c, s) ==
  /\ AuthenticateSession(s)
  /\ Begin(c, [next |-> "logout", session |-> s])
  /\ UNCHANGED tables
EndSession(c) ==
  /\ At(c, "logout")
  /\ sessions' = RevokeSession(call[c].session)
  /\ End(c)
  /\ UNCHANGED <<accounts, invites, links, tokens, clients, codes>>

MarkConnected(c, s) ==
  /\ AuthenticateSession(s) /\ ~accounts[sessions[s].of].connected
  /\ Begin(c, [next |-> "connected", who |-> sessions[s].of])
  /\ UNCHANGED tables
StampConnected(c) ==
  /\ At(c, "connected")
  /\ accounts' = MarkAccountConnected(call[c].who)
  /\ End(c)
  /\ UNCHANGED <<invites, sessions, links, tokens, clients, codes>>

\* Bug: one ordinal too many.
MoreNames_One(name) == name <= NameAttempts
MoreNames(name) == name < NameAttempts

\* renames: the console draws the next ordinal when a name is taken.
MintToken(c, s, name, renames) ==
  /\ AuthenticateSession(s)
  /\ Begin(c, [next |-> "mint", who |-> sessions[s].of, name |-> name, renames |-> renames])
  /\ UNCHANGED tables
Mint(c) ==
  LET p == call[c].who
      name == call[c].name
  IN /\ At(c, "mint")
     /\ \/ CreateAPIToken(p, name, "random") /\ End(c)
        \/ /\ NameTaken(tokens, p, name) /\ call[c].renames /\ MoreNames(name)
           /\ Go(c, [call[c] EXCEPT !.name = name + 1])
           /\ UNCHANGED tokens
     /\ UNCHANGED <<accounts, invites, sessions, links, clients, codes>>

\* owner: whose token it must be, the caller's own or the one the admin names.
RevokeToken(c, t, owner) ==
  /\ tokens[t].of = owner
  /\ Begin(c, [next |-> "revoke", token |-> t])
  /\ UNCHANGED tables
Revoke(c) ==
  /\ At(c, "revoke")
  /\ tokens[call[c].token].live
  /\ tokens' = RevokeAPIToken(call[c].token)
  /\ End(c)
  /\ UNCHANGED <<accounts, invites, sessions, links, clients, codes>>

IssueInvite(c, s, for) ==
  /\ AdminSession(s)
  /\ Begin(c, [next |-> "invite", by |-> sessions[s].of, for |-> for])
  /\ UNCHANGED tables
MintInvite(c) ==
  /\ At(c, "invite")
  /\ CreateInvite(call[c].by, call[c].for)
  /\ End(c)
  /\ UNCHANGED <<accounts, sessions, links, tokens, clients, codes>>
WithdrawInvite(c, s, i) ==
  /\ AdminSession(s)
  /\ Begin(c, [next |-> "withdraw", invite |-> i])
  /\ UNCHANGED tables
Withdraw(c) ==
  /\ At(c, "withdraw")
  /\ RevokeInvite(call[c].invite)
  /\ End(c)
  /\ UNCHANGED <<accounts, sessions, links, tokens, clients, codes>>

\* Bug: an admin may suspend themselves.
ChangeStanding_Self(c, s, p, on) ==
  /\ AdminSession(s)
  /\ Begin(c, [next |-> "standing", who |-> p, on |-> on])
  /\ UNCHANGED tables
ChangeStanding(c, s, p, on) ==
  /\ AdminSession(s)
  /\ on => p # sessions[s].of          \* an admin cannot suspend themselves
  /\ Begin(c, [next |-> "standing", who |-> p, on |-> on])
  /\ UNCHANGED tables
SetDisabled(c) ==
  /\ At(c, "standing")
  /\ SetAccountDisabled(call[c].who, call[c].on)
  /\ End(c)
  /\ UNCHANGED <<invites, tokens, clients, codes>>

-----------------------------------------------------------------------------
(* Connectors: a client registers itself, a person approves it on a page    *)
(* and is sent back with a code, the client trades the code for a token.    *)

RegisterClient(c, cl) ==
  /\ clients[cl] = "none"
  /\ Begin(c, Idle)
  /\ clients' = [clients EXCEPT ![cl] = "registered"]
  /\ UNCHANGED <<accounts, invites, sessions, links, tokens, codes>>
ApproveClient(c, s, cl) ==
  /\ AuthenticateSession(s)
  /\ Begin(c, [next |-> "approve", client |-> cl, who |-> sessions[s].of])
  /\ UNCHANGED tables
Approve(c) ==
  /\ At(c, "approve")
  /\ ApproveOAuthClientAndCreateCode(call[c].client, call[c].who)
  /\ End(c)
  /\ UNCHANGED <<accounts, invites, sessions, links, tokens>>

\* pkce: the verifier is the challenge's.  rest: the client, the redirect and
\* the resource are the code's.  A spent code presented without its verifier
\* ends the token it bought; with it, it is a client asking again.
Grant(c, k, pkce, rest) ==
  /\ codes[k].of # NoOne
  /\ \/ /\ codes[k].consumed /\ ~pkce
        /\ Begin(c, [next |-> "revoke", token |-> codes[k].token])
     \/ /\ ~codes[k].consumed /\ ~codes[k].expired /\ pkce /\ rest
        /\ accounts[codes[k].of].verified
        /\ Begin(c, [next |-> "grant", code |-> k, name |-> 1])
  /\ UNCHANGED tables
GrantToken(c) ==
  LET k == call[c].code
      name == call[c].name
  IN /\ At(c, "grant")
     /\ \/ GrantClientToken(k, name) /\ End(c)
        \/ /\ ConsumeOAuthCode(k) /\ MoreNames(name)
           /\ NameTaken(RevokeLiveClientTokens(codes[k].of, codes[k].client), codes[k].of, name)
           /\ Go(c, [call[c] EXCEPT !.name = name + 1])
           /\ UNCHANGED <<tokens, codes>>
     /\ UNCHANGED <<accounts, invites, sessions, links, clients>>

\* The daily sweep: registrations nobody answered in ClientRetention go, their
\* codes with them.
SweepClients ==
  LET old == {cl \in Clients : clients[cl] = "stale"}
  IN /\ boot = "up" /\ old # {}
     /\ clients' = [cl \in Clients |-> IF cl \in old THEN "swept" ELSE clients[cl]]
     /\ codes' = [k \in DOMAIN codes |-> IF codes[k].client \in old THEN NoCode ELSE codes[k]]
     /\ UNCHANGED <<accounts, invites, sessions, links, tokens, call, boot, key,
                    begun, expiries, boots>>

-----------------------------------------------------------------------------
(* The pages of the console.  They call what the JSON routes call, behind a *)
(* form token: nonce is the browser's cookie and field what its form holds, *)
(* and a signed-in page's field is made for one session.                    *)

Nonces == {"none", "drawn"}
CheckPreCSRF(nonce, field) == nonce # "none" /\ field = nonce
CheckCSRF(s, field) == field = s

LoginSubmit(c, p, pw, nonce, field) == CheckPreCSRF(nonce, field) /\ Login(c, p, pw)
RegisterSubmit(c, i, p, pw, nonce, field) ==
  CheckPreCSRF(nonce, field) /\ Register(c, i, p, pw)
ResendSubmit(c, p, nonce, field) == CheckPreCSRF(nonce, field) /\ Resend(c, p)
ForgotSubmit(c, p, nonce, field) == CheckPreCSRF(nonce, field) /\ Forgot(c, p)
ResetSubmit(c, l, pw, nonce, field) == CheckPreCSRF(nonce, field) /\ Reset(c, l, pw)
VerifyPage(c, l) == Verify(c, l)
LogoutPage(c, s, field) == CheckCSRF(s, field) /\ Logout(c, s)
TokenMint(c, s, field, name) == CheckCSRF(s, field) /\ MintToken(c, s, name, FALSE)
ConnectMint(c, s, field) == CheckCSRF(s, field) /\ MintToken(c, s, 1, TRUE)
ConnectPage(c, s) == MarkConnected(c, s)
TokenRevoke(c, s, field, t) ==
  AuthenticateSession(s) /\ CheckCSRF(s, field) /\ RevokeToken(c, t, sessions[s].of)
ResolveAuthorize(cl) == clients[cl] \in {"registered", "stale", "approved"}
AuthorizeSubmit(c, s, field, cl) ==
  ResolveAuthorize(cl) /\ CheckCSRF(s, field) /\ ApproveClient(c, s, cl)
AdminInviteMint(c, s, field, for) == CheckCSRF(s, field) /\ IssueInvite(c, s, for)
AdminInviteRevoke(c, s, field, i) == CheckCSRF(s, field) /\ WithdrawInvite(c, s, i)
AdminRevokeToken(c, s, field, p, t) ==
  AdminSession(s) /\ CheckCSRF(s, field) /\ RevokeToken(c, t, p)
\* Suspending asks for the account's address to be typed again; Machine stands
\* for the blank it has.
AdminDisable(c, s, field, p, typed) ==
  CheckCSRF(s, field) /\ typed = p /\ ChangeStanding(c, s, p, TRUE)
AdminEnable(c, s, field, p) == CheckCSRF(s, field) /\ ChangeStanding(c, s, p, FALSE)

Page(c) ==
  \/ \E nonce, field \in Nonces, p \in People :
       \/ ResendSubmit(c, p, nonce, field) \/ ForgotSubmit(c, p, nonce, field)
       \/ \E pw \in Passwords :
            \/ LoginSubmit(c, p, pw, nonce, field)
            \/ \E i \in DOMAIN invites : RegisterSubmit(c, i, p, pw, nonce, field)
            \/ \E l \in DOMAIN links : ResetSubmit(c, l, pw, nonce, field)
  \/ \E l \in DOMAIN links : VerifyPage(c, l)
  \/ \E s, field \in DOMAIN sessions :
       \/ LogoutPage(c, s, field) \/ ConnectMint(c, s, field) \/ ConnectPage(c, s)
       \/ \E name \in Names \ {0} : TokenMint(c, s, field, name)
       \/ \E t \in DOMAIN tokens : TokenRevoke(c, s, field, t)
       \/ \E cl \in Clients : AuthorizeSubmit(c, s, field, cl)
       \/ \E i \in DOMAIN invites : AdminInviteRevoke(c, s, field, i)
       \/ \E for \in People \union {NoOne} : AdminInviteMint(c, s, field, for)
       \/ \E p, typed \in Users :
            \/ AdminDisable(c, s, field, p, typed) \/ AdminEnable(c, s, field, p)
            \/ \E t \in DOMAIN tokens : AdminRevokeToken(c, s, field, p, t)

(* The JSON routes, which the holder of a session calls without a form, and *)
(* the two connector endpoints a client calls itself.                       *)
AuthRoutes(c) ==
  \/ \E p \in People :
       \/ Resend(c, p) \/ Forgot(c, p)
       \/ \E pw \in Passwords :
            \/ Login(c, p, pw)
            \/ \E i \in DOMAIN invites : Register(c, i, p, pw)
            \/ \E l \in DOMAIN links : Reset(c, l, pw)
  \/ \E l \in DOMAIN links : Verify(c, l)
  \/ \E s \in DOMAIN sessions : Logout(c, s)
MintRoute(c) == \E s \in DOMAIN sessions, name \in Names \ {0} : MintToken(c, s, name, FALSE)
RevokeRoute(c) == \E s \in DOMAIN sessions, t \in DOMAIN tokens :
  AuthenticateSession(s) /\ RevokeToken(c, t, sessions[s].of)
AdminRoutes(c) == \E s \in DOMAIN sessions, p \in Users :
  \/ \E on \in BOOLEAN : ChangeStanding(c, s, p, on)
  \/ \E t \in DOMAIN tokens : AdminSession(s) /\ RevokeToken(c, t, p)
InviteRoutes(c) == \E s \in DOMAIN sessions :
  \/ \E i \in DOMAIN invites : WithdrawInvite(c, s, i)
  \/ \E for \in People \union {NoOne} : IssueInvite(c, s, for)
ClientRegistration(c) == \E cl \in Clients : RegisterClient(c, cl)
TokenExchange(c) == \E k \in DOMAIN codes, pkce, rest \in BOOLEAN : Grant(c, k, pkce, rest)

Route(c) ==
  \/ AuthRoutes(c) \/ MintRoute(c) \/ RevokeRoute(c) \/ AdminRoutes(c)
  \/ InviteRoutes(c) \/ ClientRegistration(c) \/ TokenExchange(c)

Continue(c) ==
  \/ Spend(c) \/ IssueLink(c) \/ MarkVerified(c) \/ ResetPassword(c) \/ OpenSession(c)
  \/ EndSession(c) \/ StampConnected(c) \/ Mint(c) \/ Revoke(c) \/ MintInvite(c)
  \/ Withdraw(c) \/ SetDisabled(c) \/ Approve(c) \/ GrantToken(c) \/ Stop(c)

-----------------------------------------------------------------------------
(* Starting.  Nothing is served until the configured token is seeded; a     *)
(* refused seed closes the database and is tried again.                     *)

Boot(from, to) ==
  /\ boot = from /\ boot' = to
  /\ UNCHANGED <<call, key, begun, expiries, boots>>
\* The account the configured token belongs to, made by the first start that has one.
BootAccount ==
  /\ key # "unset" /\ ~accounts[Machine].exists
  /\ accounts' = [accounts EXCEPT ![Machine] = [NoAccount EXCEPT !.exists = TRUE]]
  /\ Boot("token", "token")
  /\ UNCHANGED <<invites, sessions, links, tokens, clients, codes>>
\* Bug: any seeded token will do.
BootToken_Any ==
  /\ accounts[Machine].exists
  /\ \E t \in DOMAIN tokens : ResolveToken(t) /\ tokens[t].of = Machine
  /\ Boot("token", "invite") /\ UNCHANGED tables
BootToken ==
  /\ accounts[Machine].exists
  /\ \E t \in DOMAIN tokens : ResolveToken(t) /\ tokens[t].key = key
  /\ Boot("token", "invite") /\ UNCHANGED tables
BootRetire ==
  /\ key # "unset" /\ accounts[Machine].exists
  /\ ~\E t \in DOMAIN tokens : ResolveToken(t) /\ tokens[t].key = key
  /\ tokens' = RevokeTokensNamed(Machine, 0)
  /\ Boot("token", "seed")
  /\ UNCHANGED <<accounts, invites, sessions, links, clients, codes>>
BootSeed ==
  /\ CreateAPIToken(Machine, 0, key)
  /\ Boot("seed", "invite")
  /\ UNCHANGED <<accounts, invites, sessions, links, clients, codes>>
\* seedBootstrap: without a configured token nothing is seeded or retired.
BootUnset == key = "unset" /\ Boot("token", "invite") /\ UNCHANGED tables
BootRefused == HashTaken(key) /\ Boot("seed", "refused") /\ UNCHANGED tables
BootInvite ==
  /\ IF AnyAccountHasEmail \/ AnyLiveBootstrapInvite
     THEN UNCHANGED invites
     ELSE CreateInvite(NoOne, NoOne) \/ UNCHANGED invites   \* a failure is a warning
  /\ Boot("invite", "up")
  /\ UNCHANGED <<accounts, sessions, links, tokens, clients, codes>>

\* The process dies at any moment and starts with the token it is given then.
Restart(k) ==
  /\ boots < MaxBoots
  /\ boots' = boots + 1 /\ boot' = "token" /\ key' = k
  /\ call' = [c \in Calls |-> Idle]
  /\ UNCHANGED <<tables, begun, expiries>>

(* Time: a row passes its deadline, a registration the retention.          *)

Expire ==
  /\ expiries < MaxExpiries /\ expiries' = expiries + 1
  /\ \/ /\ \E s \in DOMAIN sessions :
             sessions[s].live /\ sessions' = [sessions EXCEPT ![s].expired = TRUE]
        /\ UNCHANGED <<invites, links, tokens, clients, codes>>
     \/ /\ \E l \in DOMAIN links :
             links[l].live /\ links' = [links EXCEPT ![l].expired = TRUE]
        /\ UNCHANGED <<invites, sessions, tokens, clients, codes>>
     \/ /\ \E i \in DOMAIN invites :
             invites[i].st = "live" /\ invites' = [invites EXCEPT ![i].expired = TRUE]
        /\ UNCHANGED <<sessions, links, tokens, clients, codes>>
     \/ /\ \E t \in DOMAIN tokens :       \* only a person's own token has an expiry
             /\ tokens[t].live /\ tokens[t].of # Machine /\ tokens[t].client = NoOne
             /\ tokens' = [tokens EXCEPT ![t].expired = TRUE]
        /\ UNCHANGED <<invites, sessions, links, clients, codes>>
     \/ /\ \E k \in DOMAIN codes :
             codes[k].of # NoOne /\ codes' = [codes EXCEPT ![k].expired = TRUE]
        /\ UNCHANGED <<invites, sessions, links, tokens, clients>>
     \/ /\ \E cl \in Clients :
             clients[cl] = "registered" /\ clients' = [clients EXCEPT ![cl] = "stale"]
        /\ UNCHANGED <<invites, sessions, links, tokens, codes>>
  /\ UNCHANGED <<accounts, call, boot, key, begun, boots>>

-----------------------------------------------------------------------------
Empty(max, row) == [i \in 1 .. max |-> row]

\* A database just migrated.
FreshPlatform ==
  /\ accounts = [u \in Users |-> NoAccount]
  /\ invites = Empty(MaxInvites, NoInvite)
  /\ sessions = Empty(MaxSessions, NoSession)
  /\ links = Empty(MaxLinks, NoLink)
  /\ tokens = Empty(MaxTokens, NoToken)
  /\ clients = [cl \in Clients |-> "none"]
  /\ boot = "token" /\ boots = 1

\* Or one whose token is seeded, whose first person registered with the bootstrap
\* invite, confirmed their address, signed in and issued an invite, and where a
\* connector has registered itself.
SettledPlatform == \E p \in People, pw \in Passwords :
  /\ accounts = [u \in Users |->
       IF u = p THEN [NoAccount EXCEPT !.exists = TRUE, !.password = pw, !.verified = TRUE,
                                       !.admin = TRUE, !.connected = TRUE]
       ELSE IF u = Machine THEN [NoAccount EXCEPT !.exists = TRUE] ELSE NoAccount]
  /\ invites = [Empty(MaxInvites, NoInvite) EXCEPT
       ![1] = [NoInvite EXCEPT !.st = "spent", !.spentBy = p], ![2] = NewInvite(p, NoOne)]
  /\ sessions = [Empty(MaxSessions, NoSession) EXCEPT
       ![1] = [of |-> p, live |-> TRUE, expired |-> FALSE, era |-> 0]]
  /\ links = [Empty(MaxLinks, NoLink) EXCEPT ![1] = [NoLink EXCEPT !.of = p]]
  /\ tokens = [Empty(MaxTokens, NoToken) EXCEPT ![1] = NewToken(Machine, 0, NoOne, key)]
  /\ clients = [cl \in Clients |-> "registered"]
  /\ boot = "up" /\ boots = MaxBoots

Init ==
  /\ key \in Keys
  /\ FreshPlatform \/ SettledPlatform
  /\ codes = Empty(MaxCodes, NoCode)
  /\ call = [c \in Calls |-> Idle]
  /\ begun = 0 /\ expiries = 0

Retry == Boot("refused", "token") /\ UNCHANGED tables

Next ==
  \/ \E c \in Calls : (Free(c) /\ (Page(c) \/ Route(c))) \/ Continue(c)
  \/ SweepClients \/ Expire
  \/ BootUnset \/ BootAccount \/ BootToken \/ BootRetire \/ BootSeed \/ BootRefused \/ Retry \/ BootInvite
  \/ \E k \in Keys \union {"unset"} : Restart(k)

Spec == Init /\ [][Next]_vars

-----------------------------------------------------------------------------
(* Properties.                                                             *)

Step == [next : {"none"}]
  \union [next : {"spend"}, invite : DOMAIN invites, who : People, pw : Passwords]
  \union [next : {"link"}, who : People, purpose : Purposes]
  \union [next : {"verified", "session", "connected"}, who : People]
  \union [next : {"password"}, who : People, pw : Passwords]
  \union [next : {"logout"}, session : DOMAIN sessions]
  \union [next : {"mint"}, who : People, name : Names \ {0}, renames : BOOLEAN]
  \union [next : {"revoke"}, token : 1 .. MaxTokens]
  \union [next : {"invite"}, by : People, for : People \union {NoOne}]
  \union [next : {"withdraw"}, invite : DOMAIN invites]
  \union [next : {"standing"}, who : Users, on : BOOLEAN]
  \union [next : {"approve"}, client : Clients, who : People]
  \union [next : {"grant"}, code : DOMAIN codes, name : Names \ {0}]

\* Every row and every call is one the program can write.
AccessTypeOK ==
  /\ accounts \in [Users -> Account] /\ invites \in [1 .. MaxInvites -> Invite]
  /\ sessions \in [1 .. MaxSessions -> Session] /\ links \in [1 .. MaxLinks -> Link]
  /\ tokens \in [1 .. MaxTokens -> ApiToken] /\ codes \in [1 .. MaxCodes -> Code]
  /\ clients \in [Clients -> {"none", "registered", "stale", "approved", "swept"}]
  /\ call \in [Calls -> Step]
  /\ boot \in {"token", "seed", "invite", "up", "refused"} /\ key \in Keys \union {"unset"}
  /\ begun \in 0 .. MaxCalls /\ expiries \in 0 .. MaxExpiries /\ boots \in 1 .. MaxBoots

\* Every account was bought with one invite of its own, one addressed to it or
\* to nobody, and no invite was spent on an account that was refused: two
\* registrations racing on one invite, or on one address, end as one account.
InviteBuysOneAccount ==
  /\ \A p \in People : accounts[p].exists <=>
       \E i \in DOMAIN invites : invites[i].st = "spent" /\ invites[i].spentBy = p
  /\ \A i, j \in DOMAIN invites :
       invites[i].st = "spent" =>
         /\ invites[i].for \in {NoOne, invites[i].spentBy}
         /\ invites[j].st = "spent" /\ invites[i].spentBy = invites[j].spentBy => i = j

\* A restarting process does not leave several working ways into an empty
\* platform behind, and never one beside an account.
OneWayIn ==
  Cardinality({i \in DOMAIN invites : InviteLive(i) /\ invites[i].by = NoOne}) <= 1

\* Exactly one account is the administrator, the first, and it is never shut
\* out: nobody would be left to undo it.
AdministratorStays ==
  AnyAccountHasEmail =>
    \E p \in People : /\ accounts[p].exists /\ accounts[p].admin /\ ~accounts[p].disabled
                      /\ \A q \in People : accounts[q].admin => q = p

\* A password change or a suspension ends every session and every mailed link
\* made before it, whatever calls were under way, and of the links mailed to an
\* account for one purpose none but the newest works.
OldCredentialsEnd ==
  /\ \A s \in DOMAIN sessions : sessions[s].live => sessions[s].era = accounts[sessions[s].of].era
  /\ \A l \in DOMAIN links : links[l].live => links[l].era = accounts[links[l].of].era
  /\ \A l, m \in DOMAIN links :
       links[l].live /\ links[m].of = links[l].of /\ links[m].purpose = links[l].purpose => m <= l

\* Nobody holds a session or a working token of an address never confirmed.
ConfirmedOnly ==
  /\ \A s \in DOMAIN sessions : sessions[s].of # NoOne => accounts[sessions[s].of].verified
  /\ \A t \in DOMAIN tokens : tokens[t].of \in People => accounts[tokens[t].of].verified

\* A code buys one token, for its account and its client, and every token a
\* connector holds was bought with a code.
CodeBuysOneToken ==
  /\ \A t \in DOMAIN tokens : tokens[t].client # NoOne =>
       \E k \in DOMAIN codes : codes[k].token = t /\ codes[k].of = tokens[t].of
                               /\ codes[k].client = tokens[t].client
  /\ \A k, j \in DOMAIN codes :
       /\ codes[k].consumed <=> codes[k].token # 0
       /\ codes[k].token # 0 /\ codes[k].token = codes[j].token => k = j

\* A connector's last grant stands: of the tokens one client was granted on one
\* account none but the newest works, and its codes never outlive its client.
LastGrantStands ==
  /\ \A t, u \in DOMAIN tokens :
       tokens[t].live /\ tokens[t].client # NoOne
         /\ tokens[u].client = tokens[t].client /\ tokens[u].of = tokens[t].of => u <= t
  /\ \A k \in DOMAIN codes : codes[k].of # NoOne => clients[codes[k].client] = "approved"

\* Two exchanges of one code, one repeated after its token, and two grants of one
\* connector leave one working token, bought with one code.
GrantsAreBoughtOnce == CodeBuysOneToken /\ LastGrantStands

\* A suspended account is told so, whoever it is; an account with no address has
\* nothing to confirm.
Authenticate(t) ==
  LET u == tokens[t].of
  IN IF ~ResolveToken(t) THEN "invalid"
     ELSE IF accounts[u].disabled THEN "suspended"
     ELSE IF u = Machine \/ accounts[u].verified THEN "ok" ELSE "invalid"

\* A platform that serves lets its configured token in, and no other one the
\* process seeded resolves: rotating it leaves exactly one working credential.
\* The exception is an administrator's act upon the machine's own account, which
\* the code allows: a token revoked there stays refused, and while that account
\* is suspended the answer is the one a suspended person gets.
Seeded == {t \in DOMAIN tokens : tokens[t].of = Machine /\ ResolveToken(t)}
ServesWithItsToken ==
  boot = "up" /\ key # "unset" =>
    \E t \in DOMAIN tokens :
      /\ tokens[t].key = key /\ Seeded \subseteq {t}
      /\ Authenticate(t) = IF tokens[t].taken THEN "invalid"
                           ELSE IF accounts[Machine].disabled THEN "suspended" ELSE "ok"

\* "It is safe to run on every boot" (src/internal/auth/auth.go:137): a start
\* is never refused for the token it was given.
EveryBootSucceeds == boot # "refused"

\* What has ended stays ended: no step revives a revoked session, a consumed
\* link, a revoked token, a spent or revoked invite or a consumed code.
EndedStaysEnded == [][
  /\ \A s \in DOMAIN sessions :
       sessions[s].of # NoOne /\ ~sessions[s].live => ~sessions'[s].live
  /\ \A l \in DOMAIN links : links[l].of # NoOne /\ ~links[l].live => ~links'[l].live
  /\ \A t \in DOMAIN tokens : tokens[t].of # NoOne /\ ~tokens[t].live => ~tokens'[t].live
  /\ \A i \in DOMAIN invites :
       invites[i].st \in {"spent", "revoked"} => invites'[i] = [invites[i] EXCEPT !.expired = invites'[i].expired]
  /\ \A k \in DOMAIN codes : codes[k].consumed => codes'[k].token = codes[k].token]_vars
=============================================================================

-------------------------------- MODULE Auth --------------------------------
(***************************************************************************)
(* AuthService and RbacAuthorizer of crates/bashfuldb-auth: stored users,  *)
(* signed tokens, the revocations of a running process, and the table of   *)
(* roles.                                                                  *)
(*                                                                         *)
(* A token is the claims it carries and the key it was signed with: both   *)
(* signatures are deterministic, so two tokens with equal claims are one   *)
(* string and have one digest.  An RS256 key is made by every process      *)
(* anew; an HS256 secret is configured.  A password is right or wrong.     *)
(*                                                                         *)
(* A call reads the stored users, and later what it needs of their roles,  *)
(* while other calls store users: a call of create_user that names an id   *)
(* replaces the user that has it.  Users are never removed.                *)
(***************************************************************************)
EXTENDS Naturals, FiniteSets

CONSTANTS
  Tenant, Username,
  NoTenant,    \* tenant = None
  AccessTtl, RefreshTtl,
  Caller,      \* callers of the service
  MaxUsers, MaxSessions, MaxClock, MaxProcesses \* bounds

ASSUME AuthAssumption == AccessTtl \in Nat /\ RefreshTtl \in Nat

VARIABLES
  mode,      \* "rs256" or "hs256", fixed
  process,   \* how often the service was started
  up,        \* it is running
  users,     \* users[id]: a stored user with its roles
  revoked,   \* revoked tokens, in memory
  now,       \* the clock, in seconds
  calls,     \* calls[k]: the call of k
  sessions,  \* history: the token pairs handed out, and in which processes they were logged out
  before     \* history: before[id]: the users that were stored when the call that made id
             \* began, and have not been replaced

authVars == <<mode, process, up, users, revoked, now, calls, sessions, before>>

Action == {"Read", "Create", "Update", "Delete", "CreateIndex", "DropIndex", "CreateDatabase",
           "DropDatabase", "CreateCollection", "DropCollection", "ManageUsers", "ManageCluster"}

\* Role::permits.
Permits ==
  [ServerAdmin   |-> Action,
   TenantAdmin   |-> Action \ {"ManageCluster"},
   DatabaseAdmin |-> Action \ {"ManageUsers", "ManageCluster"},
   ReadWrite     |-> {"Read", "Create", "Update", "Delete"},
   ReadOnly      |-> {"Read"}]
Role == DOMAIN Permits

\* RbacAuthorizer::check; the tenant of a cluster-wide resource is NoTenant.
Check(claims, action, tenant) ==
  /\ \/ "ServerAdmin" \in claims.roles
     \/ claims.tenant # NoTenant /\ claims.tenant = tenant
  /\ \E r \in claims.roles : action \in Permits[r]

-----------------------------------------------------------------------------
Admin == "_system__admin"
NewUser(username, tenant, roles) == [username |-> username, tenant |-> tenant, roles |-> roles]

\* A call, id: the user it is about, 0 if create_user is to choose; found: the users that
\* it has found for the tenant; before: history, see before.
NoId == 0
NoCall == [pc |-> "idle", id |-> NoId, user |-> NewUser(Admin, NoTenant, {}),
           found |-> {}, before |-> {}]
SetCall(k, c) == calls' = [calls EXCEPT ![k] = c]

\* Uuid::new_v4: an id that nobody has, or names.
Free == {id \in 1 .. MaxUsers \ DOMAIN users : \A k \in Caller : calls[k].id # id}

\* persist_user_and_roles: both records in one batch, in the place of what was there.
Persist(id, user, seen) ==
  /\ users' = [i \in DOMAIN users \cup {id} |-> IF i = id THEN user ELSE users[i]]
  /\ before' = [i \in DOMAIN before \cup {id} |-> (IF i = id THEN seen ELSE before[i]) \ {id}]

\* find_user_by_username.
Named(username) == {id \in DOMAIN users : users[id].username = username}

\* Signer::new: an RS256 key of its own for every process.
SigningKey == IF mode = "rs256" THEN process ELSE 0

\* A token; the time to live is added by issue_token_pair.
Token(kind, id, tenant, ttl) ==
  [kind |-> kind, sub |-> id, tenant |-> tenant, roles |-> users[id].roles,
   iat |-> now, exp |-> now + ttl, key |-> SigningKey]

\* What login and refresh issue to a user who has been found with this tenant, and in
\* one step.
SessionFor(id, tenant) ==
  [user |-> id, iat |-> now, process |-> process, out |-> {},
   access |-> Token("access", id, tenant, AccessTtl),
   refresh |-> Token("refresh", id, tenant, RefreshTtl)]
Session(id) == SessionFor(id, users[id].tenant)

\* decode_token: the revocation, the signature, the kind and the time, in this order.
DecodeToken_NoRevocation(token, kind) ==
  IF token.key # SigningKey \/ token.kind # kind THEN "InvalidToken"
  ELSE IF now >= token.exp THEN "TokenExpired"
  ELSE "ok"

DecodeToken(token, kind) ==
  IF token \in revoked THEN "TokenRevoked"
  ELSE IF token.key # SigningKey \/ token.kind # kind THEN "InvalidToken"
  ELSE IF now >= token.exp THEN "TokenExpired"
  ELSE "ok"

Verify(token) == DecodeToken(token, "access")

-----------------------------------------------------------------------------
\* AuthService::new: the first user is made if there is none; without a password
\* for it, or with a weak one, the service does not start.
Start(password) ==
  /\ ~up /\ process < MaxProcesses
  /\ process' = process + 1
  /\ up' = (DOMAIN users # {} \/ password = "strong")
  /\ revoked' = {}
  /\ IF DOMAIN users = {} /\ password = "strong"
     THEN Persist(1, NewUser(Admin, NoTenant, {"ServerAdmin"}), {})
     ELSE UNCHANGED <<users, before>>
  /\ UNCHANGED <<mode, now, calls, sessions>>

\* The process ends; calls in progress are forgotten.
Stop ==
  /\ up
  /\ up' = FALSE
  /\ calls' = [k \in Caller |-> NoCall]
  /\ UNCHANGED <<mode, process, users, revoked, now, sessions, before>>

AuthTick ==
  /\ now < MaxClock /\ now' = now + 1
  /\ UNCHANGED <<mode, process, up, users, revoked, calls, sessions, before>>

\* create_user: the request is checked; a ServerAdmin has no tenant ...
BeginCreateUser(k, id, username, tenant, roles, strong) ==
  LET t == IF "ServerAdmin" \in roles THEN NoTenant ELSE tenant IN
  /\ up /\ calls[k].pc = "idle"
  /\ roles # {} /\ strong /\ (t = NoTenant => "ServerAdmin" \in roles)
  /\ SetCall(k, [NoCall EXCEPT !.pc = IF t = NoTenant THEN "name" ELSE "tenant", !.id = id,
                               !.user = NewUser(username, t, roles), !.before = DOMAIN users])
  /\ UNCHANGED <<mode, process, up, users, revoked, now, sessions, before>>

\* ... a tenant has at most one user who is no ServerAdmin: its users are read, then
\* their roles ...
ScanTenant(k) ==
  /\ calls[k].pc = "tenant"
  /\ SetCall(k, [calls[k] EXCEPT !.pc = "roles",
       !.found = {id \in DOMAIN users : users[id].tenant = calls[k].user.tenant}])
  /\ UNCHANGED <<mode, process, up, users, revoked, now, sessions, before>>

CheckTenant(k) ==
  /\ calls[k].pc = "roles"
  /\ SetCall(k, IF \E id \in calls[k].found : "ServerAdmin" \notin users[id].roles THEN NoCall
                ELSE [calls[k] EXCEPT !.pc = "name", !.found = {}])
  /\ UNCHANGED <<mode, process, up, users, revoked, now, sessions, before>>

\* ... a name at most one user; ...
CheckName_Skipped(k) ==
  /\ calls[k].pc = "name"
  /\ SetCall(k, [calls[k] EXCEPT !.pc = "persist"])
  /\ UNCHANGED <<mode, process, up, users, revoked, now, sessions, before>>

CheckName(k) ==
  /\ calls[k].pc = "name"
  /\ SetCall(k, IF Named(calls[k].user.username) # {} THEN NoCall
                ELSE [calls[k] EXCEPT !.pc = "persist"])
  /\ UNCHANGED <<mode, process, up, users, revoked, now, sessions, before>>

\* ... then the user is stored, under the id that was named or a new one.  A user who is
\* replaced is no longer one that was there before.
StoreUser(k) ==
  /\ calls[k].pc = "persist"
  /\ \E id \in 1 .. MaxUsers :
       /\ IF calls[k].id = NoId THEN Free # {} /\ id = CHOOSE i \in Free : TRUE
          ELSE id = calls[k].id
       /\ Persist(id, calls[k].user, calls[k].before)
       /\ calls' = [j \in Caller |-> IF j = k THEN NoCall
                                     ELSE [calls[j] EXCEPT !.before = @ \ {id}]]
  /\ UNCHANGED <<mode, process, up, revoked, now, sessions>>

\* login and refresh: the user is read, ...
FindUser(k, id) ==
  /\ up /\ calls[k].pc = "idle"
  /\ SetCall(k, [NoCall EXCEPT !.pc = "issue", !.id = id,
                               !.user = [users[id] EXCEPT !.roles = {}]])
  /\ UNCHANGED <<mode, process, up, users, revoked, now, sessions, before>>

\* ... with a right password, the first of a name, ...
BeginLogin(k, username) ==
  Named(username) # {} /\ FindUser(k, CHOOSE id \in Named(username) : TRUE)

\* ... or with a valid refresh token, which stays valid; ...
BeginRefresh(k, s) ==
  /\ DecodeToken(s.refresh, "refresh") = "ok" /\ s.user \in DOMAIN users
  /\ FindUser(k, s.user)

\* ... then the roles, and a new pair is issued.
IssuePair(k) ==
  /\ up /\ calls[k].pc = "issue" /\ Cardinality(sessions) < MaxSessions
  /\ sessions' = sessions \cup {SessionFor(calls[k].id, calls[k].user.tenant)}
  /\ SetCall(k, NoCall)
  /\ UNCHANGED <<mode, process, up, users, revoked, now, before>>

\* login in one step, where nobody stores a user meanwhile.
Login(id) ==
  /\ up /\ Cardinality(sessions) < MaxSessions
  /\ sessions' = sessions \cup {Session(id)}
  /\ UNCHANGED <<mode, process, up, users, revoked, now, calls, before>>

\* logout: the access token is revoked, whatever it is.
Logout(s) ==
  /\ up
  /\ revoked' = revoked \cup {s.access}
  /\ sessions' = (sessions \ {s}) \cup {[s EXCEPT !.out = @ \cup {process}]}
  /\ UNCHANGED <<mode, process, up, users, now, calls, before>>

AuthInit ==
  /\ mode \in {"rs256", "hs256"}
  /\ process = 0 /\ up = FALSE /\ revoked = {} /\ now = 1
  /\ users = <<>> /\ before = <<>>
  /\ calls = [k \in Caller |-> NoCall]
  /\ sessions = {}

\* A service that was started, with a tenant's user.
AuthReady ==
  /\ mode \in {"rs256", "hs256"}
  /\ process = 1 /\ up = TRUE /\ revoked = {} /\ now = 1
  /\ users = <<NewUser(Admin, NoTenant, {"ServerAdmin"}),
               NewUser(CHOOSE u \in Username : TRUE, CHOOSE t \in Tenant : TRUE, {"ReadWrite"})>>
  /\ before = <<{}, {1}>>
  /\ calls = [k \in Caller |-> NoCall]

Restart == Stop \/ \E p \in {"strong", "weak", "none"} : Start(p)

\* What is left to do of a call of create_user.
CreateStep(k) == ScanTenant(k) \/ CheckTenant(k) \/ CheckName(k) \/ StoreUser(k)

UsersNext(ids) ==
  \/ Restart
  \/ \E k \in Caller : CreateStep(k)
  \/ \E k \in Caller, id \in ids, u \in Username, t \in Tenant \cup {NoTenant},
        rs \in {{}, {"ServerAdmin"}, {"ReadWrite"}}, strong \in BOOLEAN :
       BeginCreateUser(k, id, u, t, rs, strong)

\* Users log in while a call of k replaces the user of a tenant by a ServerAdmin.
TokensNext(k) ==
  \/ Restart \/ AuthTick
  \/ \E s \in sessions : Logout(s)
  \/ CreateStep(k)
  \/ \E id \in DOMAIN users, u \in Username :
       users[id].tenant # NoTenant /\ BeginCreateUser(k, id, u, NoTenant, {"ServerAdmin"}, TRUE)
  \/ \E j \in Caller \ {k} :
       \/ IssuePair(j)
       \/ \E u \in Username : BeginLogin(j, u)
       \/ \E s \in sessions : BeginRefresh(j, s)

-----------------------------------------------------------------------------
(* No two users share a name, and no two that are not ServerAdmin share a tenant,
   unless the calls of create_user that made them overlapped: create_user checks
   and then stores, and holds no lock in between.  This is so also when calls name
   the id of a stored user and replace it, and between the reads of a check. *)
AccountsUnique ==
  \A i, j \in DOMAIN users :
    /\ i # j
    /\ \/ users[i].username = users[j].username
       \/ /\ users[i].tenant = users[j].tenant
          /\ "ServerAdmin" \notin users[i].roles \cup users[j].roles
    => i \notin before[j] /\ j \notin before[i]

\* Tokens with equal claims, under one key: they are one string.
OneString(r, s) ==
  /\ r.user = s.user /\ r.iat = s.iat
  /\ r.access.tenant = s.access.tenant /\ r.access.roles = s.access.roles
  /\ mode = "hs256" \/ r.process = s.process

(* An access token verifies from login until its time is over, in the process that
   signed it (RS256) or in every later one (HS256), unless this process saw a
   logout of it or of a token issued to the same user in the same second with the
   same tenant and roles: those are one string.  A restart forgets the logouts of
   earlier processes, a logout leaves the refresh token valid, and a user who is
   replaced keeps the tokens, with their tenant and roles.                   *)
TokenLifetime ==
  up => \A s \in sessions :
    (Verify(s.access) = "ok") <=>
      /\ mode = "hs256" \/ s.process = process
      /\ now < s.iat + AccessTtl
      /\ \A r \in sessions : OneString(r, s) => process \notin r.out
=============================================================================

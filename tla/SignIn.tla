------------------------------- MODULE SignIn --------------------------------
(* Accounts of the dashboard: sign-in through OIDC or behind a trusted proxy,  *)
(* sessions, the resolution of every admin request, and the routes that change *)
(* a role or disable an account. The master key, which needs no account, is    *)
(* the administrator who makes the edits.                                       *)
(* src/server/src: api/identity.js, api/adminAuth.js, api/authProviders/oidc.js,*)
(* api/routes/users.js, api/rbac.js, models/User.js, models/Session.js.         *)
EXTENDS Deployment

CONSTANTS Accounts,  \* email addresses
          Browsers,  \* browsers, each with one cookie jar
          Edits      \* requests of administrators under way

VARIABLES mode,     \* config.authMode: "oidc" or "trusted-header"
          users,    \* User documents by email, or None
          session,  \* the Session document that the cookie of a browser names, or None
          login,    \* callbacks under way
          visit,    \* admin requests under way
          change,     \* edits under way
          decided   \* history: what the administrators last wrote of an account

SignInVars == <<mode, users, session, login, visit, change, decided>>

ROLES == {"viewer", "operator", "administrator"}
User == [role : ROLES, disabled : BOOLEAN]

ASSUME SignInAssumption == None \notin User

NewUser == [role |-> "viewer", disabled |-> FALSE]
NoLogin == [pc |-> "none", email |-> None, doc |-> None]
NoVisit == [pc |-> "none", email |-> None, barred |-> FALSE, user |-> None]
NoChange == [pc |-> "none", email |-> None, doc |-> None, what |-> None]

SignInInit ==
    /\ mode \in {"oidc", "trusted-header"}
    /\ users = [a \in Accounts |-> None]
    /\ session = [b \in Browsers |-> None]
    /\ login = [b \in Browsers |-> NoLogin]
    /\ visit = [b \in Browsers |-> NoVisit]
    /\ change = [e \in Edits |-> NoChange]
    /\ decided = [a \in Accounts |-> NewUser]

-----------------------------------------------------------------------------
(* GET /api/auth/callback, once the provider has vouched for the address. *)

\* The account is read; a disabled one is turned away.
Callback(b, a) ==
    /\ mode = "oidc" /\ login[b] = NoLogin
    /\ users[a] # None => ~users[a].disabled
    /\ login' = [login EXCEPT ![b] = [pc |-> "save", email |-> a, doc |-> users[a]]]
    /\ UNCHANGED <<mode, users, session, visit, change, decided>>

\* Mutant: the document is written back as it was read.
SaveLogin_Whole(b) ==
    LET l == login[b] IN
    /\ l.pc = "save"
    /\ users' = [users EXCEPT ![l.email] = IF l.doc = None THEN NewUser ELSE l.doc]
    /\ login' = [login EXCEPT ![b].pc = "session"]
    /\ UNCHANGED <<mode, session, visit, change, decided>>

\* A new account starts as a viewer, and fails on the unique address when another request
\* has made it meanwhile; of a known one only oidcSubject and lastLoginAt are written.
SaveLogin(b) ==
    LET l == login[b] IN
    /\ l.pc = "save"
    /\ IF l.doc = None /\ users[l.email] # None
       THEN login' = [login EXCEPT ![b] = NoLogin] /\ UNCHANGED users
       ELSE /\ users' = [users EXCEPT ![l.email] = IF l.doc = None THEN NewUser ELSE Saved(@, l.doc, l.doc)]
            /\ login' = [login EXCEPT ![b].pc = "session"]
    /\ UNCHANGED <<mode, session, visit, change, decided>>

\* The cookie of the browser names the new session from here on.
CreateSession(b) ==
    /\ login[b].pc = "session"
    /\ session' = [session EXCEPT ![b] = login[b].email]
    /\ login' = [login EXCEPT ![b] = NoLogin]
    /\ UNCHANGED <<mode, users, visit, change, decided>>

\* The store fails at either write, and the callback answers with the error.
CallbackFails(b) ==
    /\ login[b] # NoLogin
    /\ login' = [login EXCEPT ![b] = NoLogin]
    /\ UNCHANGED <<mode, users, session, visit, change, decided>>

\* POST /api/auth/logout; and the TTL index of the sessions does the same.
Logout(b) ==
    /\ session[b] # None
    /\ session' = [session EXCEPT ![b] = None]
    /\ UNCHANGED <<mode, users, login, visit, change, decided>>

-----------------------------------------------------------------------------
(* adminAuth.middleware: identity.resolveUser(), then the route. *)

\* A request names its account by the session of its cookie, or by the header of the proxy.
Visit(b, a) ==
    /\ visit[b] = NoVisit
    /\ mode = "oidc" => session[b] = a
    /\ visit' = [visit EXCEPT ![b] = [pc |-> "find", email |-> a, user |-> None,
                                      barred |-> users[a] # None /\ users[a].disabled]]
    /\ UNCHANGED <<mode, users, session, login, change, decided>>

\* Mutant: what the session says is enough, since disabling an account deletes its sessions.
FindUser_BySession(b) ==
    LET v == visit[b] IN
    /\ v.pc = "find" /\ users[v.email] # None
    /\ visit' = [visit EXCEPT ![b].pc = "act", ![b].user = users[v.email]]
    /\ UNCHANGED <<mode, users, session, login, change, decided>>

\* The account is looked up on every request: 401 when it is missing or disabled.
FindUser(b) ==
    LET v == visit[b] IN
    /\ v.pc = "find" /\ users[v.email] # None
    /\ visit' = [visit EXCEPT ![b] = IF users[v.email].disabled THEN NoVisit
                                     ELSE [v EXCEPT !.pc = "act", !.user = users[v.email]]]
    /\ UNCHANGED <<mode, users, session, login, change, decided>>

\* Behind a trusted proxy an unknown address gets an account, as a viewer.
Provision(b) ==
    LET v == visit[b] IN
    /\ mode = "trusted-header" /\ v.pc = "find" /\ users[v.email] = None
    /\ visit' = [visit EXCEPT ![b].pc = "create"]
    /\ UNCHANGED <<mode, users, session, login, change, decided>>

\* The unique address makes the second of two creations fail, and its request with it.
CreateUser(b) ==
    LET v == visit[b] IN
    /\ v.pc = "create"
    /\ IF users[v.email] = None
       THEN /\ users' = [users EXCEPT ![v.email] = NewUser]
            /\ visit' = [visit EXCEPT ![b].pc = "act", ![b].user = NewUser]
       ELSE visit' = [visit EXCEPT ![b] = NoVisit] /\ UNCHANGED users
    /\ UNCHANGED <<mode, session, login, change, decided>>

\* The route has run, or requireRole() has refused it, or the store failed on the way.
VisitEnds(b) ==
    /\ visit[b] # NoVisit
    /\ visit' = [visit EXCEPT ![b] = NoVisit]
    /\ UNCHANGED <<mode, users, session, login, change, decided>>

-----------------------------------------------------------------------------
(* PATCH /users/:id/role, POST /users/:id/disable and /enable. *)

ReadAccount(e, a, what) ==
    /\ change[e] = NoChange /\ users[a] # None
    /\ change' = [change EXCEPT ![e] = [pc |-> "save", email |-> a, doc |-> users[a], what |-> what]]
    /\ UNCHANGED <<mode, users, session, login, visit, decided>>

Edited(doc, what) ==
    CASE what = "disable" -> [doc EXCEPT !.disabled = TRUE]
      [] what = "enable" -> [doc EXCEPT !.disabled = FALSE]
      [] OTHER -> [doc EXCEPT !.role = what]

\* A change that changes nothing writes nothing. Requests that came before an account was
\* enabled again may be served.
SaveAccount(e) ==
    LET o == change[e]
        new == Edited(o.doc, o.what) IN
    /\ o.pc = "save"
    /\ users' = [users EXCEPT ![o.email] = Saved(@, o.doc, new)]
    /\ decided' = [decided EXCEPT ![o.email] = Saved(@, o.doc, new)]
    /\ visit' = IF o.what # "enable" THEN visit
                ELSE [b \in Browsers |-> IF visit[b].email = o.email
                                         THEN [visit[b] EXCEPT !.barred = FALSE] ELSE visit[b]]
    /\ change' = [change EXCEPT ![e] = IF o.what = "disable" THEN [@ EXCEPT !.pc = "purge"] ELSE NoChange]
    /\ UNCHANGED <<mode, session, login>>

\* Disabling an account deletes its sessions, those that are there.
DeleteSessions(e) ==
    /\ change[e].pc = "purge"
    /\ session' = [b \in Browsers |-> IF session[b] = change[e].email THEN None ELSE session[b]]
    /\ change' = [change EXCEPT ![e] = NoChange]
    /\ UNCHANGED <<mode, users, login, visit, decided>>

EditFails(e) ==
    /\ change[e] # NoChange
    /\ change' = [change EXCEPT ![e] = NoChange]
    /\ UNCHANGED <<mode, users, session, login, visit, decided>>

-----------------------------------------------------------------------------
SignInNext ==
    \/ \E b \in Browsers, a \in Accounts : Callback(b, a) \/ Visit(b, a)
    \/ \E b \in Browsers : SaveLogin(b) \/ CreateSession(b) \/ CallbackFails(b) \/ Logout(b)
    \/ \E b \in Browsers : FindUser(b) \/ Provision(b) \/ CreateUser(b) \/ VisitEnds(b)
    \/ \E e \in Edits, a \in Accounts, what \in ROLES \cup {"disable", "enable"} : ReadAccount(e, a, what)
    \/ \E e \in Edits : SaveAccount(e) \/ DeleteSessions(e) \/ EditFails(e)

SignInSpec == SignInInit /\ [][SignInNext]_SignInVars

-----------------------------------------------------------------------------
(* Properties. *)

\* A request that arrives while its account is disabled is never served, although a sign-in
\* that was under way may have made a session after those of the account were deleted
\* (Session.js:3-4 "revokes access on their very next request"; identity.js:25-26).
DisabledIsOut == \A b \in Browsers : visit[b].pc = "act" => ~visit[b].barred

\* What the administrators last decided of an account is what is stored: no sign-in that
\* read it before puts the old role back or lifts the ban, and no account starts above a
\* viewer (oidc.js:107-115, identity.js:39-41).
DecisionsStand == \A a \in Accounts : users[a] # None => users[a] = decided[a]

\* The word of the administrators holds, in the store and at the door (identity.js, users.js).
AdministratorsRule == DisabledIsOut /\ DecisionsStand
=============================================================================

------------------------------- MODULE Accounts -------------------------------
(***************************************************************************)
(* Users, tokens and who is let in: oauth.rs, auth.rs, db.rs, admin.rs.    *)
(* A login is a round trip to GitHub bound to the browser by a nonce       *)
(* cookie; the token it ends with freezes the user's role and status, so   *)
(* that an approval in the database reaches a token that says "pending"    *)
(* only where the code reads the row again.                                *)
(*                                                                         *)
(* A person has one browser and one GitHub account.  Rows are found by the *)
(* account at login and by their own id afterwards.  Nothing of the        *)
(* password mode is here.                                                  *)
(***************************************************************************)
EXTENDS Naturals, FiniteSets

CONSTANTS
    People,       \* GitHub accounts, each with its browser
    AllowList,    \* those of --allowed-users
    MaxIds,       \* bound: rows ever inserted
    MaxFlows,     \* bound: redirects to GitHub
    MaxBlips,     \* bound: times the database cannot be read
    MaxAdminOps,  \* bound: administrator's requests
    MaxBoots,     \* bound: restarts with a new random --jwt-secret
    MaxVisits     \* bound: reloads, requests and sockets opened beside the polls

ASSUME AccountsAssumption ==
    /\ AllowList \subseteq People
    /\ MaxIds \in Nat /\ MaxFlows \in Nat /\ MaxBlips \in Nat
    /\ MaxAdminOps \in Nat /\ MaxBoots \in Nat /\ MaxVisits \in Nat

VARIABLES
    rows,      \* the users table: the row of an account, or NoUser
    lastId,    \* row ids are fresh
    dbOk,      \* the database can be read and written
    nonce,     \* the browser's zeromux_oauth_state cookie, 0 if none
    flows,     \* logins on their way: at GitHub, or past the nonce check
    jwt,       \* the browser's zeromux_jwt cookie
    page,      \* what its page shows
    ws,        \* the outcome of the last WebSocket it opened
    adminReqs, \* administrator's requests past the middleware
    approved,  \* history: ids that have been active
    served,    \* history: ids whose request a handler or a socket served
    used       \* what is used of the bounds

accountsVars == <<rows, lastId, dbOk, nonce, flows, jwt, page, ws,
                  adminReqs, approved, served, used>>

NoUser == [id |-> 0, role |-> "none", status |-> "none"]
Bound == [flows |-> MaxFlows, blips |-> MaxBlips, ops |-> MaxAdminOps, boots |-> MaxBoots, visits |-> MaxVisits]
Spend(b) == used[b] < Bound[b] /\ used' = [used EXCEPT ![b] = @ + 1]

Claims == {NoUser} \cup [id: 1..MaxIds, role: {"admin", "member"}, status: {"active", "pending"}]

AccountsTypeOK ==
    /\ rows \in [People -> Claims] /\ jwt \in [People -> Claims]
    /\ lastId \in 0..MaxIds /\ dbOk \in BOOLEAN
    /\ nonce \in [People -> 0..MaxFlows]
    /\ flows \subseteq [who: People, nonce: 1..MaxFlows, pc: {"github", "exchange"}]
    /\ page \in [People -> {"login", "loading", "waiting", "app"}]
    /\ ws \in [People -> {"none", "open", "refused"}]
    /\ adminReqs \subseteq [by: 1..MaxIds, op: {"approve", "delete"}, id: 1..MaxIds]
    /\ approved \subseteq 1..MaxIds /\ served \subseteq 1..MaxIds
    /\ \A b \in DOMAIN Bound : used[b] \in 0..Bound[b]

AccountsInit ==
    /\ rows = [p \in People |-> NoUser] /\ lastId = 0 /\ dbOk = TRUE
    /\ nonce = [p \in People |-> 0] /\ flows = {}
    /\ jwt = [p \in People |-> NoUser] /\ page = [p \in People |-> "login"]
    /\ ws = [p \in People |-> "none"]
    /\ adminReqs = {} /\ approved = {} /\ served = {}
    /\ used = [b \in DOMAIN Bound |-> 0]

RowIds == {rows[p].id : p \in People} \ {0}
RowOf(id) == rows[CHOOSE p \in People : rows[p].id = id]
Admins == {p \in People : rows[p].role = "admin"}

-----------------------------------------------------------------------------
(* The way in.                                                             *)

(* github_redirect: a second tab's nonce replaces the first one's cookie.  *)
Redirect(p) ==
    /\ page[p] = "login" /\ Spend("flows")
    /\ nonce' = [nonce EXCEPT ![p] = used'.flows]
    /\ flows' = flows \cup {[who |-> p, nonce |-> used'.flows, pc |-> "github"]}
    /\ UNCHANGED <<rows, lastId, dbOk, jwt, page, ws, adminReqs, approved, served>>

(* parse_oauth_state, oauth_state_cookie and constant_time_eq: the cookie  *)
(* is there and is the state's nonce.                                      *)
NonceMatches(f) == nonce[f.who] = f.nonce

(* github_callback up to its first await                                   *)
Callback(f) ==
    /\ f.pc = "github"
    /\ flows' = (flows \ {f}) \cup
                (IF NonceMatches(f) THEN {[f EXCEPT !.pc = "exchange"]} ELSE {})
    /\ UNCHANGED <<rows, lastId, dbOk, nonce, jwt, page, ws, adminReqs, approved, served, used>>

(* get_user_by_github_id: deleted users have none                          *)
HasRow(p) == rows[p] # NoUser

(* upsert_github_user's new row.                                           *)
Inserted(p) ==
    [id |-> lastId + 1,
     role |-> IF RowIds = {} THEN "admin" ELSE "member",
     status |-> IF RowIds = {} \/ p \in AllowList THEN "active" ELSE "pending"]

(* The rest of github_callback: GitHub or the database fails, or the row   *)
(* is found or inserted and its claims become the browser's token.         *)
Login(f) ==
    /\ f.pc = "exchange" /\ flows' = flows \ {f}
    /\ LET p == f.who
           found == HasRow(p)
           row == IF found THEN rows[p] ELSE Inserted(p)
       IN  \/ /\ dbOk /\ (found \/ lastId < MaxIds)
              /\ rows' = [rows EXCEPT ![p] = row]
              /\ lastId' = IF found THEN lastId ELSE lastId + 1
              /\ approved' = approved \cup (IF row.status = "active" THEN {row.id} ELSE {})
              /\ jwt' = [jwt EXCEPT ![p] = row] /\ nonce' = [nonce EXCEPT ![p] = 0]
              /\ page' = [page EXCEPT ![p] = "loading"]
           \/ UNCHANGED <<rows, lastId, approved, jwt, nonce, page>>
    /\ UNCHANGED <<dbOk, ws, adminReqs, served, used>>

-----------------------------------------------------------------------------
(* Every request.                                                          *)

(* mutant: the token's claim is believed                                   *)
FrozenClaim(t) == t

(* get_user_by_id and reconcile_pending_user: the row's status and role; a *)
(* row that is gone refuses the token, a database that cannot be read      *)
(* leaves its claim.                                                       *)
Recheck(t) ==
    IF ~dbOk THEN t
    ELSE IF t.id \in RowIds THEN RowOf(t.id) ELSE NoUser

(* auth_middleware: whom a token stands for.  Only a token that is not     *)
(* active is looked up.                                                    *)
Identity(t) == IF t.status = "pending" THEN Recheck(t) ELSE t

(* mutant: a socket goes by the claim                                      *)
WsByClaim(t) == t.status = "active"

(* verify_ws_token, for the cookie of a page of the same origin            *)
WsAdmits(t) == t.status = "active" \/ (t.status = "pending" /\ Recheck(t).status = "active")

(* initAuth: GET /api/me when the page loads                               *)
Load(p) ==
    /\ page[p] = "loading"
    /\ page' = [page EXCEPT ![p] = CASE Identity(jwt[p]).status = "active" -> "app"
                                     [] Identity(jwt[p]).status = "pending" -> "waiting"
                                     [] OTHER -> "login"]
    /\ UNCHANGED <<rows, lastId, dbOk, nonce, flows, jwt, ws, adminReqs, approved, served, used>>

(* WaitingPage: GET /api/me every five seconds, errors ignored             *)
Poll(p) ==
    /\ page[p] = "waiting" /\ Identity(jwt[p]).status = "active"
    /\ page' = [page EXCEPT ![p] = "app"]
    /\ UNCHANGED <<rows, lastId, dbOk, nonce, flows, jwt, ws, adminReqs, approved, served, used>>

Reload(p) ==
    /\ page[p] \in {"waiting", "app"} /\ Spend("visits")
    /\ page' = [page EXCEPT ![p] = "loading"] /\ ws' = [ws EXCEPT ![p] = "none"]
    /\ UNCHANGED <<rows, lastId, dbOk, nonce, flows, jwt, adminReqs, approved, served>>

(* The page's requests to the other routes                                 *)
Request(p) ==
    /\ page[p] \in {"waiting", "app"} /\ Spend("visits")
    /\ served' = served \cup (IF Identity(jwt[p]).status = "active" THEN {jwt[p].id} ELSE {})
    /\ UNCHANGED <<rows, lastId, dbOk, nonce, flows, jwt, page, ws, adminReqs, approved>>

OpenWs(p) ==
    /\ page[p] \in {"waiting", "app"} /\ ws[p] # "open" /\ Spend("visits")
    /\ ws' = [ws EXCEPT ![p] = IF WsAdmits(jwt[p]) THEN "open" ELSE "refused"]
    /\ served' = served \cup (IF WsAdmits(jwt[p]) THEN {jwt[p].id} ELSE {})
    /\ UNCHANGED <<rows, lastId, dbOk, nonce, flows, jwt, page, adminReqs, approved>>

(* admin.rs, in two steps: the middleware and is_admin, then the statement *)
AdminAsks(p, op, id) ==
    /\ page[p] = "app" /\ Identity(jwt[p]).status = "active" /\ Identity(jwt[p]).role = "admin"
    /\ id \in RowIds /\ Spend("ops")
    /\ adminReqs' = adminReqs \cup {[by |-> jwt[p].id, op |-> op, id |-> id]}
    /\ served' = served \cup {jwt[p].id}
    /\ UNCHANGED <<rows, lastId, dbOk, nonce, flows, jwt, page, ws, approved>>

ApproveUser(r) ==
    /\ r.op = "approve" /\ adminReqs' = adminReqs \ {r}
    /\ rows' = [p \in People |-> IF dbOk /\ rows[p].id = r.id /\ rows[p].status = "pending"
                                 THEN [rows[p] EXCEPT !.status = "active"] ELSE rows[p]]
    /\ approved' = approved \cup {rows'[p].id : p \in {q \in People : rows'[q].status = "active"}}
    /\ UNCHANGED <<lastId, dbOk, nonce, flows, jwt, page, ws, served, used>>

(* mutant: an administrator may delete any row, its own too                *)
DeleteAnyUser(r) ==
    /\ r.op = "delete" /\ adminReqs' = adminReqs \ {r}
    /\ rows' = [p \in People |-> IF dbOk /\ rows[p].id = r.id THEN NoUser ELSE rows[p]]
    /\ UNCHANGED <<lastId, dbOk, nonce, flows, jwt, page, ws, approved, served, used>>

DeleteUser(r) ==
    /\ r.op = "delete" /\ adminReqs' = adminReqs \ {r}
    /\ rows' = [p \in People |-> IF dbOk /\ rows[p].id = r.id /\ r.id # r.by THEN NoUser ELSE rows[p]]
    /\ UNCHANGED <<lastId, dbOk, nonce, flows, jwt, page, ws, approved, served, used>>

(* The database fails and heals; a token reaches its exp; the program      *)
(* restarts, with it the requests in it and, the secret being new, every   *)
(* token.                                                                  *)
Blip == dbOk /\ Spend("blips") /\ dbOk' = FALSE
        /\ UNCHANGED <<rows, lastId, nonce, flows, jwt, page, ws, adminReqs, approved, served>>
Heal == ~dbOk /\ dbOk' = TRUE
        /\ UNCHANGED <<rows, lastId, nonce, flows, jwt, page, ws, adminReqs, approved, served, used>>
Expire(p) ==
    /\ jwt[p] # NoUser /\ Spend("visits") /\ jwt' = [jwt EXCEPT ![p] = NoUser]
    /\ UNCHANGED <<rows, lastId, dbOk, nonce, flows, page, ws, adminReqs, approved, served>>
Reboot ==
    /\ Spend("boots")
    /\ flows' = {f \in flows : f.pc = "github"} /\ adminReqs' = {}
    /\ jwt' = [p \in People |-> NoUser] /\ ws' = [p \in People |-> "none"]
    /\ UNCHANGED <<rows, lastId, dbOk, nonce, page, approved, served>>

AccountsNext ==
    \/ \E p \in People : Redirect(p) \/ Load(p) \/ Poll(p) \/ Reload(p) \/ Request(p) \/ OpenWs(p) \/ Expire(p)
    \/ \E f \in flows : Callback(f) \/ Login(f)
    \/ \E p \in People, op \in {"approve", "delete"}, id \in 1..MaxIds : AdminAsks(p, op, id)
    \/ \E r \in adminReqs : ApproveUser(r) \/ DeleteUser(r)
    \/ Blip \/ Heal \/ Reboot

(* A loading page asks once, a waiting one every five seconds as long as   *)
(* it is visible; a database that cannot be read heals.                    *)
AccountsFairness ==
    /\ \A p \in People : WF_accountsVars(Load(p)) /\ WF_accountsVars(Poll(p))
    /\ WF_accountsVars(Heal)

-----------------------------------------------------------------------------
(* Once there are users exactly one of them is the administrator: nobody   *)
(* becomes it after the first, and no interleaving of logins, deletions,   *)
(* restarts and old tokens removes it.                                     *)
OneAdmin == RowIds # {} => Cardinality(Admins) = 1

(* Whoever was ever served had been active: the first, on the list, or     *)
(* approved.  No failure of the database and no row deleted and inserted   *)
(* again lets a pending token in.                                          *)
ServedWasApproved == served \subseteq approved

AccessIsGranted == OneAdmin /\ ServedWasApproved

(* A page that waits gets in once its user is approved, with the token it  *)
(* has: F-AUTH-APPROVAL.                                                   *)
ApprovedGetsIn == \A p \in People :
    (page[p] = "waiting" /\ \E q \in People : rows[q].id = jwt[p].id /\ rows[q].status = "active")
        ~> (page[p] = "app" \/ jwt[p].id \notin RowIds)

(* Where the page got in its sockets do, except while the row cannot be    *)
(* read or is gone, or the token is.                                       *)
WsFollowsPage == [][\A p \in People :
    (page[p] = "app" /\ ws'[p] = "refused" /\ ws[p] # "refused")
        => (~dbOk \/ jwt[p] = NoUser \/ jwt[p].id \notin RowIds)]_accountsVars
=============================================================================

---------------------------- MODULE Services_proofs ----------------------------
(***************************************************************************)
(* Proofs about the eight components of Services, for any constants the    *)
(* assumptions allow: who is let in, that the users' choices stand, that   *)
(* the records of the program's work add up, and every type.  A step of    *)
(* the composition is a step of each component or leaves it (EachStays);   *)
(* each has an inductive invariant of its own.                             *)
(***************************************************************************)
EXTENDS Services, SequenceTheorems, FiniteSetTheorems, FunctionTheorems, WellFoundedInduction, TLAPS

-----------------------------------------------------------------------------
(* The inductive invariant *)

Typed ==
  /\ rows \in [People -> Claims] /\ jwt \in [People -> Claims]
  /\ lastId \in 0..MaxIds

\* Ids are used once; a row is found by its id.
IdsAreFresh ==
  /\ \A p \in People : rows[p].id <= lastId
  /\ \A p, q \in People : rows[p].id = rows[q].id /\ rows[p].id # 0 => p = q

IsAdminRow(p) == rows[p].role = "admin"
IsAdminId(id) == \E p \in People : IsAdminRow(p) /\ rows[p].id = id

\* The administrator's row is the only one of its kind and outlives every other.
AdminStays ==
  /\ \A p, q \in People : IsAdminRow(p) /\ IsAdminRow(q) => p = q
  /\ (\E p \in People : rows[p] # NoUser) => \E p \in People : IsAdminRow(p)

\* A token or a request that speaks for the administrator is that row's.
AdminSpeaks ==
  /\ \A p \in People : jwt[p].role = "admin" => IsAdminId(jwt[p].id)
  /\ \A r \in adminReqs : IsAdminId(r.by)

\* Who is active, in the database or in a token, has been approved.
ActiveIsApproved ==
  /\ \A p \in People : rows[p].status = "active" => rows[p].id \in approved
  /\ \A p \in People : jwt[p].status = "active" => jwt[p].id \in approved

\* A login on its way is somebody's.
FlowsAreLogins ==
  \A f \in flows : /\ f = [who |-> f.who, nonce |-> f.nonce, pc |-> f.pc]
                   /\ f.who \in People

IInv == Typed /\ IdsAreFresh /\ AdminStays /\ AdminSpeaks /\ ActiveIsApproved /\ ServedWasApproved

LEMMA ClaimFacts ==
  /\ NoUser \in Claims /\ NoUser.id = 0 /\ NoUser.role = "none" /\ NoUser.status = "none"
  /\ \A c \in Claims : /\ c.id \in 0..MaxIds
                       /\ c.id = 0 <=> c = NoUser
                       /\ c.role = "admin" \/ c.status = "active" => c.id # 0
BY AccountsAssumption DEF Claims, NoUser

LEMMA IInvInit == AccountsInit => IInv
<1> SUFFICES ASSUME AccountsInit PROVE IInv
  OBVIOUS
<1>1. Typed
  BY ClaimFacts, AccountsAssumption DEF AccountsInit, Typed
<1> QED
  BY <1>1, ClaimFacts DEF AccountsInit, IInv, IdsAreFresh, AdminStays, AdminSpeaks,
     ActiveIsApproved, ServedWasApproved, IsAdminRow

\* Who the middleware or a socket lets in as active has been approved.
LEMMA IdentityApproved ==
  ASSUME IInv, NEW p \in People,
         Identity(jwt[p]).status = "active" \/ WsAdmits(jwt[p])
  PROVE  /\ jwt[p].id \in approved
         /\ Identity(jwt[p]).status = "active" /\ Identity(jwt[p]).role = "admin" => IsAdminId(jwt[p].id)
<1>1. CASE jwt[p].status = "active"
  BY <1>1 DEF IInv, ActiveIsApproved, AdminSpeaks, Identity
<1>2. CASE jwt[p].status # "active"
  <2>1. jwt[p].status = "pending" /\ Recheck(jwt[p]).status = "active"
    BY <1>2 DEF Identity, WsAdmits
  <2>2. jwt[p].id \in RowIds /\ Recheck(jwt[p]) = RowOf(jwt[p].id)
    BY <1>2, <2>1, ClaimFacts DEF Recheck
  <2>3. PICK q \in People : rows[q].id = jwt[p].id
    BY <2>2 DEF RowIds
  <2>4. RowOf(jwt[p].id) = rows[CHOOSE q2 \in People : rows[q2].id = jwt[p].id]
    BY DEF RowOf
  <2>5. PICK q3 \in People : rows[q3].id = jwt[p].id /\ RowOf(jwt[p].id) = rows[q3]
    BY <2>3, <2>4
  <2>6. rows[q3].status = "active"
    BY <2>1, <2>2, <2>5
  <2> QED
    BY <1>2, <2>1, <2>2, <2>5, <2>6 DEF IInv, ActiveIsApproved, Identity, IsAdminId, IsAdminRow
<1> QED
  BY <1>1, <1>2

\* A login finds the row of its account, or inserts one with an id of its own: the
\* administrator's if it is the first.
LEMMA LoginKeeps == ASSUME IInv, FlowsAreLogins, NEW f \in flows, Login(f) PROVE IInv'
<1> DEFINE p == f.who
<1>t. /\ rows \in [People -> Claims] /\ jwt \in [People -> Claims] /\ lastId \in 0..MaxIds
      /\ MaxIds \in Nat /\ p \in People
  BY AccountsAssumption DEF IInv, Typed, FlowsAreLogins
<1>1. CASE UNCHANGED <<rows, lastId, approved, jwt>>
  BY <1>1 DEF Login, IInv, Typed, IdsAreFresh, AdminStays, AdminSpeaks, ActiveIsApproved,
     ServedWasApproved, IsAdminId, IsAdminRow
<1>2. CASE HasRow(p) /\ rows' = [rows EXCEPT ![p] = rows[p]] /\ lastId' = lastId
           /\ approved' = approved \cup (IF rows[p].status = "active" THEN {rows[p].id} ELSE {})
           /\ jwt' = [jwt EXCEPT ![p] = rows[p]]
  <2>1. rows' = rows /\ jwt' \in [People -> Claims] /\ approved \subseteq approved'
    BY <1>2, <1>t
  <2>2. \A q \in People : jwt'[q] = jwt[q] \/ jwt'[q] = rows[p]
    BY <1>2, <1>t
  <2>3. UNCHANGED <<adminReqs, served, lastId>>
    BY <1>2 DEF Login
  <2> HIDE DEF p
  <2> QED
    BY <1>t, <2>1, <2>2, <2>3 DEF IInv, Typed, IdsAreFresh, AdminStays, AdminSpeaks,
       ActiveIsApproved, ServedWasApproved, IsAdminId, IsAdminRow
<1>3. CASE ~HasRow(p) /\ lastId < MaxIds /\ rows' = [rows EXCEPT ![p] = Inserted(p)]
           /\ lastId' = lastId + 1
           /\ approved' = approved \cup (IF Inserted(p).status = "active" THEN {Inserted(p).id} ELSE {})
           /\ jwt' = [jwt EXCEPT ![p] = Inserted(p)]
  <2> DEFINE new == Inserted(p)
  <2>1. /\ new \in Claims /\ new.id = lastId + 1 /\ new # NoUser
        /\ new.role = "admin" <=> RowIds = {}
    BY <1>3, <1>t, ClaimFacts DEF Inserted, Claims
  <2>2. RowIds = {} <=> \A q \in People : rows[q] = NoUser
    BY <1>t, ClaimFacts DEF RowIds
  <2>3. rows[p] = NoUser
    BY <1>3 DEF HasRow
  <2> HIDE DEF new, p
  <2>4. /\ rows' = [rows EXCEPT ![p] = new] /\ jwt' = [jwt EXCEPT ![p] = new]
        /\ approved \subseteq approved' /\ (new.status = "active" => new.id \in approved')
        /\ UNCHANGED <<adminReqs, served>> /\ lastId' = lastId + 1
    BY <1>3 DEF Login, new, p
  <2>5. Typed'
    BY <1>3, <1>t, <2>1, <2>4 DEF Typed
  <2>6. IdsAreFresh'
    <3>1. \A q \in People : rows[q].id \in Nat /\ rows[q].id <= lastId
      BY <1>t, ClaimFacts DEF IInv, IdsAreFresh
    <3>2. \A q \in People : rows'[q].id = IF q = p THEN lastId + 1 ELSE rows[q].id
      BY <1>t, <2>1, <2>4
    <3> QED
      BY <1>t, <2>4, <3>1, <3>2 DEF IInv, IdsAreFresh
  <2>7. \A q \in People : IsAdminRow(q) => q # p /\ rows'[q] = rows[q]
    BY <1>t, <2>3, <2>4, ClaimFacts DEF IsAdminRow
  <2>8. AdminStays'
    <3>1. CASE RowIds = {}
      <4>1. \A q \in People : rows'[q].role = "admin" <=> q = p
        BY <1>t, <2>1, <2>2, <2>4, <3>1, ClaimFacts
      <4> QED
        BY <1>t, <4>1 DEF AdminStays, IsAdminRow
    <3>2. CASE RowIds # {}
      <4>1. \A q \in People : rows'[q].role = "admin" <=> IsAdminRow(q)
        BY <1>t, <2>1, <2>3, <2>4, <3>2, ClaimFacts DEF IsAdminRow
      <4> QED
        BY <4>1, <2>2, <3>2 DEF IInv, AdminStays, IsAdminRow
    <3> QED
      BY <3>1, <3>2
  <2>9. AdminSpeaks'
    <3>1. ASSUME NEW id, IsAdminId(id)
          PROVE  \E q \in People : rows'[q].role = "admin" /\ rows'[q].id = id
      BY <3>1, <2>7 DEF IsAdminId, IsAdminRow
    <3>2. jwt'[p].role = "admin" =>
            \E q \in People : rows'[q].role = "admin" /\ rows'[q].id = jwt'[p].id
      BY <1>t, <2>1, <2>4
    <3>3. \A q \in People : q # p => jwt'[q] = jwt[q]
      BY <1>t, <2>4
    <3>4. ASSUME NEW q \in People, jwt'[q].role = "admin"
          PROVE  \E a \in People : rows'[a].role = "admin" /\ rows'[a].id = jwt'[q].id
      BY <3>1, <3>2, <3>3, <3>4 DEF IInv, AdminSpeaks
    <3>5. ASSUME NEW r \in adminReqs'
          PROVE  \E a \in People : rows'[a].role = "admin" /\ rows'[a].id = r.by
      BY <2>4, <3>1 DEF IInv, AdminSpeaks
    <3> QED
      BY <3>4, <3>5 DEF AdminSpeaks, IsAdminId, IsAdminRow
  <2>10. ActiveIsApproved'
    BY <1>t, <2>1, <2>4 DEF IInv, ActiveIsApproved
  <2> QED
    BY <2>4, <2>5, <2>6, <2>8, <2>9, <2>10 DEF IInv, ServedWasApproved
<1> QED
  BY <1>1, <1>2, <1>3 DEF Login

\* Approval changes a row's status, and its id is approved.
LEMMA ApproveKeeps == ASSUME IInv, NEW r \in adminReqs, ApproveUser(r) PROVE IInv'
<1>t. /\ rows \in [People -> Claims] /\ MaxIds \in Nat
  BY AccountsAssumption DEF IInv, Typed
<1>1. ASSUME NEW p \in People
      PROVE  /\ rows'[p] \in Claims /\ rows'[p].id = rows[p].id /\ rows'[p].role = rows[p].role
             /\ (rows'[p] = NoUser <=> rows[p] = NoUser)
  <2>1. rows[p] \in Claims /\ (rows[p].status = "pending" => rows[p] # NoUser)
    BY <1>t, ClaimFacts
  <2>2. rows'[p] = rows[p] \/ (rows[p].status = "pending" /\ rows'[p] = [rows[p] EXCEPT !.status = "active"])
    BY DEF ApproveUser
  <2>3. CASE rows'[p] = rows[p]
    BY <2>1, <2>3
  <2>4. CASE rows[p].status = "pending" /\ rows'[p] = [rows[p] EXCEPT !.status = "active"]
    <3>1. rows[p] \in [id: 1..MaxIds, role: {"admin", "member"}, status: {"active", "pending"}]
      BY <2>1, <2>4 DEF Claims
    <3>2. /\ rows'[p] \in [id: 1..MaxIds, role: {"admin", "member"}, status: {"active", "pending"}]
          /\ rows'[p].id = rows[p].id /\ rows'[p].role = rows[p].role
      BY <2>4, <3>1
    <3>3. rows'[p] \in Claims
      BY <3>2 DEF Claims
    <3> QED
      BY <3>1, <3>2, <3>3, ClaimFacts
  <2> QED
    BY <2>2, <2>3, <2>4
<1>2. rows' \in [People -> Claims]
  <2>1. rows' = [p \in People |-> rows'[p]]
    BY DEF ApproveUser
  <2> QED
    BY <1>1, <2>1
<1>3. /\ approved \subseteq approved' /\ \A p \in People : rows'[p].status = "active" => rows'[p].id \in approved'
      /\ UNCHANGED <<jwt, lastId, served>> /\ adminReqs' \subseteq adminReqs
  BY DEF ApproveUser
<1> QED
  BY <1>1, <1>2, <1>3 DEF IInv, Typed, IdsAreFresh, AdminStays, AdminSpeaks, ActiveIsApproved,
     ServedWasApproved, IsAdminId, IsAdminRow

\* A deletion spares the row of the administrator who asked for it, the only one.
LEMMA DeleteKeeps == ASSUME IInv, NEW r \in adminReqs, DeleteUser(r) PROVE IInv'
<1>t. rows \in [People -> Claims]
  BY DEF IInv, Typed
<1>1. PICK a \in People : IsAdminRow(a) /\ rows[a].id = r.by
  BY DEF IInv, AdminSpeaks, IsAdminId
<1>2. \A p \in People : /\ rows'[p] = rows[p] \/ rows'[p] = NoUser
                        /\ IsAdminRow(p) => rows'[p] = rows[p]
  <2>1. \A p \in People : IsAdminRow(p) => p = a
    BY <1>1 DEF IInv, AdminStays
  <2>2. rows'[a] = rows[a]
    BY <1>1 DEF DeleteUser
  <2> QED
    BY <2>1, <2>2 DEF DeleteUser
<1>3. rows' \in [People -> Claims]
  BY <1>t, ClaimFacts DEF DeleteUser
<1>4. UNCHANGED <<jwt, lastId, served, approved>> /\ adminReqs' \subseteq adminReqs
  BY DEF DeleteUser
<1>5. \A p \in People : rows'[p].role = "admin" <=> IsAdminRow(p)
  BY <1>2, ClaimFacts DEF IsAdminRow
<1>6. IdsAreFresh'
  <2>1. lastId \in Nat
    BY AccountsAssumption DEF IInv, Typed
  <2> QED
    BY <1>2, <1>4, <2>1, ClaimFacts DEF IInv, IdsAreFresh
<1>7. AdminStays'
  BY <1>1, <1>5 DEF IInv, AdminStays, IsAdminRow
<1>8. ASSUME NEW id, IsAdminId(id) PROVE \E q \in People : rows'[q].role = "admin" /\ rows'[q].id = id
  BY <1>8, <1>2 DEF IsAdminId, IsAdminRow
<1>9. AdminSpeaks'
  BY <1>4, <1>8 DEF IInv, AdminSpeaks, IsAdminId, IsAdminRow
<1>10. ActiveIsApproved'
  BY <1>2, <1>4, ClaimFacts DEF IInv, ActiveIsApproved
<1> QED
  BY <1>3, <1>4, <1>6, <1>7, <1>9, <1>10 DEF IInv, Typed, ServedWasApproved

LEMMA IInvStep ==
  FlowsAreLogins /\ IInv /\ [AccountsNext]_accountsVars => IInv'
<1> SUFFICES ASSUME FlowsAreLogins, IInv, [AccountsNext]_accountsVars PROVE IInv'
  OBVIOUS
<1>1. CASE UNCHANGED <<rows, jwt, lastId, adminReqs, approved, served>>
  BY <1>1 DEF IInv, Typed, IdsAreFresh, AdminStays, AdminSpeaks, ActiveIsApproved,
     ServedWasApproved, IsAdminId, IsAdminRow
<1>2. ASSUME NEW p \in People, Request(p) \/ OpenWs(p) PROVE IInv'
  <2>1. served' \subseteq approved /\ UNCHANGED <<rows, jwt, lastId, adminReqs, approved>>
    BY <1>2, IdentityApproved DEF Request, OpenWs, IInv, ServedWasApproved
  <2> QED
    BY <2>1 DEF IInv, Typed, IdsAreFresh, AdminStays, AdminSpeaks, ActiveIsApproved,
       ServedWasApproved, IsAdminId, IsAdminRow
<1>3. ASSUME NEW p \in People, NEW op \in {"approve", "delete"}, NEW id \in 1..MaxIds,
             AdminAsks(p, op, id)
      PROVE  IInv'
  <2>1. jwt[p].id \in approved /\ IsAdminId(jwt[p].id)
    BY <1>3, IdentityApproved DEF AdminAsks
  <2>2. /\ served' \subseteq approved /\ UNCHANGED <<rows, jwt, lastId, approved>>
        /\ adminReqs' = adminReqs \cup {[by |-> jwt[p].id, op |-> op, id |-> id]}
    BY <1>3, <2>1 DEF AdminAsks, IInv, ServedWasApproved
  <2>3. \A r \in adminReqs' : IsAdminId(r.by)
    BY <2>1, <2>2 DEF IInv, AdminSpeaks
  <2> QED
    BY <2>2, <2>3 DEF IInv, Typed, IdsAreFresh, AdminStays, AdminSpeaks, ActiveIsApproved,
       ServedWasApproved, IsAdminId, IsAdminRow
<1>4. ASSUME jwt' \in [People -> {NoUser}] \/ (\E p \in People : Expire(p)),
             UNCHANGED <<rows, lastId, approved, served>>, adminReqs' \subseteq adminReqs
      PROVE  IInv'
  <2>1. jwt' \in [People -> Claims] /\ \A q \in People : jwt'[q] = jwt[q] \/ jwt'[q] = NoUser
    BY <1>4, ClaimFacts DEF Expire, IInv, Typed
  <2> QED
    BY <1>4, <2>1, ClaimFacts DEF IInv, Typed, IdsAreFresh, AdminStays, AdminSpeaks,
       ActiveIsApproved, ServedWasApproved, IsAdminId, IsAdminRow
<1>5. CASE Reboot \/ \E p \in People : Expire(p)
  BY <1>4, <1>5 DEF Reboot, Expire
<1>6. CASE UNCHANGED accountsVars \/ Blip \/ Heal \/ (\E f \in flows : Callback(f))
           \/ \E p \in People : Redirect(p) \/ Load(p) \/ Poll(p) \/ Reload(p)
  BY <1>1, <1>6 DEF accountsVars, Blip, Heal, Callback, Redirect, Load, Poll, Reload
<1> QED
  BY <1>2, <1>3, <1>5, <1>6, LoginKeeps, ApproveKeeps, DeleteKeeps DEF AccountsNext

LEMMA FlowsStep == FlowsAreLogins /\ [AccountsNext]_accountsVars => FlowsAreLogins'
<1> SUFFICES ASSUME FlowsAreLogins, [AccountsNext]_accountsVars, NEW f \in flows'
             PROVE  f = [who |-> f.who, nonce |-> f.nonce, pc |-> f.pc] /\ f.who \in People
  BY DEF FlowsAreLogins
<1>1. ASSUME NEW p \in People, Redirect(p)
      PROVE  f = [who |-> f.who, nonce |-> f.nonce, pc |-> f.pc] /\ f.who \in People
  BY <1>1 DEF Redirect, FlowsAreLogins
<1>2. ASSUME NEW g \in flows, Callback(g)
      PROVE  f = [who |-> f.who, nonce |-> f.nonce, pc |-> f.pc] /\ f.who \in People
  <2>1. f \in flows \/ f = [g EXCEPT !.pc = "exchange"]
    BY <1>2 DEF Callback
  <2>2. g = [who |-> g.who, nonce |-> g.nonce, pc |-> g.pc] /\ g.who \in People
    BY DEF FlowsAreLogins
  <2> QED
    BY <2>1, <2>2 DEF FlowsAreLogins
<1>3. CASE flows' \subseteq flows
  BY <1>3 DEF FlowsAreLogins
<1> QED
  BY <1>1, <1>2, <1>3 DEF AccountsNext, accountsVars, Login, Load, Poll, Reload, Request, OpenWs,
     Expire, AdminAsks, ApproveUser, DeleteUser, Blip, Heal, Reboot

LEMMA IInvGives == IInv => AccessIsGranted
<1> SUFFICES ASSUME IInv PROVE OneAdmin /\ ServedWasApproved
  BY DEF AccessIsGranted
<1>1. ASSUME RowIds # {} PROVE Cardinality(Admins) = 1
  <2>1. \E p \in People : rows[p] # NoUser
    BY <1>1, ClaimFacts DEF RowIds
  <2>2. PICK a \in People : IsAdminRow(a)
    BY <2>1 DEF IInv, AdminStays
  <2>3. Admins = {a}
    BY <2>2 DEF IInv, AdminStays, Admins, IsAdminRow
  <2> QED
    BY <2>3, FS_Singleton
<1> QED
  BY <1>1 DEF IInv, OneAdmin

-----------------------------------------------------------------------------
(* One of eight. A step of the composition is a step of each component, or  *)
(* leaves it where it is.                                                   *)

LEMMA EachStays ==
  ASSUME [Next]_vars
  PROVE  /\ [AccountsNext]_accountsVars /\ [PushNext]_pushVars /\ [NamesNext]_namesVars
         /\ [FilesNext]_filesVars /\ [SeedsNext]_seedsVars /\ [MetricsNext]_metricsVars
         /\ [LogNext]_logVars /\ [EventsNext]_eventVars
         /\ area' = area
<1>1. CASE UNCHANGED vars
  BY <1>1 DEF vars
<1>2. CASE Next
  <2>1. /\ area' = area
        /\ area # "accounts" => UNCHANGED accountsVars
        /\ area # "push" => UNCHANGED pushVars
        /\ area # "names" => UNCHANGED namesVars
        /\ area # "files" => UNCHANGED filesVars
        /\ area # "seeds" => UNCHANGED seedsVars
        /\ area # "metrics" => UNCHANGED metricsVars
        /\ area # "log" => UNCHANGED logVars
        /\ area # "events" => UNCHANGED eventVars
    <3>1. \A other \in Areas : other # area => Still(other)
      BY <1>2 DEF Next
    <3> QED
      BY <1>2, <3>1 DEF Next, Areas, Still
  <2> QED
    BY <1>2, <2>1 DEF Next
<1> QED
  BY <1>1, <1>2

-----------------------------------------------------------------------------
(* Push subscriptions. The table is finite, so that of the rows that are    *)
(* pruned there is a first one; the MaxSubs before it all stay.             *)

Rows(t) == {e \in Endpoints : t[e] # NoSub}
Tables == {t \in [Endpoints -> Sub \cup {NoSub}] : IsFiniteSet(Rows(t))}

LEMMA SubFacts ==
  /\ NoSub \notin Sub
  /\ \A s \in Sub : s.owner \in Owners /\ s.at \in Nat
BY PushAssumption DEF Sub, Levels

LEMMA UpsertedIsTable ==
  ASSUME PushTypeOK, subs \in Tables, NEW u \in Owners, NEW e \in Endpoints, NEW l \in Levels
  PROVE  /\ Upserted(u, e, l) \in Tables
         /\ Upserted(u, e, l)[e] # NoSub
         /\ \A g \in Endpoints : subs[g] # NoSub =>
               /\ Upserted(u, e, l)[g] # NoSub
               /\ Upserted(u, e, l)[g].owner = subs[g].owner
               /\ g # e => Upserted(u, e, l)[g] = subs[g]
<1> DEFINE new == [owner |-> u, at |-> ms, levels |-> l]
<1>1. new \in Sub /\ new # NoSub /\ new.owner = u
  BY SubFacts DEF PushTypeOK, Sub
<1>2. CASE subs[e] # NoSub /\ subs[e].owner # u
  BY <1>2 DEF Upserted
<1>3. CASE ~(subs[e] # NoSub /\ subs[e].owner # u)
  <2>1. Upserted(u, e, l) = [subs EXCEPT ![e] = new]
    BY <1>3 DEF Upserted
  <2> HIDE DEF new
  <2>2. [subs EXCEPT ![e] = new] \in [Endpoints -> Sub \cup {NoSub}]
    BY <1>1 DEF Tables
  <2>3. \A g \in Endpoints : [subs EXCEPT ![e] = new][g] = IF g = e THEN new ELSE subs[g]
    BY DEF Tables
  <2>4. Rows([subs EXCEPT ![e] = new]) \subseteq Rows(subs) \cup {e}
    BY <2>3 DEF Rows
  <2>5. IsFiniteSet(Rows([subs EXCEPT ![e] = new]))
    BY <2>4, FS_AddElement, FS_Subset DEF Tables
  <2> QED
    BY <1>1, <1>3, <2>1, <2>2, <2>3, <2>5 DEF Tables
<1> QED
  BY <1>2, <1>3

\* Among the rows of a user that fewer than MaxSubs others do not precede there is a first one.
LEMMA PruneKeepsMax ==
  ASSUME NEW t \in Tables, NEW u \in Owners, NEW new \in Endpoints,
         NEW e \in OwnedBy(t, u),
         Cardinality({f \in OwnedBy(t, u) : Before(t, f, e)}) >= MaxSubs
  PROVE  Cardinality({f \in OwnedBy(Pruned(t, u, new), u) : Pruned(t, u, new)[f].at >= t[e].at}) >= MaxSubs
<1> DEFINE O == OwnedBy(t, u)
           Ahead(f) == {g \in O : Before(t, g, f)}
           Over == {f \in O : Cardinality(Ahead(f)) >= MaxSubs}
           kept == Pruned(t, u, new)
           Newer == {f \in OwnedBy(kept, u) : kept[f].at >= t[e].at}
<1>1. IsFiniteSet(O) /\ O \subseteq Endpoints
  BY FS_Subset DEF Tables, Rows, OwnedBy
<1>2. \A f \in O : t[f].at \in Nat /\ f \in Nat
  BY SubFacts, PushAssumption DEF Tables, OwnedBy
<1>3. /\ \A f, g, h \in O : Before(t, f, g) /\ Before(t, g, h) => Before(t, f, h)
      /\ \A f \in O : ~Before(t, f, f)
      /\ \A f, g \in O : f = g \/ Before(t, f, g) \/ Before(t, g, f)
      /\ \A f, g \in O : Before(t, f, g) => t[f].at >= t[g].at
  BY <1>2 DEF Before
<1>4. \A f, g \in O : Before(t, f, g) => Ahead(f) \subseteq Ahead(g) /\ Ahead(f) # Ahead(g)
  <2> SUFFICES ASSUME NEW f \in O, NEW g \in O, Before(t, f, g)
               PROVE  Ahead(f) \subseteq Ahead(g) /\ f \in Ahead(g) /\ f \notin Ahead(f)
    OBVIOUS
  <2> QED
    BY <1>3
<1>5. PICK m \in Over : \A f \in Over : ~Before(t, f, m)
  <2> DEFINE Sets == {Ahead(f) : f \in Over}
  <2>1. Sets \subseteq FiniteSubsetsOf(O)
    BY <1>1, FS_FiniteSubsetsOfFinite
  <2>2. Sets # {}
    OBVIOUS
  <2> HIDE DEF Sets, Ahead, Over, O
  <2>3. PICK x \in Sets : \A y \in Sets : ~(<<y, x>> \in StrictSubsetOrdering(O))
    BY <2>1, <2>2, FS_StrictSubsetOrderingWellFounded, WFMin
  <2>4. PICK m \in Over : x = Ahead(m)
    BY DEF Sets
  <2>5. ASSUME NEW f \in Over, Before(t, f, m) PROVE FALSE
    <3>1. Ahead(f) \subseteq Ahead(m) /\ Ahead(f) # Ahead(m)
      BY <1>4, <2>5 DEF Over
    <3>2. Ahead(f) \in SUBSET O /\ Ahead(m) \in SUBSET O
      BY DEF Ahead
    <3>3. <<Ahead(f), Ahead(m)>> \in StrictSubsetOrdering(O)
      BY <3>1, <3>2 DEF StrictSubsetOrdering
    <3> QED
      BY <2>3, <2>4, <3>3 DEF Sets
  <2> QED
    BY <2>5
<1>6. t[m].at >= t[e].at
  <2>1. e \in Over
    OBVIOUS
  <2>2. e = m \/ Before(t, m, e)
    BY <1>3, <1>5, <2>1
  <2> QED
    BY <1>2, <1>3, <2>2
<1>7. ASSUME NEW f \in Ahead(m) PROVE f \in Newer
  <2>1. f \in O /\ f \notin Over /\ t[f].at >= t[m].at
    BY <1>3, <1>5, <1>7
  <2>2. kept[f] = t[f]
    BY <1>1, <2>1 DEF Pruned
  <2> QED
    BY <1>1, <1>2, <1>6, <2>1, <2>2 DEF OwnedBy
<1>8. IsFiniteSet(Newer)
  <2>1. \A f \in Endpoints : kept[f] # NoSub => kept[f] = t[f]
    BY DEF Pruned
  <2>2. Newer \subseteq O
    BY <2>1 DEF OwnedBy
  <2> QED
    BY <1>1, <2>2, FS_Subset
<1>9. /\ Cardinality(Ahead(m)) <= Cardinality(Newer) /\ Cardinality(Ahead(m)) >= MaxSubs
      /\ Cardinality(Ahead(m)) \in Nat /\ Cardinality(Newer) \in Nat
  <2>1. Ahead(m) \in SUBSET Newer
    BY <1>7
  <2> HIDE DEF Ahead, Newer
  <2> QED
    BY <1>8, <2>1, FS_Subset, FS_CardinalityType DEF Over
<1> HIDE DEF Ahead, Newer
<1>10. Cardinality(Newer) >= MaxSubs
  BY <1>9, PushAssumption
<1> QED
  BY <1>10 DEF Newer

LEMMA PushTypesStep ==
  ASSUME PushTypeOK, [PushNext]_pushVars, subs' \in [Endpoints -> Sub \cup {NoSub}]
  PROVE  PushTypeOK'
<1>1. MaxSends \in Nat /\ MaxCalls \in Nat /\ MaxMs \in Nat
  BY PushAssumption
<1>2. CASE UNCHANGED pushVars
  BY <1>2 DEF pushVars, PushTypeOK
<1>3. ASSUME NEW u \in Owners, NEW e \in Endpoints, Unsubscribe(u, e) \/ \E l \in Levels : Subscribe(u, e, l)
      PROVE  PushTypeOK'
  BY <1>1, <1>3 DEF Unsubscribe, Subscribe, PushTypeOK
<1>4. ASSUME NEW u \in Owners, NEW kind \in PushLevels \cup {"test"}, Send(u, kind)
      PROVE  PushTypeOK'
  <2>1. [id |-> calls.send + 1, left |-> {e \in OwnedBy(subs, u) : Allowed(kind, subs[e].levels)}]
          \in [id: 1..MaxSends, left: SUBSET Endpoints]
    BY <1>1, <1>4 DEF Send, PushTypeOK, OwnedBy
  <2>2. calls' \in [ask: 0..MaxCalls, send: 0..MaxSends]
    BY <1>1, <1>4 DEF Send, PushTypeOK
  <2> QED
    BY <1>4, <2>1, <2>2 DEF Send, PushTypeOK
<1>5. ASSUME NEW s \in sends, NothingToSend(s) \/ \E e \in Endpoints : Deliver(s, e)
      PROVE  PushTypeOK'
  <2>1. s \in [id: 1..MaxSends, left: SUBSET Endpoints]
    BY DEF PushTypeOK
  <2>2. sends' \subseteq [id: 1..MaxSends, left: SUBSET Endpoints]
    BY <1>5, <2>1 DEF NothingToSend, Deliver, PushTypeOK
  <2> QED
    BY <1>5, <2>2 DEF NothingToSend, Deliver, PushTypeOK
<1>6. ASSUME NEW e \in Endpoints, GiveUpEndpoint(e) PROVE PushTypeOK'
  BY <1>6 DEF GiveUpEndpoint, PushTypeOK
<1>7. CASE Millisecond
  <2>1. ms' \in 0..MaxMs
    BY <1>1, <1>7 DEF Millisecond, PushTypeOK
  <2>2. Sub' = Sub
    BY DEF Sub
  <2> QED
    BY <1>7, <2>1 DEF Millisecond, PushTypeOK
<1> QED
  BY <1>2, <1>3, <1>4, <1>5, <1>6, <1>7 DEF PushNext

LEMMA PushStep ==
  ASSUME PushTypeOK, subs \in Tables, [PushNext]_pushVars
  PROVE  PushTypeOK' /\ (subs \in Tables)' /\ [SubscriptionStep]_pushVars
<1>t. subs \in [Endpoints -> Sub \cup {NoSub}] /\ IsFiniteSet(Rows(subs))
  BY DEF Tables
<1>1. ASSUME NEW u \in Owners, NEW e \in Endpoints, NEW l \in Levels, Subscribe(u, e, l)
      PROVE  subs' \in Tables /\ SubscriptionStep
  <2> DEFINE t == Upserted(u, e, l)
  <2>1. /\ t \in Tables /\ t[e] # NoSub
        /\ \A g \in Endpoints : subs[g] # NoSub =>
              t[g] # NoSub /\ t[g].owner = subs[g].owner /\ (g # e => t[g] = subs[g])
    BY UpsertedIsTable
  <2>2. subs' = Pruned(t, u, e) /\ asked' = <<"subscribe", u, e>>
    BY <1>1 DEF Subscribe
  <2> HIDE DEF t
  <2>3. t \in [Endpoints -> Sub \cup {NoSub}] /\ IsFiniteSet(Rows(t))
    BY <2>1 DEF Tables
  <2>4. ASSUME NEW g \in Endpoints
        PROVE  \/ subs'[g] = t[g]
               \/ /\ subs'[g] = NoSub /\ g # e /\ g \in OwnedBy(t, u)
                  /\ Cardinality({f \in OwnedBy(t, u) : Before(t, f, g)}) >= MaxSubs
    BY <2>2 DEF Pruned
  <2>5. subs' \in Tables
    <3>1. subs' \in [Endpoints -> Sub \cup {NoSub}]
      BY <2>2, <2>3 DEF Pruned
    <3>2. Rows(subs') \subseteq Rows(t)
      BY <2>4 DEF Rows
    <3> QED
      BY <2>3, <3>1, <3>2, FS_Subset DEF Tables
  <2>6. subs'[e] # NoSub
    BY <2>1, <2>4
  <2>7. ASSUME NEW g \in Endpoints, subs[g] # NoSub, subs'[g] # t[g]
        PROVE  /\ subs[g].owner = u /\ g # e
               /\ Cardinality({f \in OwnedBy(subs', u) : subs'[f].at >= subs[g].at}) >= MaxSubs
    <3>1. g \in OwnedBy(t, u) /\ g # e /\ Cardinality({f \in OwnedBy(t, u) : Before(t, f, g)}) >= MaxSubs
      BY <2>4, <2>7
    <3>2. subs[g] = t[g] /\ subs[g].owner = u
      BY <2>1, <2>7, <3>1 DEF OwnedBy
    <3>3. Cardinality({f \in OwnedBy(Pruned(t, u, e), u) : Pruned(t, u, e)[f].at >= t[g].at}) >= MaxSubs
      BY <2>1, <3>1, PruneKeepsMax
    <3> QED
      BY <2>2, <3>1, <3>2, <3>3
  <2>8. SubscriptionStep
    <3> SUFFICES ASSUME NEW g \in Endpoints
                 PROVE  /\ \A v \in Owners : asked' = <<"subscribe", v, g>> => subs'[g] # NoSub
                        /\ subs[g] # NoSub =>
                             \/ subs'[g] # NoSub /\ subs'[g].owner = subs[g].owner
                             \/ /\ \E f \in Endpoints \ {g} : asked' = <<"subscribe", subs[g].owner, f>>
                                /\ Cardinality({f \in OwnedBy(subs', subs[g].owner) : subs'[f].at >= subs[g].at}) >= MaxSubs
      BY DEF SubscriptionStep
    <3>1. \A v \in Owners : asked' = <<"subscribe", v, g>> => g = e
      BY <2>2
    <3>2. CASE subs'[g] = t[g]
      BY <2>1, <2>6, <3>1, <3>2
    <3>3. CASE subs'[g] # t[g] /\ subs[g] # NoSub
      BY <2>2, <2>6, <2>7, <3>1, <3>3
    <3> QED
      BY <2>1, <2>6, <3>1, <3>2, <3>3
  <2> QED
    BY <2>5, <2>8
<1>2. ASSUME NEW u \in Owners, NEW e \in Endpoints, Unsubscribe(u, e)
      PROVE  subs' \in Tables /\ SubscriptionStep
  <2>1. asked' = <<"unsubscribe", u, e>> /\ \A v, g : asked' # <<"subscribe", v, g>>
    BY <1>2 DEF Unsubscribe
  <2>2. CASE subs' = subs
    BY <2>1, <2>2, <1>t DEF Tables, SubscriptionStep
  <2>3. CASE e \in OwnedBy(subs, u) /\ subs' = [subs EXCEPT ![e] = NoSub]
    <3>1. subs' \in [Endpoints -> Sub \cup {NoSub}] /\ Rows(subs') \subseteq Rows(subs)
      BY <1>t, <2>3 DEF Rows
    <3>2. \A g \in Endpoints : g # e => subs'[g] = subs[g]
      BY <1>t, <2>3
    <3>3. subs[e].owner = u
      BY <2>3 DEF OwnedBy
    <3> QED
      BY <1>t, <2>1, <3>1, <3>2, <3>3, FS_Subset DEF Tables, SubscriptionStep
  <2> QED
    BY <1>2, <2>2, <2>3 DEF Unsubscribe
<1>3. ASSUME NEW s \in sends, NEW e \in Endpoints, Deliver(s, e)
      PROVE  subs' \in Tables /\ SubscriptionStep
  <2>1. \A v, g : asked' # <<"subscribe", v, g>>
    BY <1>3 DEF Deliver
  <2>2. CASE subs' = subs
    BY <2>1, <2>2, <1>t DEF Tables, SubscriptionStep
  <2>3. CASE e \in dead /\ subs' = [subs EXCEPT ![e] = NoSub]
    <3>1. subs' \in [Endpoints -> Sub \cup {NoSub}] /\ Rows(subs') \subseteq Rows(subs)
      BY <1>t, <2>3 DEF Rows
    <3>2. \A g \in Endpoints : g # e => subs'[g] = subs[g]
      BY <1>t, <2>3
    <3> QED
      BY <1>t, <2>1, <2>3, <3>1, <3>2, FS_Subset DEF Tables, SubscriptionStep
  <2> QED
    BY <1>3, <2>2, <2>3 DEF Deliver
<1>4. ASSUME asked' = <<>>, subs' = subs PROVE subs' \in Tables /\ SubscriptionStep
  <2>1. \A v, g : asked' # <<"subscribe", v, g>>
    BY <1>4
  <2> QED
    BY <1>4, <2>1 DEF SubscriptionStep
<1>5. CASE PushNext
  <2>1. subs' \in Tables /\ SubscriptionStep
    BY <1>1, <1>2, <1>3, <1>4, <1>5 DEF PushNext, Send, NothingToSend, GiveUpEndpoint, Millisecond
  <2>2. PushTypeOK'
    BY <2>1, PushTypesStep DEF Tables
  <2>3. Tables' = Tables
    BY DEF Tables, Rows, Sub
  <2> QED
    BY <2>1, <2>2, <2>3
<1>6. CASE UNCHANGED pushVars
  <2>1. PushTypeOK' /\ subs' = subs
    BY <1>6, PushTypesStep, <1>t DEF pushVars
  <2> QED
    BY <1>6, <2>1 DEF Tables, Rows, Sub
<1> QED
  BY <1>5, <1>6

\* ChoicesStand, the part of web push: a subscription goes only by its owner's
\* unsubscribe, with a device that is gone, or as the oldest of an owner past the cap.
THEOREM SubscriptionsStandHolds == Spec => SubscriptionsStand /\ []PushTypeOK
<1> DEFINE Table == subs \in Tables
<1>1. Init => PushTypeOK /\ Table
  <2> SUFFICES ASSUME Init PROVE PushTypeOK /\ subs \in Tables
    OBVIOUS
  <2>1. PushTypeOK
    BY PushAssumption DEF Init, PushInit, PushTypeOK
  <2>2. Rows(subs) = {}
    BY DEF Init, PushInit, Rows
  <2> QED
    BY <2>1, <2>2, FS_EmptySet DEF PushTypeOK, Tables
<1>2. PushTypeOK /\ Table /\ [PushNext]_pushVars => PushTypeOK' /\ Table' /\ [SubscriptionStep]_pushVars
  BY PushStep
<1>3. [Next]_vars => [PushNext]_pushVars
  BY EachStays
<1> HIDE DEF Table
<1> QED
  BY <1>1, <1>2, <1>3, PTL DEF Spec, SubscriptionsStand

-----------------------------------------------------------------------------
(* The name of a session. While it may still be replaced, no title has      *)
(* been given by this process and no rename has been answered.              *)

AutoIsUntouched ==
  /\ mem.auto => given = 0 /\ ~answered
  /\ store.auto => ~answered
  /\ \A r \in Renames : renames[r] = "storeAuto" => ~mem.auto

\* A titler past its first look has a title.
TitlersHaveTitles ==
  \A k \in 1..MaxTitlers : titlers[k].pc \in {"title", "store"} => titlers[k].title # NoName

NamesInv == NamesTypeOK /\ AutoIsUntouched /\ TitlersHaveTitles

TitlerPcs == {"none", "asking", "title", "store", "storeAuto", "done"}

LEMMA RecordFacts ==
  /\ Absent.auto = FALSE
  /\ \A r \in Record \cup {Absent} :
       /\ r.auto \in BOOLEAN /\ Locked(r) \in Record \cup {Absent} /\ Locked(r).auto = FALSE
       /\ \A n \in Names : SetName(r, n) \in Record \cup {Absent} /\ SetName(r, n).auto = r.auto
<1>1. Absent.auto = FALSE
  BY DEF Absent
<1>2. ASSUME NEW r \in Record, r # Absent
      PROVE  /\ r.auto \in BOOLEAN /\ Locked(r) \in Record /\ Locked(r).auto = FALSE
             /\ \A n \in Names : SetName(r, n) \in Record /\ SetName(r, n).auto = r.auto
  BY <1>2 DEF Record, Locked, SetName
<1>3. Locked(Absent) = Absent /\ \A n : SetName(Absent, n) = Absent
  BY DEF Locked, SetName
<1> QED
  BY <1>1, <1>2, <1>3

LEMMA TitlerMoves ==
  ASSUME NamesInv, NEW k \in 1..MaxTitlers, NEW pc \in TitlerPcs, TitlerTo(k, pc),
         pc \in {"title", "store"} => titlers[k].title # NoName
  PROVE  /\ titlers' \in [1..MaxTitlers -> [pc: TitlerPcs, title: Titles \cup {NoName}]]
         /\ TitlersHaveTitles'
<1>1. titlers \in [1..MaxTitlers -> [pc: TitlerPcs, title: Titles \cup {NoName}]]
  BY DEF NamesInv, NamesTypeOK, TitlerPcs
<1>2. titlers' = [titlers EXCEPT ![k].pc = pc]
  BY DEF TitlerTo
<1>3. titlers' \in [1..MaxTitlers -> [pc: TitlerPcs, title: Titles \cup {NoName}]]
  BY <1>1, <1>2
<1>4. \A j \in 1..MaxTitlers : /\ titlers'[j].title = titlers[j].title
                               /\ titlers'[j].pc = IF j = k THEN pc ELSE titlers[j].pc
  BY <1>1, <1>2
<1> QED
  BY <1>3, <1>4 DEF NamesInv, TitlersHaveTitles

LEMMA RenameStep ==
  ASSUME NamesInv, NEW r \in Renames,
         RenameApply(r) \/ RenameStore(r) \/ RenameLock(r) \/ RenameAnswer(r)
  PROVE  NamesInv' /\ given' = given
<1>t. /\ mem \in Record \cup {Absent} /\ store \in Record \cup {Absent} /\ r \in Names
      /\ renames \in [Renames -> {"new", "store", "lock", "storeAuto", "done", "failed"}]
  BY DEF NamesInv, NamesTypeOK, Names
<1>1. renames' \in [Renames -> {"new", "store", "lock", "storeAuto", "done", "failed"}]
  BY <1>t DEF RenameApply, RenameStore, RenameLock, RenameAnswer, RenameTo
<1>2. /\ \A q \in Renames : q # r => renames'[q] = renames[q]
      /\ renames'[r] = "storeAuto" => RenameLock(r)
  BY <1>t DEF RenameApply, RenameStore, RenameLock, RenameAnswer, RenameTo
<1>3. /\ mem' \in Record \cup {Absent} /\ store' \in Record \cup {Absent}
      /\ mem'.auto => mem.auto
      /\ RenameLock(r) => ~mem'.auto
      /\ store'.auto => store.auto
      /\ RenameAnswer(r) => ~store'.auto /\ mem' = mem /\ renames[r] = "storeAuto"
  BY <1>t, RecordFacts DEF RenameApply, RenameStore, RenameLock, RenameAnswer
<1>4. /\ UNCHANGED <<titled, titlers, given, starts>>
      /\ answered' = answered \/ (RenameAnswer(r) /\ answered' = TRUE)
  BY DEF RenameApply, RenameStore, RenameLock, RenameAnswer
<1>5. AutoIsUntouched'
  BY <1>t, <1>2, <1>3, <1>4 DEF NamesInv, AutoIsUntouched
<1> QED
  BY <1>1, <1>3, <1>4, <1>5 DEF NamesInv, NamesTypeOK, TitlersHaveTitles

LEMMA TitlerStep ==
  ASSUME NamesInv, NEW k \in 1..MaxTitlers,
         TitlerEnds(k) \/ TitlerSets(k) \/ TitlerStore(k) \/ TitlerStoreAuto(k)
  PROVE  NamesInv' /\ (given' > given => given = 0 /\ ~answered)
<1>t. /\ mem \in Record \cup {Absent} /\ store \in Record \cup {Absent} /\ given \in 0..MaxTitlers
      /\ titlers \in [1..MaxTitlers -> [pc: TitlerPcs, title: Titles \cup {NoName}]]
      /\ MaxTitlers \in Nat
  BY NamesAssumption DEF NamesInv, NamesTypeOK, TitlerPcs
<1>1. /\ titlers[k].pc \in {"title", "store"} => titlers[k].title \in Titles
      /\ Titles \subseteq Names
  BY <1>t DEF NamesInv, TitlersHaveTitles, Names
<1>2. CASE TitlerEnds(k)
  <2>1. CASE TitlerTo(k, "done")
    BY <1>2, <2>1, TitlerMoves DEF TitlerEnds, NamesInv, NamesTypeOK, AutoIsUntouched, TitlerPcs
  <2>2. ASSUME NEW t \in CleanTitles,
               titlers' = [titlers EXCEPT ![k] =
                  [pc |-> IF t # NoName /\ mem.auto THEN "title" ELSE "done", title |-> t]]
        PROVE  NamesInv'
    <3> DEFINE new == [pc |-> IF t # NoName /\ mem.auto THEN "title" ELSE "done", title |-> t]
    <3>1. new \in [pc: TitlerPcs, title: Titles \cup {NoName}]
          /\ (new.pc \in {"title", "store"} => new.title # NoName)
      BY DEF TitlerPcs, CleanTitles
    <3> HIDE DEF new
    <3>2. titlers' \in [1..MaxTitlers -> [pc: TitlerPcs, title: Titles \cup {NoName}]]
      BY <1>t, <2>2, <3>1 DEF new
    <3>3. \A j \in 1..MaxTitlers : titlers'[j] = IF j = k THEN new ELSE titlers[j]
      BY <1>t, <2>2 DEF new
    <3>4. TitlersHaveTitles'
      BY <3>1, <3>3 DEF NamesInv, TitlersHaveTitles
    <3> QED
      BY <1>2, <3>2, <3>4 DEF TitlerEnds, NamesInv, NamesTypeOK, AutoIsUntouched, TitlerPcs
  <2> QED
    BY <1>t, <1>2, <2>1, <2>2 DEF TitlerEnds
<1>3. CASE TitlerSets(k)
  <2>1. CASE mem.auto
    <3>1. given = 0 /\ ~answered /\ titlers[k].title \in Names /\ titlers[k].title # NoName
      BY <1>1, <1>3, <2>1 DEF NamesInv, AutoIsUntouched, TitlerSets, TitlersHaveTitles
    <3>2. /\ mem' = [name |-> titlers[k].title, auto |-> FALSE] /\ given' = given + 1
          /\ TitlerTo(k, "store") /\ UNCHANGED <<store, renames, titled, answered, starts>>
      BY <1>3, <2>1 DEF TitlerSets
    <3>3. mem' \in Record /\ ~mem'.auto
      BY <3>1, <3>2 DEF Record
    <3>4. given' \in 0..MaxTitlers
      BY <1>t, <3>1, <3>2
    <3>5. /\ titlers' \in [1..MaxTitlers -> [pc: TitlerPcs, title: Titles \cup {NoName}]]
          /\ TitlersHaveTitles'
      BY <3>1, <3>2, TitlerMoves DEF TitlerPcs
    <3> QED
      BY <3>1, <3>2, <3>3, <3>4, <3>5
         DEF NamesInv, NamesTypeOK, AutoIsUntouched, TitlerPcs
  <2>2. CASE ~mem.auto
    <3>1. TitlerTo(k, "done") /\ UNCHANGED <<mem, given, store, renames, titled, answered, starts>>
      BY <1>3, <2>2 DEF TitlerSets
    <3>2. /\ titlers' \in [1..MaxTitlers -> [pc: TitlerPcs, title: Titles \cup {NoName}]]
          /\ TitlersHaveTitles'
      BY <3>1, TitlerMoves DEF TitlerPcs
    <3> QED
      BY <1>t, <3>1, <3>2 DEF NamesInv, NamesTypeOK, AutoIsUntouched, TitlerPcs
  <2> QED
    BY <2>1, <2>2
<1>4. CASE TitlerStore(k) \/ TitlerStoreAuto(k)
  <2>1. store' \in Record \cup {Absent} /\ (store'.auto => store.auto)
    <3>1. /\ TitlerStore(k) => titlers[k].title \in Names /\ store' = SetName(store, titlers[k].title)
          /\ TitlerStoreAuto(k) => store' = Locked(store)
      BY <1>1 DEF TitlerStore, TitlerStoreAuto
    <3>2. CASE TitlerStore(k)
      BY <1>t, <3>1, <3>2, RecordFacts
    <3>3. CASE TitlerStoreAuto(k)
      BY <1>t, <3>1, <3>3, RecordFacts
    <3> QED
      BY <1>4, <3>2, <3>3
  <2>2. /\ titlers' \in [1..MaxTitlers -> [pc: TitlerPcs, title: Titles \cup {NoName}]]
        /\ TitlersHaveTitles'
    BY <1>4, TitlerMoves DEF TitlerStore, TitlerStoreAuto, TitlerPcs
  <2>3. UNCHANGED <<mem, renames, titled, answered, given, starts>>
    BY <1>4 DEF TitlerStore, TitlerStoreAuto
  <2> QED
    BY <1>t, <2>1, <2>2, <2>3 DEF NamesInv, NamesTypeOK, AutoIsUntouched, TitlerPcs
<1> QED
  BY <1>2, <1>3, <1>4

LEMMA NamesStep ==
  ASSUME NamesInv, [NamesNext]_namesVars
  PROVE  NamesInv' /\ [given' > given => given = 0 /\ ~answered]_namesVars
<1>t. /\ mem \in Record \cup {Absent} /\ store \in Record \cup {Absent} /\ given \in 0..MaxTitlers
      /\ titlers \in [1..MaxTitlers -> [pc: TitlerPcs, title: Titles \cup {NoName}]]
      /\ renames \in [Renames -> {"new", "store", "lock", "storeAuto", "done", "failed"}]
      /\ MaxTitlers \in Nat /\ MaxStarts \in Nat /\ starts \in 0..MaxStarts
  BY NamesAssumption DEF NamesInv, NamesTypeOK, TitlerPcs
<1>1. CASE UNCHANGED namesVars
  <2>1. given' = given /\ ~(given > given)
    BY <1>t, <1>1 DEF namesVars
  <2> QED
    BY <1>1, <2>1 DEF namesVars, NamesInv, NamesTypeOK, AutoIsUntouched, TitlersHaveTitles
<1>2. CASE FirstResult
  <2>1. /\ titlers' \in [1..MaxTitlers -> [pc: TitlerPcs, title: Titles \cup {NoName}]]
        /\ TitlersHaveTitles'
    <3>1. CASE titlers' = titlers
      BY <1>t, <3>1 DEF NamesInv, TitlersHaveTitles
    <3>2. ASSUME NEW k \in 1..MaxTitlers, titlers' = [titlers EXCEPT ![k].pc = "asking"]
          PROVE  /\ titlers' \in [1..MaxTitlers -> [pc: TitlerPcs, title: Titles \cup {NoName}]]
                 /\ TitlersHaveTitles'
      BY <3>2, TitlerMoves DEF TitlerTo, TitlerPcs
    <3> QED
      BY <1>2, <3>1, <3>2 DEF FirstResult
  <2> QED
    BY <1>t, <1>2, <2>1 DEF FirstResult, NamesInv, NamesTypeOK, AutoIsUntouched, TitlerPcs
<1>3. CASE FanoutAgain
  <2>1. /\ titled' = FALSE /\ UNCHANGED <<mem, store, renames, titlers, answered, given, starts>>
        /\ ~(given' > given)
    BY <1>t, <1>3 DEF FanoutAgain
  <2> QED
    BY <1>t, <2>1 DEF NamesInv, NamesTypeOK, AutoIsUntouched, TitlersHaveTitles
<1>4. CASE RemoveNamed
  <2>1. given' = given /\ ~(given > given) /\ mem' = Absent /\ store' = Absent /\ Absent \in Record \cup {Absent}
    BY <1>t, <1>4 DEF RemoveNamed
  <2> QED
    BY <1>t, <1>4, <2>1, RecordFacts DEF RemoveNamed, NamesInv, NamesTypeOK, AutoIsUntouched, TitlersHaveTitles
<1>5. CASE RestartNamed
  <2>1. /\ renames' \in [Renames -> {"new", "store", "lock", "storeAuto", "done", "failed"}]
        /\ \A r \in Renames : renames'[r] # "storeAuto"
    BY <1>t, <1>5 DEF RestartNamed
  <2>2. ASSUME NEW k \in 1..MaxTitlers
        PROVE  /\ titlers'[k] \in [pc: TitlerPcs, title: Titles \cup {NoName}]
               /\ titlers'[k].pc \notin {"title", "store"}
    <3>1. titlers'[k] = IF titlers[k].pc = "none" THEN titlers[k] ELSE [titlers[k] EXCEPT !.pc = "done"]
      BY <1>5 DEF RestartNamed
    <3>2. titlers[k] \in [pc: TitlerPcs, title: Titles \cup {NoName}]
      BY <1>t
    <3> QED
      BY <3>1, <3>2 DEF TitlerPcs
  <2>3. titlers' \in [1..MaxTitlers -> [pc: TitlerPcs, title: Titles \cup {NoName}]]
    <3>1. titlers' = [k \in 1..MaxTitlers |-> titlers'[k]]
      BY <1>5 DEF RestartNamed
    <3> QED
      BY <2>2, <3>1
  <2>4. /\ mem' = store /\ store' = store /\ given' = 0 /\ answered' = answered
        /\ titled' = FALSE /\ starts' \in 0..MaxStarts
    BY <1>t, <1>5 DEF RestartNamed
  <2>5. ~(given' > given) /\ given' \in 0..MaxTitlers
    BY <1>t, <2>4
  <2> QED
    BY <1>t, <2>1, <2>2, <2>3, <2>4, <2>5
       DEF NamesInv, NamesTypeOK, AutoIsUntouched, TitlersHaveTitles, TitlerPcs
<1>6. ASSUME NEW r \in Renames, RenameApply(r) \/ RenameStore(r) \/ RenameLock(r) \/ RenameAnswer(r)
      PROVE  NamesInv' /\ (given' > given => given = 0 /\ ~answered)
  BY <1>t, <1>6, RenameStep
<1> QED
  BY <1>1, <1>2, <1>3, <1>4, <1>5, <1>6, TitlerStep DEF NamesNext

\* ChoicesStand, the part of the names: one title for a session in a process, and
\* none once a rename has been answered.
THEOREM TitleYieldsHolds == Spec => TitleYields /\ []NamesTypeOK
<1>1. Init => NamesInv
  <2> SUFFICES ASSUME Init PROVE NamesInv
    OBVIOUS
  <2>1. mem \in Record /\ store = mem
    <3>1. mem = [name |-> DefaultName, auto |-> TRUE] /\ store = mem
      BY DEF Init, NamesInit
    <3> QED
      BY <3>1 DEF Record, Names
  <2>2. NamesTypeOK
    <3>1. titlers \in [1..MaxTitlers -> [pc: TitlerPcs, title: Titles \cup {NoName}]]
      BY DEF Init, NamesInit, NoTitler, TitlerPcs
    <3>2. given \in 0..MaxTitlers /\ starts \in 0..MaxStarts
      <4>1. given = 0 /\ starts = 0
        BY DEF Init, NamesInit
      <4>2. MaxTitlers \in Nat /\ MaxStarts \in Nat
        BY NamesAssumption
      <4> QED
        BY <4>1, <4>2
    <3>3. titled \in BOOLEAN /\ answered \in BOOLEAN
      BY DEF Init, NamesInit
    <3>4. renames \in [Renames -> {"new", "store", "lock", "storeAuto", "done", "failed"}]
      BY DEF Init, NamesInit
    <3> QED
      BY <2>1, <3>1, <3>2, <3>3, <3>4 DEF NamesTypeOK, TitlerPcs
  <2> QED
    BY <2>2 DEF Init, NamesInit, NamesInv, AutoIsUntouched, TitlersHaveTitles, NoTitler
<1>2. NamesInv /\ [NamesNext]_namesVars => NamesInv' /\ [given' > given => given = 0 /\ ~answered]_namesVars
  BY NamesStep
<1>3. NamesInv => NamesTypeOK
  BY DEF NamesInv
<1>4. [Next]_vars => [NamesNext]_namesVars
  BY EachStays
<1> QED
  BY <1>1, <1>2, <1>3, <1>4, PTL DEF Spec, TitleYields

-----------------------------------------------------------------------------
(* The files of a workspace. An upload's inode is its own from the moment   *)
(* it is created; who takes it from its name has meddled and stays the one  *)
(* who has.                                                                 *)

\* A directory that is gone had been emptied.
GoneIsEmpty == ~there => \A n \in FileNames : dir[n] = Nobody

\* What a request holds, by where it is.
HeldByPc ==
  /\ \A r \in Reqs : at[r] = "new" => fd[r] = Nobody /\ listed[r] = {}
  /\ \A r \in Uploads : at[r] = "open" => fd[r] = Nobody
  /\ \A r \in Uploads : at[r] \in {"write", "ok"} => fd[r] = r
  /\ \A r \in Reqs : listed[r] # {} => r \in Rmdirs

\* An upload's file is found under its name unless somebody meddled.
UploadFound ==
  \A r \in Uploads : at[r] \in {"write", "ok"} => dir[name[r]] = r \/ Meddled(name[r])

Opened(i) == \E w \in Writes : fd[w] = i

\* What was written is still there unless a write opened it.
BytesHeld ==
  /\ bytes[OldFile] = OldFile \/ Opened(OldFile)
  /\ \A r \in Uploads : at[r] = "ok" => bytes[r] = r \/ Opened(r)

FilesInv == FilesTypeOK /\ GoneIsEmpty /\ HeldByPc /\ UploadFound /\ BytesHeld

\* Who has ended stays as he is, and nobody begins again.
Onward ==
  /\ \A q \in Reqs : at[q] # "new" => at'[q] # "new"
  /\ \A q \in Reqs : at[q] = "ok" => at'[q] = "ok" /\ name'[q] = name[q] /\ dest'[q] = dest[q]

FileActs(r) ==
  \/ UploadAsked(r) \/ CreateNew(r) \/ UploadWritten(r) \/ WriteWritten(r)
  \/ \E n \in FileNames : \/ WriteOpens(r, n) \/ DeleteChecks(r, n) \/ RmdirUnlinks(r, n)
                          \/ \E m \in FileNames : RenameChecks(r, n, m)
  \/ DeleteActs(r) \/ RenameActs(r) \/ RmdirLists(r) \/ RmdirEnds(r) \/ MkdirActs(r)

LEMMA KindFacts ==
  /\ Uploads \subseteq Reqs /\ Writes \subseteq Reqs /\ Deletes \subseteq Reqs
  /\ FileRenames \subseteq Reqs /\ Rmdirs \subseteq Reqs /\ Mkdirs \subseteq Reqs
  /\ \A r \in Uploads : r \notin Writes \cup Deletes \cup FileRenames \cup Rmdirs \cup Mkdirs
  /\ \A r \in Reqs : r # Nobody /\ r # OldFile
  /\ OldFile # Nobody /\ Reqs \subseteq Inodes /\ OldFile \in Inodes
  /\ Candidates \in Nat \ {0} /\ 1 \in FileNames
<1> DEFINE kinds == <<Uploads, Writes, Deletes, FileRenames, Rmdirs, Mkdirs>>
<1>1. /\ Uploads \subseteq Reqs /\ Writes \subseteq Reqs /\ Deletes \subseteq Reqs
      /\ FileRenames \subseteq Reqs /\ Rmdirs \subseteq Reqs /\ Mkdirs \subseteq Reqs
  BY FilesAssumption
<1>2. \A i, j \in 1..6 : i # j => kinds[i] \cap kinds[j] = {}
  BY FilesAssumption
<1>3. \A j \in 2..6 : Uploads \cap kinds[j] = {}
  BY <1>2
<1>4. /\ kinds[2] = Writes /\ kinds[3] = Deletes /\ kinds[4] = FileRenames
      /\ kinds[5] = Rmdirs /\ kinds[6] = Mkdirs
  OBVIOUS
<1> HIDE DEF kinds
<1>5. \A r \in Uploads : r \notin Writes \cup Deletes \cup FileRenames \cup Rmdirs \cup Mkdirs
  BY <1>3, <1>4
<1>6. /\ \A r \in Reqs : r # Nobody /\ r # OldFile
      /\ OldFile # Nobody /\ Reqs \subseteq Inodes /\ OldFile \in Inodes
  BY FilesAssumption DEF Nobody, Inodes
<1>7. Candidates \in Nat \ {0} /\ 1 \in FileNames
  BY FilesAssumption DEF FileNames
<1> QED
  BY <1>1, <1>5, <1>6, <1>7

\* Every step moves one request, from where it was onward.
LEMMA OneMoves ==
  ASSUME FilesTypeOK, NEW r \in Reqs, FileActs(r)
  PROVE  /\ at[r] \in {"new", "open", "write", "act"}
         /\ at'[r] \in {"open", "write", "act", "ok", "failed"}
         /\ at' \in [Reqs -> {"new", "open", "write", "act", "ok", "failed"}]
         /\ name' \in [Reqs -> FileNames] /\ dest' \in [Reqs -> FileNames]
         /\ \A q \in Reqs : q # r => at'[q] = at[q] /\ name'[q] = name[q] /\ dest'[q] = dest[q]
<1>t. /\ at \in [Reqs -> {"new", "open", "write", "act", "ok", "failed"}]
      /\ name \in [Reqs -> FileNames] /\ dest \in [Reqs -> FileNames]
  BY DEF FilesTypeOK
<1>1. ASSUME at[r] \in {"new", "open", "write", "act"},
             NEW pc \in {"open", "write", "act", "ok", "failed"}, at' = [at EXCEPT ![r] = pc],
             NEW n \in FileNames, name' = [name EXCEPT ![r] = n],
             NEW m \in FileNames, dest' = [dest EXCEPT ![r] = m]
      PROVE  /\ at'[r] \in {"open", "write", "act", "ok", "failed"}
             /\ at' \in [Reqs -> {"new", "open", "write", "act", "ok", "failed"}]
             /\ name' \in [Reqs -> FileNames] /\ dest' \in [Reqs -> FileNames]
             /\ \A q \in Reqs : q # r => at'[q] = at[q] /\ name'[q] = name[q] /\ dest'[q] = dest[q]
  BY <1>t, <1>1
<1>2. /\ at = [at EXCEPT ![r] = at[r]] /\ name = [name EXCEPT ![r] = name[r]]
      /\ dest = [dest EXCEPT ![r] = dest[r]]
  BY <1>t
<1>3. name[r] \in FileNames /\ dest[r] \in FileNames
  BY <1>t
<1>4. at[r] \in {"new", "open", "write", "act"}
  BY DEF FileActs, UploadAsked, CreateNew, UploadWritten, WriteWritten, WriteOpens, DeleteChecks,
     RmdirUnlinks, RenameChecks, DeleteActs, RenameActs, RmdirLists, RmdirEnds, MkdirActs
<1>5. \E pc \in {"open", "write", "act", "ok", "failed"} : at' = [at EXCEPT ![r] = pc]
  <2>1. CASE CreateNew(r)
    <3>1. at' = [at EXCEPT ![r] = "failed"] \/ at' = [at EXCEPT ![r] = "write"] \/ (at' = at /\ at[r] = "open")
      BY <2>1 DEF CreateNew, GoTo, Exists
    <3> QED
      BY <1>2, <3>1
  <2>2. CASE \E n \in FileNames : RmdirUnlinks(r, n)
    BY <1>2, <2>2 DEF RmdirUnlinks
  <2>3. CASE ~CreateNew(r) /\ ~\E n \in FileNames : RmdirUnlinks(r, n)
    BY <2>3 DEF FileActs, UploadAsked, UploadWritten, WriteWritten, WriteOpens, DeleteChecks,
       RenameChecks, DeleteActs, RenameActs, RmdirLists, RmdirEnds, MkdirActs, GoTo
  <2> QED
    BY <2>1, <2>2, <2>3
<1>6. \E n \in FileNames : name' = [name EXCEPT ![r] = n]
  <2>1. CASE CreateNew(r) /\ name' # name
    <3>1. name' = [name EXCEPT ![r] = @ + 1] /\ name[r] < Candidates
      BY <2>1 DEF CreateNew
    <3>2. name[r] + 1 \in FileNames
      BY <1>3, <3>1, KindFacts DEF FileNames
    <3>3. name' = [name EXCEPT ![r] = name[r] + 1]
      BY <3>1
    <3> QED
      BY <3>2, <3>3
  <2>2. CASE ~(CreateNew(r) /\ name' # name)
    <3>1. name' = name \/ \E n \in FileNames : name' = [name EXCEPT ![r] = n]
      BY <2>2 DEF FileActs, UploadAsked, UploadWritten, WriteWritten, WriteOpens, DeleteChecks,
         RmdirUnlinks, RenameChecks, DeleteActs, RenameActs, RmdirLists, RmdirEnds, MkdirActs
    <3> QED
      BY <1>2, <1>3, <3>1
  <2> QED
    BY <2>1, <2>2
<1>7. \E m \in FileNames : dest' = [dest EXCEPT ![r] = m]
  <2>1. dest' = dest \/ \E m \in FileNames : dest' = [dest EXCEPT ![r] = m]
    BY DEF FileActs, UploadAsked, CreateNew, UploadWritten, WriteWritten, WriteOpens, DeleteChecks,
       RmdirUnlinks, RenameChecks, DeleteActs, RenameActs, RmdirLists, RmdirEnds, MkdirActs
  <2> QED
    BY <1>2, <1>3, <2>1
<1> QED
  BY <1>1, <1>4, <1>5, <1>6, <1>7

LEMMA FilesTypesStep == ASSUME FilesTypeOK, NEW r \in Reqs, FileActs(r) PROVE FilesTypeOK'
<1>t. /\ there \in BOOLEAN /\ dir \in [FileNames -> Inodes \cup {Nobody}]
      /\ bytes \in [Inodes -> Inodes \cup {Nobody}] /\ name \in [Reqs -> FileNames]
      /\ dest \in [Reqs -> FileNames] /\ fd \in [Reqs -> Inodes \cup {Nobody}]
      /\ listed \in [Reqs -> SUBSET FileNames]
      /\ r \in Inodes /\ name[r] \in FileNames /\ dest[r] \in FileNames
  BY KindFacts DEF FilesTypeOK
<1>1. there' \in BOOLEAN
  BY <1>t DEF FileActs, UploadAsked, CreateNew, UploadWritten, WriteWritten, WriteOpens, DeleteChecks,
     RmdirUnlinks, RenameChecks, DeleteActs, RenameActs, RmdirLists, RmdirEnds, MkdirActs
<1>2. /\ fd' \in [Reqs -> Inodes \cup {Nobody}] /\ dir' \in [FileNames -> Inodes \cup {Nobody}]
      /\ bytes' \in [Inodes -> Inodes \cup {Nobody}]
  <2>1. CASE CreateNew(r)
    BY <1>t, <2>1 DEF CreateNew
  <2>2. ASSUME NEW n \in FileNames, WriteOpens(r, n)
        PROVE  /\ fd' \in [Reqs -> Inodes \cup {Nobody}] /\ dir' \in [FileNames -> Inodes \cup {Nobody}]
               /\ bytes' \in [Inodes -> Inodes \cup {Nobody}]
    <3>1. CASE ~Resolves
      BY <1>t, <2>2, <3>1 DEF WriteOpens
    <3>2. CASE Resolves
      <4>1. /\ fd' = [fd EXCEPT ![r] = IF Exists(n) THEN dir[n] ELSE r]
            /\ dir' = [dir EXCEPT ![n] = fd'[r]] /\ bytes' = [bytes EXCEPT ![fd'[r]] = Nobody]
        BY <2>2, <3>2 DEF WriteOpens
      <4>2. fd' \in [Reqs -> Inodes \cup {Nobody}] /\ fd'[r] \in Inodes \cup {Nobody}
        BY <1>t, <4>1
      <4> QED
        BY <1>t, <4>1, <4>2
    <3> QED
      BY <3>1, <3>2
  <2>3. CASE UploadWritten(r) \/ WriteWritten(r)
    BY <1>t, <2>3 DEF UploadWritten, WriteWritten
  <2>4. CASE RenameActs(r)
    <3>1. dir' = dir \/ dir' = [dir EXCEPT ![dest[r]] = dir[name[r]], ![name[r]] = Nobody]
      BY <2>4 DEF RenameActs
    <3>2. dir[name[r]] \in Inodes \cup {Nobody}
      BY <1>t
    <3>3. dir' \in [FileNames -> Inodes \cup {Nobody}]
      BY <1>t, <3>1, <3>2
    <3> QED
      BY <1>t, <2>4, <3>3 DEF RenameActs
  <2>5. CASE DeleteActs(r) \/ \E n \in FileNames : RmdirUnlinks(r, n)
    BY <1>t, <2>5 DEF DeleteActs, RmdirUnlinks
  <2>6. CASE UNCHANGED <<fd, dir, bytes>>
    BY <1>t, <2>6
  <2> QED
    BY <2>1, <2>2, <2>3, <2>4, <2>5, <2>6 DEF FileActs, UploadAsked, DeleteChecks, RenameChecks,
       RmdirLists, RmdirEnds, MkdirActs
<1>3. listed' \in [Reqs -> SUBSET FileNames]
  <2>1. CASE \E n \in FileNames : RmdirUnlinks(r, n)
    BY <1>t, <2>1 DEF RmdirUnlinks
  <2>2. CASE RmdirLists(r)
    BY <1>t, <2>2 DEF RmdirLists
  <2>3. CASE UNCHANGED listed
    BY <1>t, <2>3
  <2> QED
    BY <2>1, <2>2, <2>3 DEF FileActs, UploadAsked, CreateNew, UploadWritten, WriteWritten, WriteOpens,
       DeleteChecks, RenameChecks, DeleteActs, RenameActs, RmdirEnds, MkdirActs
<1> QED
  BY <1>1, <1>2, <1>3, OneMoves DEF FilesTypeOK

LEMMA OnwardStep == ASSUME FilesTypeOK, NEW r \in Reqs, FileActs(r) PROVE Onward
BY OneMoves DEF Onward

\* Whoever has meddled with a name has.
LEMMA MeddledStays ==
  ASSUME FilesTypeOK, NEW r \in Reqs, FileActs(r), NEW n
  PROVE  Meddled(n) => Meddled(n)'
<1>1. Onward
  BY OnwardStep
<1> QED
  BY <1>1, KindFacts DEF Onward, Meddled

LEMMA HeldStep ==
  ASSUME FilesInv, NEW r \in Reqs, FileActs(r)
  PROVE  HeldByPc' /\ GoneIsEmpty'
<1>t. /\ FilesTypeOK /\ GoneIsEmpty /\ HeldByPc
      /\ at \in [Reqs -> {"new", "open", "write", "act", "ok", "failed"}]
      /\ dir \in [FileNames -> Inodes \cup {Nobody}] /\ fd \in [Reqs -> Inodes \cup {Nobody}]
      /\ listed \in [Reqs -> SUBSET FileNames] /\ name[r] \in FileNames /\ dest[r] \in FileNames
  BY DEF FilesInv, FilesTypeOK
<1>m. /\ at[r] \in {"new", "open", "write", "act"}
      /\ at'[r] \in {"open", "write", "act", "ok", "failed"}
      /\ \A q \in Reqs : q # r => at'[q] = at[q]
  BY <1>t, OneMoves
<1>1. /\ \A q \in Reqs : q # r => fd'[q] = fd[q] /\ listed'[q] = listed[q]
      /\ listed'[r] # {} => r \in Rmdirs
      /\ r \in Uploads /\ at'[r] = "open" => fd'[r] = Nobody
      /\ r \in Uploads /\ at'[r] \in {"write", "ok"} => fd'[r] = r
  <2>1. CASE CreateNew(r)
    <3>1. \/ at' = [at EXCEPT ![r] = "failed"] /\ fd' = fd
          \/ at' = at /\ at[r] = "open" /\ fd' = fd
          \/ at' = [at EXCEPT ![r] = "write"] /\ fd' = [fd EXCEPT ![r] = r]
      BY <2>1 DEF CreateNew, GoTo, Exists
    <3>2. listed' = listed
      BY <2>1 DEF CreateNew
    <3> QED
      BY <1>t, <2>1, <3>1, <3>2 DEF CreateNew, HeldByPc
  <2>2. CASE UploadAsked(r) \/ UploadWritten(r)
    BY <1>t, <2>2 DEF UploadAsked, UploadWritten, GoTo, HeldByPc
  <2>3. ASSUME NEW n \in FileNames, WriteOpens(r, n)
        PROVE  /\ r \notin Uploads /\ listed' = listed
               /\ \A q \in Reqs : q # r => fd'[q] = fd[q]
    BY <1>t, <2>3, KindFacts DEF WriteOpens
  <2>4. CASE r \in Rmdirs /\ UNCHANGED fd /\ \A q \in Reqs : q # r => listed'[q] = listed[q]
    BY <1>t, <2>4, KindFacts
  <2>5. CASE RmdirLists(r)
    BY <1>t, <2>4, <2>5 DEF RmdirLists
  <2>6. ASSUME NEW n \in FileNames, RmdirUnlinks(r, n)
        PROVE  r \in Rmdirs /\ UNCHANGED fd /\ \A q \in Reqs : q # r => listed'[q] = listed[q]
    BY <1>t, <2>6 DEF RmdirUnlinks, HeldByPc
  <2>7. CASE r \notin Uploads /\ UNCHANGED <<fd, listed>>
    BY <1>t, <2>7 DEF HeldByPc
  <2>8. DeleteActs(r) \/ RenameActs(r) \/ RmdirEnds(r) \/ MkdirActs(r) \/ WriteWritten(r)
        \/ (\E n \in FileNames : DeleteChecks(r, n) \/ \E m \in FileNames : RenameChecks(r, n, m))
        => r \notin Uploads /\ UNCHANGED <<fd, listed>>
    BY KindFacts DEF DeleteActs, RenameActs, RmdirEnds, MkdirActs, WriteWritten, DeleteChecks, RenameChecks
  <2>9. (\E n \in FileNames : WriteOpens(r, n)) =>
           r \notin Uploads /\ listed' = listed /\ \A q \in Reqs : q # r => fd'[q] = fd[q]
    BY <2>3
  <2>10. CASE \E n \in FileNames : WriteOpens(r, n)
    BY <1>t, <2>9, <2>10 DEF HeldByPc
  <2> QED
    BY <2>1, <2>2, <2>4, <2>5, <2>6, <2>7, <2>8, <2>10 DEF FileActs
<1>2. HeldByPc'
  <2>1. \A q \in Reqs : at'[q] = "new" => fd'[q] = Nobody /\ listed'[q] = {}
    BY <1>t, <1>m, <1>1 DEF HeldByPc
  <2>2. \A q \in Uploads : at'[q] = "open" => fd'[q] = Nobody
    BY <1>t, <1>m, <1>1, KindFacts DEF HeldByPc
  <2>3. \A q \in Uploads : at'[q] \in {"write", "ok"} => fd'[q] = q
    BY <1>t, <1>m, <1>1, KindFacts DEF HeldByPc
  <2>4. \A q \in Reqs : listed'[q] # {} => q \in Rmdirs
    BY <1>t, <1>1 DEF HeldByPc
  <2>5. Nobody' = Nobody
    BY DEF Nobody
  <2> QED
    BY <2>1, <2>2, <2>3, <2>4, <2>5 DEF HeldByPc
<1>3. GoneIsEmpty'
  <2>1. CASE there' /\ there' \in BOOLEAN
    BY <2>1 DEF GoneIsEmpty
  <2>2. CASE ~there'
    <3>1. CASE RmdirEnds(r)
      BY <1>t, <2>2, <3>1 DEF RmdirEnds, GoneIsEmpty
    <3>2. CASE ~there
      <4>1. dir' = dir \/ \A n \in FileNames : dir'[n] \in {dir[n], Nobody}
        BY <1>t, <2>2, <3>2 DEF FileActs, UploadAsked, CreateNew, UploadWritten, WriteWritten, WriteOpens,
           DeleteChecks, RmdirUnlinks, RenameChecks, DeleteActs, RenameActs, RmdirLists, RmdirEnds, MkdirActs,
           Resolves, Exists
      <4> QED
        BY <1>t, <3>2, <4>1 DEF GoneIsEmpty
    <3> QED
      BY <2>2, <3>1, <3>2 DEF FileActs, UploadAsked, CreateNew, UploadWritten, WriteWritten, WriteOpens,
         DeleteChecks, RmdirUnlinks, RenameChecks, DeleteActs, RenameActs, RmdirLists, MkdirActs
  <2> QED
    BY <2>2, FilesTypesStep, <1>t DEF GoneIsEmpty
<1> QED
  BY <1>2, <1>3

\* A name that is taken is only taken away, or given to another file, by a delete, a rename or an rmdir.
LEMMA TakenByMeddler ==
  ASSUME FilesInv, NEW r \in Reqs, FileActs(r), NEW n \in FileNames, dir[n] # Nobody
  PROVE  dir'[n] = dir[n] \/ Meddled(n)'
<1>t. /\ FilesTypeOK /\ dir \in [FileNames -> Inodes \cup {Nobody}] /\ there /\ Exists(n)
      /\ at \in [Reqs -> {"new", "open", "write", "act", "ok", "failed"}]
      /\ name[r] \in FileNames /\ dest[r] \in FileNames
  BY DEF FilesInv, FilesTypeOK, GoneIsEmpty, Exists
<1>1. CASE CreateNew(r)
  <2>1. dir' = dir \/ (dir' = [dir EXCEPT ![name[r]] = r] /\ ~Exists(name[r]))
    <3>1. name[r] = Candidates \/ name[r] < Candidates
      BY <1>t, KindFacts DEF FileNames
    <3> QED
      BY <1>1, <1>t, <3>1 DEF CreateNew
  <2> QED
    BY <1>t, <2>1
<1>2. ASSUME NEW m \in FileNames, WriteOpens(r, m) PROVE dir'[n] = dir[n]
  <2>1. CASE ~Resolves
    BY <1>2, <2>1 DEF WriteOpens
  <2>2. CASE Resolves
    <3>1. fd' = [fd EXCEPT ![r] = IF Exists(m) THEN dir[m] ELSE r] /\ dir' = [dir EXCEPT ![m] = fd'[r]]
      BY <1>2, <2>2 DEF WriteOpens
    <3>2. m = n => fd'[r] = dir[n]
      BY <1>t, <3>1 DEF FilesTypeOK
    <3> QED
      BY <1>t, <3>1, <3>2
  <2> QED
    BY <2>1, <2>2
<1>3. CASE DeleteActs(r)
  <2>1. CASE name[r] # n
    BY <1>t, <1>3, <2>1 DEF DeleteActs
  <2>2. CASE name[r] = n
    BY <1>t, <1>3, <2>2, KindFacts DEF DeleteActs, GoTo, Meddled
  <2> QED
    BY <2>1, <2>2
<1>4. CASE RenameActs(r)
  <2>1. CASE ~Exists(name[r]) \/ n \notin {name[r], dest[r]}
    BY <1>t, <1>4, <2>1 DEF RenameActs
  <2>2. CASE Exists(name[r]) /\ n \in {name[r], dest[r]}
    BY <1>t, <1>4, <2>2, KindFacts DEF RenameActs, GoTo, Meddled
  <2> QED
    BY <2>1, <2>2
<1>5. ASSUME NEW m \in FileNames, RmdirUnlinks(r, m) PROVE Meddled(n)'
  BY <1>5 DEF RmdirUnlinks, FilesInv, HeldByPc, Meddled
<1>6. CASE UNCHANGED dir
  BY <1>6
<1> QED
  BY <1>1, <1>2, <1>3, <1>4, <1>5, <1>6 DEF FileActs, UploadAsked, UploadWritten, WriteWritten,
     DeleteChecks, RenameChecks, RmdirLists, RmdirEnds, MkdirActs

LEMMA FoundStep == ASSUME FilesInv, NEW r \in Reqs, FileActs(r) PROVE UploadFound'
<1> SUFFICES ASSUME NEW q \in Uploads, at'[q] \in {"write", "ok"}
             PROVE  dir'[name'[q]] = q \/ Meddled(name[q])'
  BY DEF UploadFound
<1>t. /\ FilesTypeOK /\ dir \in [FileNames -> Inodes \cup {Nobody}] /\ q \in Reqs /\ q # Nobody
      /\ at \in [Reqs -> {"new", "open", "write", "act", "ok", "failed"}]
      /\ name[q] \in FileNames
  BY KindFacts DEF FilesInv, FilesTypeOK
<1>1. CASE at[q] \in {"write", "ok"}
  <2>1. name'[q] = name[q]
    <3>1. CASE q = r
      BY <1>1, <3>1, KindFacts DEF FileActs, UploadAsked, CreateNew, UploadWritten, WriteWritten, WriteOpens,
         DeleteChecks, RmdirUnlinks, RenameChecks, DeleteActs, RenameActs, RmdirLists, RmdirEnds, MkdirActs
    <3> QED
      BY <1>t, <3>1, OneMoves
  <2>2. PICK n \in FileNames : n = name[q] /\ n = name'[q]
    BY <1>t, <2>1
  <2>3. dir[n] = q \/ Meddled(n)
    BY <1>1, <2>2 DEF FilesInv, UploadFound
  <2>4. dir'[n] = q \/ Meddled(n)'
    BY <1>t, <2>3, TakenByMeddler, MeddledStays
  <2> QED
    BY <2>2, <2>4 DEF Meddled
<1>2. CASE at[q] \notin {"write", "ok"}
  <2>1. q = r
    BY <1>2, <1>t, OneMoves
  <2>2. CASE UploadAsked(r)
    BY <1>t, <2>1, <2>2 DEF UploadAsked, GoTo
  <2>3. CASE CreateNew(r)
    <3>1. dir' = [dir EXCEPT ![name[r]] = r] /\ name' = name
      BY <1>2, <1>t, <2>1, <2>3 DEF CreateNew, GoTo
    <3> QED
      BY <1>t, <2>1, <3>1
  <2>4. CASE UploadWritten(r)
    BY <1>2, <2>1, <2>4 DEF UploadWritten
  <2>5. CASE \E n \in FileNames : RmdirUnlinks(r, n)
    BY <1>2, <2>1, <2>5 DEF RmdirUnlinks
  <2> QED
    BY <2>1, <2>2, <2>3, <2>4, <2>5, KindFacts DEF FileActs, WriteWritten, WriteOpens,
       DeleteChecks, RenameChecks, DeleteActs, RenameActs, RmdirLists, RmdirEnds, MkdirActs
<1> QED
  BY <1>1, <1>2

\* Only a write opens an inode that another request made.
LEMMA BytesStep == ASSUME FilesInv, NEW r \in Reqs, FileActs(r) PROVE BytesHeld'
<1>t. /\ bytes \in [Inodes -> Inodes \cup {Nobody}] /\ fd \in [Reqs -> Inodes \cup {Nobody}]
      /\ HeldByPc /\ FilesTypeOK
      /\ at \in [Reqs -> {"new", "open", "write", "act", "ok", "failed"}]
  BY DEF FilesInv, FilesTypeOK
<1>1. \A w \in Writes : fd[w] # Nobody => fd'[w] = fd[w]
  <2>1. \A w \in Writes : w # r => fd'[w] = fd[w]
    BY <1>t, KindFacts DEF FileActs, UploadAsked, CreateNew, UploadWritten, WriteWritten, WriteOpens,
       DeleteChecks, RmdirUnlinks, RenameChecks, DeleteActs, RenameActs, RmdirLists, RmdirEnds, MkdirActs
  <2>2. r \in Writes /\ fd[r] # Nobody => fd'[r] = fd[r]
    BY <1>t, KindFacts DEF FileActs, UploadAsked, CreateNew, UploadWritten, WriteWritten, WriteOpens,
       DeleteChecks, RmdirUnlinks, RenameChecks, DeleteActs, RenameActs, RmdirLists, RmdirEnds, MkdirActs,
       HeldByPc
  <2> QED
    BY <2>1, <2>2
<1>2. \A i \in Inodes : Opened(i) => Opened(i)'
  BY <1>1, KindFacts DEF Opened, Inodes
<1>3. ASSUME NEW i \in Inodes
      PROVE  bytes'[i] = bytes[i] \/ Opened(i)' \/ (r \in Uploads /\ i = r /\ bytes'[i] = i)
  <2>1. CASE UploadWritten(r)
    BY <1>t, <2>1 DEF UploadWritten, HeldByPc
  <2>2. ASSUME NEW n \in FileNames, WriteOpens(r, n) PROVE bytes'[i] = bytes[i] \/ Opened(i)'
    <3>1. bytes' = bytes \/ bytes' = [bytes EXCEPT ![fd'[r]] = Nobody]
      BY <2>2 DEF WriteOpens
    <3>2. r \in Writes
      BY <2>2 DEF WriteOpens
    <3>3. fd'[r] # i => bytes'[i] = bytes[i]
      BY <1>t, <3>1
    <3> QED
      BY <3>2, <3>3 DEF Opened
  <2>3. CASE WriteWritten(r)
    <3>1. r \in Writes /\ bytes' = [bytes EXCEPT ![fd[r]] = r] /\ fd' = fd
      BY <2>3 DEF WriteWritten
    <3>2. fd[r] # i => bytes'[i] = bytes[i]
      BY <1>t, <3>1
    <3> QED
      BY <3>1, <3>2 DEF Opened
  <2>4. CASE UNCHANGED bytes
    BY <2>4
  <2> QED
    BY <2>1, <2>2, <2>3, <2>4 DEF FileActs, UploadAsked, CreateNew, DeleteChecks, RmdirUnlinks,
       RenameChecks, DeleteActs, RenameActs, RmdirLists, RmdirEnds, MkdirActs
<1>4. bytes'[OldFile] = OldFile \/ Opened(OldFile)'
  BY <1>2, <1>3, KindFacts DEF FilesInv, BytesHeld
<1>5. ASSUME NEW q \in Uploads, at'[q] = "ok" PROVE bytes'[q] = q \/ Opened(q)'
  <2>1. CASE at[q] = "ok"
    BY <1>2, <1>3, <2>1, KindFacts DEF FilesInv, BytesHeld
  <2>2. CASE at[q] # "ok"
    <3>1. q = r
      BY <1>5, <1>t, <2>2, OneMoves, KindFacts
    <3>2. UploadWritten(r)
      BY <1>5, <1>t, <2>2, <3>1, KindFacts DEF FileActs, UploadAsked, CreateNew, WriteWritten, WriteOpens,
         DeleteChecks, RmdirUnlinks, RenameChecks, DeleteActs, RenameActs, RmdirLists, RmdirEnds, MkdirActs,
         GoTo, HeldByPc, Exists
    <3>3. bytes' = [bytes EXCEPT ![r] = r]
      BY <1>5, <1>t, <3>1, <3>2 DEF UploadWritten, GoTo, HeldByPc
    <3> QED
      BY <1>t, <3>1, <3>3, KindFacts
  <2> QED
    BY <2>1, <2>2
<1> QED
  BY <1>4, <1>5 DEF BytesHeld

LEMMA FilesStep == ASSUME FilesInv, [FilesNext]_filesVars PROVE FilesInv'
<1>1. CASE UNCHANGED filesVars
  BY <1>1 DEF filesVars, FilesInv, FilesTypeOK, GoneIsEmpty, HeldByPc, UploadFound, BytesHeld, Opened, Meddled
<1>2. ASSUME NEW r \in Reqs, FileActs(r) PROVE FilesInv'
  BY <1>2, FilesTypesStep, HeldStep, FoundStep, BytesStep DEF FilesInv
<1> QED
  BY <1>1, <1>2 DEF FilesNext, FileActs

\* ChoicesStand, the part of the files: an answered upload keeps its bytes and its
\* name, unless a write, delete, rename or rmdir was asked for it.
THEOREM UploadsStandHolds == Spec => []UploadsStand /\ []FilesTypeOK
<1>1. Init => FilesInv
  <2> SUFFICES ASSUME Init PROVE FilesInv
    OBVIOUS
  <2>1. FilesInit
    BY DEF Init
  <2>2. FilesTypeOK
    BY <2>1, KindFacts DEF FilesInit, FilesTypeOK
  <2>3. HeldByPc /\ UploadFound /\ GoneIsEmpty
    BY <2>1, KindFacts DEF FilesInit, HeldByPc, UploadFound, GoneIsEmpty
  <2>4. BytesHeld
    BY <2>1, KindFacts DEF FilesInit, BytesHeld
  <2> QED
    BY <2>2, <2>3, <2>4 DEF FilesInv
<1>2. FilesInv /\ [FilesNext]_filesVars => FilesInv'
  BY FilesStep
<1>3. FilesInv => UploadsStand /\ FilesTypeOK
  <2> SUFFICES ASSUME FilesInv PROVE UploadsStand /\ FilesTypeOK
    OBVIOUS
  <2>1. \A r \in Uploads : at[r] = "ok" => fd[r] = r
    BY DEF FilesInv, HeldByPc
  <2>2. \A i \in {OldFile} \cup {fd[r] : r \in {u \in Uploads : at[u] = "ok"}} :
           i = OldFile \/ (i \in Uploads /\ at[i] = "ok")
    BY <2>1
  <2>3. \A r \in Uploads : at[r] = "ok" => dir[name[r]] = fd[r] \/ Meddled(name[r])
    BY <2>1 DEF FilesInv, UploadFound
  <2> QED
    BY <2>2, <2>3 DEF FilesInv, BytesHeld, Opened, UploadsStand
<1>4. [Next]_vars => [FilesNext]_filesVars
  BY EachStays
<1> QED
  BY <1>1, <1>2, <1>3, <1>4, PTL DEF Spec

-----------------------------------------------------------------------------
(* What a boot fills. The version number says what has been seeded, and     *)
(* what has been inserted bounds the ids and the places in the list.        *)

Count1 == Cardinality(SeedTitles)
Count2 == Cardinality(SeedTitles2)

\* What may have been inserted with a version number and a number of the user's own.
MayHold(v, own) == own + (IF v >= 1 THEN Count1 ELSE 0) + (IF v >= 2 THEN Count2 ELSE 0)

SeededByVersion ==
  /\ version = 0 => \A t \in Titles12 : seeded[t] = 0
  /\ version <= 1 => \A t \in SeedTitles2 : seeded[t] = 0

NumberedOn ==
  /\ lastPreset <= MayHold(version, spent.presets)
  /\ \A p \in lib : p.id <= lastPreset /\ p.order <= lastPreset

VisitsCounted ==
  /\ \A k \in Targets : visits[k] <= spent.bumps
  /\ boot = "backfill" => \A k \in Targets : visits[k] = 0

SeedsInv ==
  SeedsTypeOK /\ SeededOnce /\ HitsAreVisits /\ SeededByVersion /\ NumberedOn /\ VisitsCounted

LEMMA SeedCounts ==
  /\ Count1 \in Nat /\ Count2 \in Nat /\ MaxPresets \in Nat /\ MaxBumps \in Nat /\ MaxReboots \in Nat
  /\ Orders = 1..(MaxPresets + Count1 + Count2)
  /\ Preset = [id: Orders, title: Titles12 \cup OwnTitles, order: Orders]
<1>1. IsFiniteSet(SeedTitles) /\ IsFiniteSet(SeedTitles2)
  BY SeedsAssumption
<1>2. SeedTitles \cap SeedTitles2 = {}
  BY SeedsAssumption
<1>3. Cardinality(Titles12) = Count1 + Count2 - Cardinality({})
  BY <1>1, <1>2, FS_Union DEF Titles12, Count1, Count2
<1>4. Count1 \in Nat /\ Count2 \in Nat
  BY <1>1, FS_CardinalityType DEF Count1, Count2
<1>5. Cardinality(Titles12) = Count1 + Count2
  BY <1>3, <1>4, FS_EmptySet
<1>6. MaxPresets \in Nat /\ MaxBumps \in Nat /\ MaxReboots \in Nat
  BY SeedsAssumption
<1>7. Orders = 1..(MaxPresets + Count1 + Count2)
  BY <1>4, <1>5, <1>6 DEF Orders
<1> QED
  BY <1>4, <1>6, <1>7 DEF Preset

\* A bounded set of numbers has its greatest.
LEMMA MaxOfBounded ==
  ASSUME NEW S \in SUBSET Nat, S # {}, NEW n \in Nat, \A x \in S : x <= n
  PROVE  Max(S) \in S /\ \A y \in S : Max(S) >= y
<1> DEFINE Above(x) == {y \in S : y > x}
           Sets == {Above(x) : x \in S}
<1>1. IsFiniteSet(S)
  BY FS_BoundedSetOfNaturals
<1>2. Sets \subseteq FiniteSubsetsOf(S) /\ Sets # {}
  <2>1. Sets \subseteq SUBSET S
    OBVIOUS
  <2>2. PICK x \in S : TRUE
    OBVIOUS
  <2>3. Above(x) \in Sets
    OBVIOUS
  <2>4. FiniteSubsetsOf(S) = SUBSET S
    BY <1>1, FS_FiniteSubsetsOfFinite
  <2> HIDE DEF Sets, Above
  <2> QED
    BY <2>1, <2>3, <2>4
<1> HIDE DEF Above, Sets
<1>3. PICK A \in Sets : \A B \in Sets : ~(<<B, A>> \in StrictSubsetOrdering(S))
  BY <1>2, FS_StrictSubsetOrderingWellFounded, WFMin
<1>4. PICK m \in S : A = Above(m)
  BY DEF Sets
<1>5. ASSUME NEW y \in S, y > m PROVE FALSE
  <2>1. Above(y) \subseteq Above(m) /\ y \in Above(m) /\ y \notin Above(y)
    <3>1. \A z \in S : z \in Nat
      OBVIOUS
    <3>2. \A z \in S : z > y => z > m
      BY <1>5, <3>1
    <3>3. ~(y > y)
      BY <3>1
    <3>4. Above(y) \subseteq Above(m)
      BY <3>2 DEF Above
    <3> QED
      BY <1>5, <3>3, <3>4 DEF Above
  <2>2. <<Above(y), Above(m)>> \in StrictSubsetOrdering(S)
    <3>1. Above(y) \in SUBSET S /\ Above(m) \in SUBSET S
      BY DEF Above
    <3> QED
      BY <2>1, <3>1 DEF StrictSubsetOrdering
  <2> QED
    BY <1>3, <1>4, <2>2 DEF Sets
<1>6. \A y \in S : m >= y
  BY <1>5
<1> QED
  BY <1>6 DEF Max

\* The number after which a new place is counted on.
LEMMA MaxOrderFacts ==
  ASSUME SeedsInv
  PROVE  /\ MaxOrder \in Nat /\ MaxOrder <= lastPreset
         /\ \A p \in lib : p.order <= MaxOrder
<1> DEFINE S == {p.order : p \in lib} \cup {0}
<1>1. lastPreset \in Nat /\ \A p \in lib : p.order \in Nat /\ p.order <= lastPreset
  BY SeedCounts DEF SeedsInv, SeedsTypeOK, NumberedOn
<1>2. S \in SUBSET Nat /\ S # {} /\ \A x \in S : x <= lastPreset
  BY <1>1
<1> HIDE DEF S
<1>3. Max(S) \in S /\ \A y \in S : Max(S) >= y
  BY <1>1, <1>2, MaxOfBounded
<1>4. MaxOrder = Max(S) /\ \A p \in lib : p.order \in S
  BY DEF MaxOrder, S
<1> QED
  BY <1>1, <1>2, <1>3, <1>4

\* A seeding numbers its presets on, each once.
LEMMA SeedingKeeps ==
  ASSUME SeedsInv, NEW titles \in SUBSET Titles12, NEW v, Seeding(titles, v),
         \A t \in titles : seeded[t] = 0,
         Cardinality(titles) \in Nat,
         lastPreset + Cardinality(titles) <= MaxPresets + Count1 + Count2
  PROVE  /\ lib' \subseteq Preset /\ version' = v
         /\ lastPreset' \in {0} \cup Orders /\ lastPreset' = lastPreset + Cardinality(titles)
         /\ seeded' \in [Titles12 -> Nat]
         /\ \A t \in Titles12 : seeded'[t] <= 1 /\ (t \notin titles => seeded'[t] = seeded[t])
         /\ \A p \in lib' : p.id <= lastPreset' /\ p.order <= lastPreset'
         /\ \A p, q \in lib' : p.order = q.order => p = q
<1> DEFINE n == Cardinality(titles)
<1>1. PICK of \in [titles -> 1..n] :
        /\ \A t, u \in titles : of[t] = of[u] => t = u
        /\ lib' = lib \cup {[id |-> lastPreset + of[t], title |-> t, order |-> MaxOrder + of[t]] : t \in titles}
        /\ lastPreset' = lastPreset + n
        /\ seeded' = [t \in Titles12 |-> IF t \in titles THEN seeded[t] + 1 ELSE seeded[t]]
        /\ version' = v
  BY DEF Seeding
<1> DEFINE new(t) == [id |-> lastPreset + of[t], title |-> t, order |-> MaxOrder + of[t]]
<1>n. n \in Nat /\ lastPreset + n <= MaxPresets + Count1 + Count2
  OBVIOUS
<1> HIDE DEF n
<1>t. /\ lib \subseteq Preset /\ lastPreset \in Nat /\ seeded \in [Titles12 -> Nat]
      /\ \A t \in Titles12 : seeded[t] <= 1
      /\ \A p, q \in lib : p.order = q.order => p = q
      /\ \A p \in lib : p.id <= lastPreset /\ p.order <= lastPreset /\ p.id \in Nat /\ p.order \in Nat
  BY SeedCounts DEF SeedsInv, SeedsTypeOK, SeededOnce, NumberedOn
<1>2. MaxOrder \in Nat /\ MaxOrder <= lastPreset /\ \A p \in lib : p.order <= MaxOrder
  BY MaxOrderFacts
<1>3. ASSUME NEW t \in titles
      PROVE  /\ of[t] \in Nat /\ of[t] >= 1 /\ of[t] <= n
             /\ lastPreset + of[t] \in Orders /\ MaxOrder + of[t] \in Orders
             /\ MaxOrder + of[t] > MaxOrder /\ MaxOrder + of[t] <= lastPreset'
             /\ lastPreset + of[t] <= lastPreset'
  <2>1. of[t] \in Nat /\ of[t] >= 1 /\ of[t] <= n
    BY <1>n
  <2>2. PICK k \in Nat : k = of[t]
    BY <2>1
  <2>3. /\ lastPreset + k <= lastPreset + n /\ MaxOrder + k <= lastPreset + n /\ MaxOrder + k > MaxOrder
        /\ lastPreset + k \in Nat /\ MaxOrder + k \in Nat /\ lastPreset + k >= 1 /\ MaxOrder + k >= 1
    BY <1>n, <1>t, <1>2, <2>1, <2>2
  <2>4. lastPreset + k \in Orders /\ MaxOrder + k \in Orders
    <3>1. MaxPresets + Count1 + Count2 \in Nat
      BY SeedCounts
    <3>2. lastPreset + k <= MaxPresets + Count1 + Count2 /\ MaxOrder + k <= MaxPresets + Count1 + Count2
      BY <1>n, <1>t, <1>2, <2>1, <2>2, <2>3, <3>1
    <3> QED
      BY <2>3, <3>1, <3>2, SeedCounts
  <2> QED
    BY <1>1, <2>1, <2>2, <2>3, <2>4
<1>4. \A t \in titles : /\ new(t) \in Preset /\ new(t).id = lastPreset + of[t]
                        /\ new(t).order = MaxOrder + of[t]
  BY <1>3, SeedCounts
<1>5. lib' = lib \cup {new(t) : t \in titles}
  BY <1>1
<1> HIDE DEF new
<1>6. lib' \subseteq Preset
  BY <1>t, <1>4, <1>5
<1>7. \A p \in lib' : p.id <= lastPreset' /\ p.order <= lastPreset'
  <2>1. lastPreset' = lastPreset + n
    BY <1>1
  <2>2. \A p \in lib : p.id <= lastPreset' /\ p.order <= lastPreset'
    BY <1>n, <1>t, <2>1
  <2>3. \A t \in titles : new(t).id <= lastPreset' /\ new(t).order <= lastPreset'
    BY <1>3, <1>4
  <2> QED
    BY <1>5, <2>2, <2>3
<1>8. \A p, q \in lib' : p.order = q.order => p = q
  <2>1. \A p \in lib, t \in titles : p.order # new(t).order
    <3> SUFFICES ASSUME NEW p \in lib, NEW t \in titles PROVE p.order # new(t).order
      OBVIOUS
    <3>1. p.order \in Nat /\ p.order <= MaxOrder
      BY <1>t, <1>2
    <3>2. new(t).order = MaxOrder + of[t] /\ of[t] \in Nat /\ of[t] >= 1
      BY <1>3, <1>4
    <3> QED
      BY <1>2, <3>1, <3>2
  <2>2. \A t, u \in titles : new(t).order = new(u).order => t = u
    <3> SUFFICES ASSUME NEW t \in titles, NEW u \in titles, new(t).order = new(u).order PROVE t = u
      OBVIOUS
    <3>1. MaxOrder + of[t] = MaxOrder + of[u] /\ of[t] \in Nat /\ of[u] \in Nat
      BY <1>3, <1>4
    <3>2. of[t] = of[u]
      BY <1>2, <3>1
    <3> QED
      BY <1>1, <3>2
  <2> QED
    BY <1>t, <1>5, <2>1, <2>2
<1>9. /\ lastPreset' \in {0} \cup Orders /\ lastPreset' = lastPreset + n
  <2>1. lastPreset' = lastPreset + n
    BY <1>1
  <2>2. PICK k \in Nat : k = lastPreset + n
    BY <1>n, <1>t
  <2>3. MaxPresets + Count1 + Count2 \in Nat /\ k <= MaxPresets + Count1 + Count2
    BY <1>n, <2>2, SeedCounts
  <2>4. k \in {0} \cup Orders
    BY <2>3, SeedCounts
  <2> QED
    BY <2>1, <2>2, <2>4
<1>10. seeded' \in [Titles12 -> Nat]
  BY <1>1, <1>t
<1>11. \A t \in Titles12 : seeded'[t] <= 1 /\ (t \notin titles => seeded'[t] = seeded[t])
  BY <1>1, <1>t
<1> QED
  BY <1>1, <1>6, <1>7, <1>8, <1>9, <1>10, <1>11 DEF n

LEMMA SeedTypes ==
  ASSUME SeedsInv
  PROVE  /\ lib \subseteq Preset /\ lastPreset \in Nat /\ version \in {0, 1, 2} /\ seeded \in [Titles12 -> Nat]
         /\ board \in [Targets -> 0..(MaxBumps + 1)] /\ visits \in [Targets -> 0..MaxBumps]
         /\ spent \in [presets: 0..MaxPresets, bumps: 0..MaxBumps, boots: 0..MaxReboots]
         /\ spent.presets \in Nat /\ spent.bumps \in Nat /\ spent.boots \in Nat
         /\ spent.presets <= MaxPresets /\ spent.bumps <= MaxBumps
         /\ \A k \in Targets : board[k] \in Nat /\ visits[k] \in Nat /\ visits[k] <= spent.bumps
BY SeedCounts DEF SeedsInv, SeedsTypeOK, VisitsCounted

\* What a seeding step does to the invariant: the titles are new with the version.
LEMMA BootSeeds ==
  ASSUME SeedsInv, NEW titles \in SUBSET Titles12, NEW v \in {1, 2},
         Seeding(titles, v), v = version + 1,
         v = 1 => titles \subseteq SeedTitles, v = 2 => titles \subseteq SeedTitles2,
         boot' \in {"v2", "load"}, BoardIsUnused, UNCHANGED spent
  PROVE  SeedsInv'
<1>t. /\ lastPreset \in Nat /\ version \in {0, 1, 2} /\ seeded \in [Titles12 -> Nat]
      /\ spent.presets \in Nat /\ spent.presets <= MaxPresets
      /\ Count1 \in Nat /\ Count2 \in Nat /\ MaxPresets \in Nat
      /\ lastPreset <= MayHold(version, spent.presets)
  BY SeedTypes, SeedCounts DEF SeedsInv, NumberedOn
<1> DEFINE n == Cardinality(titles)
<1>1. /\ n \in Nat
      /\ v = 1 => n <= Count1
      /\ v = 2 => n <= Count2
  <2>1. IsFiniteSet(SeedTitles) /\ IsFiniteSet(SeedTitles2)
    BY SeedsAssumption
  <2>2. v = 1 => IsFiniteSet(titles) /\ n <= Count1
    BY <2>1, FS_Subset DEF Count1
  <2>3. v = 2 => IsFiniteSet(titles) /\ n <= Count2
    BY <2>1, FS_Subset DEF Count2
  <2> QED
    BY <2>2, <2>3, FS_CardinalityType
<1> HIDE DEF n
<1>2. lastPreset + n <= MayHold(v, spent.presets) /\ lastPreset + n <= MaxPresets + Count1 + Count2
  <2>1. CASE v = 1
    BY <1>t, <1>1, <2>1 DEF MayHold
  <2>2. CASE v = 2
    BY <1>t, <1>1, <2>2 DEF MayHold
  <2> QED
    BY <2>1, <2>2
<1>3. \A t \in titles : seeded[t] = 0
  BY <1>t DEF SeedsInv, SeededByVersion
<1>4. /\ lib' \subseteq Preset /\ version' = v
      /\ lastPreset' \in {0} \cup Orders /\ lastPreset' = lastPreset + n
      /\ seeded' \in [Titles12 -> Nat]
      /\ \A t \in Titles12 : seeded'[t] <= 1 /\ (t \notin titles => seeded'[t] = seeded[t])
      /\ \A p \in lib' : p.id <= lastPreset' /\ p.order <= lastPreset'
      /\ \A p, q \in lib' : p.order = q.order => p = q
  BY <1>1, <1>2, <1>3, SeedingKeeps DEF n
<1>5. NumberedOn'
  BY <1>2, <1>4 DEF NumberedOn, MayHold
<1>6. SeededByVersion'
  <2>1. v = 1 => SeedTitles2 \cap titles = {} /\ SeedTitles2 \subseteq Titles12
    BY SeedsAssumption DEF Titles12
  <2>2. v = 1 => \A t \in SeedTitles2 : seeded[t] = 0
    BY <1>t DEF SeedsInv, SeededByVersion
  <2> QED
    BY <1>4, <2>1, <2>2 DEF SeededByVersion
<1>7. SeededOnce'
  BY <1>4 DEF SeededOnce
<1>8. HitsAreVisits' /\ VisitsCounted'
  BY DEF BoardIsUnused, SeedsInv, HitsAreVisits, VisitsCounted
<1>9. SeedsTypeOK'
  BY <1>4 DEF BoardIsUnused, SeedsInv, SeedsTypeOK
<1> QED
  BY <1>5, <1>6, <1>7, <1>8, <1>9 DEF SeedsInv

LEMMA BootStep ==
  ASSUME SeedsInv, SeedIfUnseeded \/ SeedV2IfNeeded
  PROVE  SeedsInv' /\ board' = board
<1>1. CASE UNCHANGED <<lib, lastPreset, seeded, version>>
  <2>1. boot' \in {"v2", "load"} /\ BoardIsUnused /\ UNCHANGED spent
    BY DEF SeedIfUnseeded, SeedV2IfNeeded
  <2> QED
    BY <1>1, <2>1 DEF BoardIsUnused, SeedsInv, SeedsTypeOK, SeededOnce, HitsAreVisits, SeededByVersion,
       NumberedOn, VisitsCounted, MayHold
<1>2. CASE SeedIfUnseeded /\ version = 0 /\ Seeding(IF lib = {} THEN SeedTitles ELSE {}, 1)
  <2>1. PICK titles \in SUBSET SeedTitles : Seeding(titles, 1)
    BY <1>2
  <2>2. titles \in SUBSET Titles12 /\ boot' = "v2" /\ BoardIsUnused /\ UNCHANGED spent
    BY <1>2, <2>1 DEF SeedIfUnseeded, Titles12
  <2> QED
    BY <1>2, <2>1, <2>2, BootSeeds DEF BoardIsUnused
<1>3. CASE SeedV2IfNeeded /\ version = 1 /\ Seeding(SeedTitles2 \ {p.title : p \in lib}, 2)
  <2>1. PICK titles \in SUBSET SeedTitles2 : Seeding(titles, 2)
    BY <1>3
  <2>2. titles \in SUBSET Titles12 /\ boot' = "load" /\ BoardIsUnused /\ UNCHANGED spent
    BY <1>3, <2>1 DEF SeedV2IfNeeded, Titles12
  <2> QED
    BY <1>3, <2>1, <2>2, BootSeeds DEF BoardIsUnused
<1> QED
  BY <1>1, <1>2, <1>3 DEF SeedIfUnseeded, SeedV2IfNeeded, BoardIsUnused

LEMMA PresetStep ==
  ASSUME SeedsInv,
         \/ \E t \in Titles12 \cup OwnTitles : CreatePreset(t) \/ \E p \in lib : UpdatePreset(p, t)
         \/ \E p \in lib : DeletePreset(p)
  PROVE  SeedsInv' /\ board' = board
<1>t. /\ lib \subseteq Preset /\ lastPreset \in Nat /\ version \in {0, 1, 2}
      /\ spent \in [presets: 0..MaxPresets, bumps: 0..MaxBumps, boots: 0..MaxReboots]
      /\ spent.presets \in Nat /\ spent.presets <= MaxPresets
      /\ Count1 \in Nat /\ Count2 \in Nat /\ MaxPresets \in Nat
      /\ lastPreset <= MayHold(version, spent.presets)
      /\ \A p \in lib : /\ p.id \in Nat /\ p.order \in Nat
                        /\ p.id <= lastPreset /\ p.order <= lastPreset
      /\ \A p, q \in lib : p.order = q.order => p = q
  BY SeedTypes, SeedCounts DEF SeedsInv, NumberedOn, SeededOnce
<1>u. UNCHANGED <<version, boot, seeded, left, board, exists, listing, visits>>
  BY DEF CreatePreset, UpdatePreset, DeletePreset, Presets, BoardIsUnused
<1>1. ASSUME lib' \subseteq Preset, lastPreset' \in {0} \cup Orders,
             spent' \in [presets: 0..MaxPresets, bumps: 0..MaxBumps, boots: 0..MaxReboots],
             spent'.bumps = spent.bumps, lastPreset' <= MayHold(version, spent'.presets),
             \A p \in lib' : p.id <= lastPreset' /\ p.order <= lastPreset',
             \A p, q \in lib' : p.order = q.order => p = q
      PROVE  SeedsInv'
  <2>1. SeedsTypeOK'
    BY <1>u, <1>1 DEF SeedsInv, SeedsTypeOK
  <2>2. SeededOnce' /\ SeededByVersion' /\ HitsAreVisits' /\ VisitsCounted'
    BY <1>u, <1>1 DEF SeedsInv, SeededOnce, SeededByVersion, HitsAreVisits, VisitsCounted
  <2>3. NumberedOn'
    BY <1>u, <1>1 DEF NumberedOn, MayHold
  <2> QED
    BY <2>1, <2>2, <2>3 DEF SeedsInv
<1>2. ASSUME NEW t \in Titles12 \cup OwnTitles, CreatePreset(t) PROVE SeedsInv'
  <2> DEFINE new == [id |-> lastPreset + 1, title |-> t, order |-> MaxOrder + 1]
  <2>1. /\ spent.presets < MaxPresets /\ spent' = [spent EXCEPT !.presets = spent.presets + 1]
        /\ lastPreset' = lastPreset + 1 /\ lib' = lib \cup {new}
    BY <1>2 DEF CreatePreset, Presets, Use
  <2>2. /\ spent' \in [presets: 0..MaxPresets, bumps: 0..MaxBumps, boots: 0..MaxReboots]
        /\ spent'.bumps = spent.bumps /\ spent'.presets = spent.presets + 1
    BY <1>t, <2>1
  <2>3. lastPreset' <= MayHold(version, spent'.presets)
    BY <1>t, <2>1, <2>2 DEF MayHold
  <2>4. MayHold(version, spent.presets) + 1 <= MaxPresets + Count1 + Count2
    BY <1>t, <2>1 DEF MayHold
  <2>5. MaxOrder \in Nat /\ MaxOrder <= lastPreset /\ \A p \in lib : p.order <= MaxOrder
    BY MaxOrderFacts
  <2>6. lastPreset + 1 <= MaxPresets + Count1 + Count2
    BY <1>t, <2>1 DEF MayHold
  <2>7. PICK a \in Nat, b \in Nat, c \in Nat : a = lastPreset /\ b = MaxOrder /\ c = MaxPresets + Count1 + Count2
    BY <1>t, <2>5
  <2>8. a + 1 \in 1..c /\ b + 1 \in 1..c
    BY <2>5, <2>6, <2>7
  <2>9. new \in Preset /\ new.id = a + 1 /\ new.order = b + 1 /\ a + 1 \in Orders
    BY <2>7, <2>8, SeedCounts
  <2> HIDE DEF new
  <2>10. \A p \in lib' : p.id <= lastPreset' /\ p.order <= lastPreset'
    <3>1. lastPreset' = a + 1 /\ b <= a
      BY <2>1, <2>5, <2>7
    <3>2. \A p \in lib : p.id <= a + 1 /\ p.order <= a + 1
      BY <1>t, <2>7
    <3> QED
      BY <2>1, <2>9, <3>1, <3>2
  <2>11. \A p \in lib : p.order # new.order
    BY <1>t, <2>5, <2>7, <2>9
  <2>12. \A p, q \in lib' : p.order = q.order => p = q
    BY <1>t, <2>1, <2>11
  <2>13. lib' \subseteq Preset /\ lastPreset' \in {0} \cup Orders
    BY <1>t, <2>1, <2>7, <2>9
  <2> QED
    BY <1>1, <2>2, <2>3, <2>10, <2>12, <2>13
<1>3. ASSUME NEW t \in Titles12 \cup OwnTitles, NEW p \in lib, UpdatePreset(p, t) PROVE SeedsInv'
  <2> DEFINE new == [p EXCEPT !.title = t]
  <2>1. lib' = (lib \ {p}) \cup {new} /\ UNCHANGED <<lastPreset, spent>>
    BY <1>3 DEF UpdatePreset, Presets
  <2>2. new \in Preset /\ new.id = p.id /\ new.order = p.order
    BY <1>t, SeedCounts
  <2> HIDE DEF new
  <2>3. /\ lib' \subseteq Preset /\ lastPreset' \in {0} \cup Orders
        /\ lastPreset' <= MayHold(version, spent'.presets)
        /\ spent' \in [presets: 0..MaxPresets, bumps: 0..MaxBumps, boots: 0..MaxReboots]
    BY <1>t, <2>1, <2>2 DEF SeedsInv, SeedsTypeOK
  <2>4. \A r \in lib' : r.id <= lastPreset' /\ r.order <= lastPreset'
    BY <1>t, <2>1, <2>2
  <2>5. \A q, r \in lib' : q.order = r.order => q = r
    BY <1>t, <2>1, <2>2
  <2> QED
    BY <1>1, <2>1, <2>3, <2>4, <2>5
<1>4. ASSUME NEW p \in lib, DeletePreset(p) PROVE SeedsInv'
  <2>1. lib' \subseteq lib /\ UNCHANGED <<lastPreset, spent>>
    BY <1>4 DEF DeletePreset, Presets
  <2>2. lastPreset' \in {0} \cup Orders
    BY <2>1 DEF SeedsInv, SeedsTypeOK
  <2>3. \A r \in lib' : r.id <= lastPreset' /\ r.order <= lastPreset'
    BY <1>t, <2>1
  <2> QED
    BY <1>t, <1>1, <2>1, <2>2, <2>3
<1> QED
  BY <1>u, <1>2, <1>3, <1>4

\* The board and the boot's other steps leave the presets alone.
LEMMA BoardStep ==
  ASSUME SeedsInv,
         \/ LoadHistory \/ Backfill \/ RestartSeeded \/ ListTargets \/ ListForgets
         \/ \E k \in Targets : BumpTarget(k) \/ ForgetTarget(k) \/ TargetMoves(k)
  PROVE  SeedsInv' /\ BackfillStep
<1>t. /\ board \in [Targets -> 0..(MaxBumps + 1)] /\ visits \in [Targets -> 0..MaxBumps]
      /\ spent \in [presets: 0..MaxPresets, bumps: 0..MaxBumps, boots: 0..MaxReboots]
      /\ \A k \in Targets : board[k] \in Nat /\ visits[k] \in Nat /\ visits[k] <= spent.bumps
      /\ MaxBumps \in Nat /\ MaxReboots \in Nat /\ left \subseteq History
      /\ exists \subseteq Targets /\ listing \subseteq Targets
      /\ boot \in {"v1", "v2", "load", "backfill", "up"}
      /\ \A k \in Targets : board[k] \in {visits[k], visits[k] + 1}
      /\ spent.bumps \in Nat /\ spent.bumps <= MaxBumps
  BY SeedTypes, SeedCounts DEF SeedsInv, SeedsTypeOK, HitsAreVisits
<1>u. UNCHANGED <<lib, version, lastPreset, seeded>>
  BY DEF LoadHistory, Backfill, RestartSeeded, ListTargets, ListForgets, BumpTarget, ForgetTarget,
     TargetMoves, Board
<1>1. ASSUME board' \in [Targets -> 0..(MaxBumps + 1)], visits' \in [Targets -> 0..MaxBumps],
             spent' \in [presets: 0..MaxPresets, bumps: 0..MaxBumps, boots: 0..MaxReboots],
             spent'.presets = spent.presets,
             left' \subseteq History, exists' \subseteq Targets, listing' \subseteq Targets,
             boot' \in {"v1", "v2", "load", "backfill", "up"},
             \A k \in Targets : board'[k] \in {visits'[k], visits'[k] + 1},
             \A k \in Targets : visits'[k] <= spent'.bumps,
             boot' = "backfill" => \A k \in Targets : visits'[k] = 0
      PROVE  SeedsInv'
  <2>1. SeedsTypeOK'
    BY <1>u, <1>1 DEF SeedsInv, SeedsTypeOK
  <2>2. SeededOnce' /\ SeededByVersion' /\ HitsAreVisits' /\ VisitsCounted'
    BY <1>u, <1>1 DEF SeedsInv, SeededOnce, SeededByVersion, HitsAreVisits, VisitsCounted
  <2>3. NumberedOn'
    BY <1>u, <1>1 DEF SeedsInv, NumberedOn, MayHold
  <2> QED
    BY <2>1, <2>2, <2>3 DEF SeedsInv
<1>2. CASE LoadHistory
  <2>1. UNCHANGED <<board, exists, listing, visits, spent>>
    BY <1>2 DEF LoadHistory
  <2>2. /\ boot' \in {"backfill", "up"} /\ left' \subseteq History
        /\ boot' = "backfill" => \A k \in Targets : visits'[k] = 0
    BY <1>t, <1>2 DEF LoadHistory
  <2> QED
    BY <1>t, <1>1, <2>1, <2>2 DEF BackfillStep
<1>3. CASE Backfill
  <2>1. boot = "backfill" /\ UNCHANGED <<exists, listing, visits, spent>> /\ \A k \in Targets : visits[k] = 0
    BY <1>3 DEF Backfill, SeedsInv, VisitsCounted
  <2>2. ASSUME NEW s \in left, board' = [board EXCEPT ![s[1]] = IF @ = 0 THEN 1 ELSE @]
        PROVE  /\ board' \in [Targets -> 0..(MaxBumps + 1)]
               /\ \A k \in Targets : board'[k] \in {visits[k], visits[k] + 1}
    <3>1. s[1] \in Targets
      BY <1>t DEF History
    <3> QED
      BY <1>t, <2>1, <2>2, <3>1
  <2>3. /\ board' \in [Targets -> 0..(MaxBumps + 1)]
        /\ \A k \in Targets : board'[k] \in {visits[k], visits[k] + 1}
        /\ left' \subseteq History /\ boot' \in {"backfill", "up"}
    BY <1>t, <1>3, <2>2 DEF Backfill
  <2> QED
    BY <1>t, <1>1, <2>1, <2>3 DEF BackfillStep
<1>4. CASE RestartSeeded
  <2>1. /\ spent.boots < MaxReboots /\ spent' = [spent EXCEPT !.boots = spent.boots + 1]
        /\ boot' = "v1" /\ left' = {} /\ listing' = {} /\ UNCHANGED <<board, exists, visits>>
    BY <1>4 DEF RestartSeeded, Use
  <2>2. /\ spent' \in [presets: 0..MaxPresets, bumps: 0..MaxBumps, boots: 0..MaxReboots]
        /\ spent'.presets = spent.presets /\ spent'.bumps = spent.bumps
    BY <1>t, <2>1
  <2> QED
    BY <1>t, <1>1, <2>1, <2>2 DEF BackfillStep
<1>5. ASSUME NEW k \in Targets, BumpTarget(k) PROVE SeedsInv' /\ BackfillStep
  <2>1. /\ spent.bumps < MaxBumps /\ spent' = [spent EXCEPT !.bumps = spent.bumps + 1]
        /\ board' = [board EXCEPT ![k] = board[k] + 1] /\ visits' = [visits EXCEPT ![k] = visits[k] + 1]
        /\ boot = "up" /\ UNCHANGED <<boot, left, exists, listing>>
    BY <1>5 DEF BumpTarget, Board, Use
  <2>2. /\ spent' \in [presets: 0..MaxPresets, bumps: 0..MaxBumps, boots: 0..MaxReboots]
        /\ spent'.presets = spent.presets /\ spent'.bumps = spent.bumps + 1
    BY <1>t, <2>1
  <2>3. \A q \in Targets : /\ board'[q] = IF q = k THEN board[q] + 1 ELSE board[q]
                           /\ visits'[q] = IF q = k THEN visits[q] + 1 ELSE visits[q]
    BY <1>t, <2>1
  <2>4. \A q \in Targets : board'[q] \in {visits'[q], visits'[q] + 1}
    BY <1>t, <2>3
  <2>5. \A q \in Targets : visits'[q] \in Nat /\ visits'[q] <= spent.bumps + 1 /\ visits'[q] <= MaxBumps
    BY <1>t, <2>1, <2>3
  <2>6. visits' \in [Targets -> 0..MaxBumps]
    BY <1>t, <2>1, <2>5
  <2>7. board' \in [Targets -> 0..(MaxBumps + 1)]
    <3>1. \A q \in Targets : board'[q] \in 0..(MaxBumps + 1)
      BY <1>t, <2>4, <2>5
    <3> QED
      BY <1>t, <2>1, <3>1
  <2> QED
    BY <1>t, <1>1, <2>1, <2>2, <2>4, <2>5, <2>6, <2>7 DEF BackfillStep
<1>6. ASSUME NEW K, Forgotten(K), boot = "up", boot' = boot, left' = left, listing' \subseteq Targets,
             exists' = exists, spent' = spent
      PROVE  SeedsInv' /\ BackfillStep
  <2>1. /\ board' \in [Targets -> 0..(MaxBumps + 1)] /\ visits' \in [Targets -> 0..MaxBumps]
        /\ \A k \in Targets : board'[k] \in {visits'[k], visits'[k] + 1}
        /\ \A k \in Targets : visits'[k] <= spent.bumps
    BY <1>t, <1>6 DEF Forgotten
  <2> QED
    BY <1>t, <1>1, <1>6, <2>1 DEF BackfillStep
<1>7. ASSUME NEW k \in Targets, ForgetTarget(k) PROVE SeedsInv' /\ BackfillStep
  BY <1>t, <1>6, <1>7 DEF ForgetTarget, Board
<1>8. CASE ListForgets
  <2>1. \E K : Forgotten(K)
    BY <1>8 DEF ListForgets, Board
  <2> QED
    BY <1>t, <1>6, <1>8, <2>1 DEF ListForgets, Board
<1>9. CASE ListTargets
  <2>1. UNCHANGED <<board, exists, visits, spent, boot, left>> /\ listing' \subseteq Targets
    BY <1>9 DEF ListTargets, Board
  <2> QED
    BY <1>t, <1>1, <2>1 DEF BackfillStep, SeedsInv, VisitsCounted
<1>10. ASSUME NEW k \in Targets, TargetMoves(k) PROVE SeedsInv' /\ BackfillStep
  <2>1. UNCHANGED <<board, listing, visits, spent, boot, left>> /\ exists' \subseteq Targets
    BY <1>t, <1>10 DEF TargetMoves
  <2> QED
    BY <1>t, <1>1, <2>1 DEF BackfillStep, SeedsInv, VisitsCounted
<1> QED
  BY <1>2, <1>3, <1>4, <1>5, <1>7, <1>8, <1>9, <1>10

LEMMA SeedsStep == ASSUME SeedsInv, [SeedsNext]_seedsVars PROVE SeedsInv' /\ [BackfillStep]_seedsVars
<1>1. CASE UNCHANGED seedsVars
  BY <1>1 DEF seedsVars, SeedsInv, SeedsTypeOK, SeededOnce, HitsAreVisits, SeededByVersion, NumberedOn,
     VisitsCounted, MayHold
<1>2. CASE SeedsNext
  BY <1>2, BootStep, PresetStep, BoardStep DEF SeedsNext, BackfillStep
<1> QED
  BY <1>1, <1>2

\* ChoicesStand, the part of the seeds: no preset is seeded twice, restarts are no
\* visits, and a boot adds nothing to a board somebody has used.
THEOREM SeedsStandHolds == Spec => SeedsStand /\ []SeedsTypeOK
<1>1. Init => SeedsInv
  <2> SUFFICES ASSUME Init PROVE SeedsInv
    OBVIOUS
  <2>1. SeedsInit
    BY DEF Init
  <2>2. SeedsTypeOK
    BY <2>1, SeedCounts DEF SeedsInit, SeedsTypeOK
  <2>3. SeededOnce /\ HitsAreVisits /\ SeededByVersion /\ VisitsCounted
    BY <2>1 DEF SeedsInit, SeededOnce, HitsAreVisits, SeededByVersion, VisitsCounted, Titles12
  <2>4. NumberedOn
    BY <2>1, SeedCounts DEF SeedsInit, NumberedOn, MayHold
  <2> QED
    BY <2>2, <2>3, <2>4 DEF SeedsInv
<1>2. SeedsInv /\ [SeedsNext]_seedsVars => SeedsInv' /\ [BackfillStep]_seedsVars
  BY SeedsStep
<1>3. SeedsInv => SeededOnce /\ HitsAreVisits /\ SeedsTypeOK
  BY DEF SeedsInv
<1>4. [Next]_vars => [SeedsNext]_seedsVars
  BY EachStays
<1> QED
  BY <1>1, <1>2, <1>3, <1>4, PTL DEF Spec, SeedsStand

\* What a user chose stands: no task, failure or restart takes it back.
THEOREM ChoicesStandHolds == Spec => ChoicesStand
BY SubscriptionsStandHolds, TitleYieldsHolds, UploadsStandHolds, SeedsStandHolds, PTL DEF ChoicesStand

-----------------------------------------------------------------------------
(* Events. A prune is never ahead of the clock, nor a row.                  *)

EventsInv ==
  /\ EventsTypeOK /\ OldEventsGo
  /\ pruned <= day
  /\ \A r \in events : r.born <= day

LEMMA EventsStep ==
  ASSUME EventsInv, [EventsNext]_eventVars
  PROVE  EventsInv' /\ [PruneSparesYoung]_eventVars
<1>t. /\ day \in Nat /\ pruned \in Nat /\ pruned <= day /\ MaxEventDays \in Nat /\ Retention \in Nat
      /\ day <= MaxEventDays /\ pruneDue \in BOOLEAN
      /\ events \subseteq AgentEvent
      /\ \A r \in AgentEvent : r.born \in Nat /\ r.id \in 1..MaxEvents
      /\ \A r \in events : r.born <= day /\ pruned - r.born <= Retention
  BY EventsAssumption DEF EventsInv, EventsTypeOK, AgentEvent, OldEventsGo
<1>1. ASSUME events' \subseteq AgentEvent, day' \in Nat, day' <= MaxEventDays, day <= day', pruneDue' \in BOOLEAN,
             pruned' \in {pruned, day},
             \A r \in events' : r.born <= day' /\ pruned' - r.born <= Retention
      PROVE  EventsInv'
  <2>1. pruned' \in Nat /\ pruned' <= day' /\ day' \in 0..MaxEventDays /\ pruned' \in 0..MaxEventDays
    BY <1>t, <1>1
  <2> QED
    BY <1>1, <2>1 DEF EventsInv, EventsTypeOK, OldEventsGo
<1>2. ASSUME NEW o \in EventOwners, EventInserted(o) \/ UNCHANGED events, UNCHANGED <<day, pruneDue, pruned>>
      PROVE  EventsInv' /\ PruneSparesYoung
  <2>1. CASE UNCHANGED events
    BY <1>t, <1>1, <1>2, <2>1 DEF PruneSparesYoung
  <2>2. ASSUME NEW id \in 1..MaxEvents, events' = events \cup {[id |-> id, owner |-> o, born |-> Now]}
        PROVE  EventsInv'
    <3> DEFINE new == [id |-> id, owner |-> o, born |-> day]
    <3>1. new \in AgentEvent /\ new.born = day
      BY <1>t DEF AgentEvent
    <3>2. events' = events \cup {new}
      BY <2>2 DEF Now
    <3> HIDE DEF new
    <3>3. pruned - new.born <= Retention
      BY <1>t, <3>1
    <3>4. events' \subseteq AgentEvent /\ \A r \in events' : r.born <= day /\ pruned - r.born <= Retention
      BY <1>t, <3>1, <3>2, <3>3
    <3> QED
      BY <1>t, <1>1, <1>2, <3>4
  <2> QED
    BY <1>2, <2>1, <2>2 DEF EventInserted, PruneSparesYoung
<1>3. ASSUME NEW o \in EventOwners, DeleteEvent(o) PROVE EventsInv' /\ PruneSparesYoung
  <2>1. events' \subseteq events /\ UNCHANGED <<day, pruneDue, pruned>>
    BY <1>3 DEF DeleteEvent
  <2> QED
    BY <1>t, <1>1, <2>1 DEF PruneSparesYoung
<1>4. CASE PruneEvents
  <2>1. CASE UNCHANGED <<events, pruned>>
    <3>1. day' = day /\ pruneDue' = FALSE
      BY <1>4 DEF PruneEvents
    <3>2. PruneSparesYoung
      BY <2>1 DEF PruneSparesYoung
    <3>3. EventsInv'
      <4>1. events' \subseteq AgentEvent /\ pruned' \in {pruned, day} /\ pruneDue' \in BOOLEAN
        BY <1>t, <2>1, <3>1
      <4>2. \A r \in events' : r.born <= day' /\ pruned' - r.born <= Retention
        BY <1>t, <2>1, <3>1
      <4>3. day' \in Nat /\ day' <= MaxEventDays /\ day <= day'
        BY <1>t, <3>1
      <4> QED
        BY <1>1, <4>1, <4>2, <4>3
    <3> QED
      BY <3>2, <3>3
  <2>2. CASE events' = events \ Old /\ pruned' = day
    <3>1. day' = day /\ pruneDue' = FALSE
      BY <1>4 DEF PruneEvents
    <3>2. \A r \in events : r \in Old <=> day - r.born > Retention
      BY DEF Old, Now
    <3>3. \A r \in events' : r \in events /\ r.born <= day /\ day - r.born <= Retention
      BY <1>t, <2>2, <3>2
    <3>4. PruneSparesYoung
      BY <2>2, <3>2 DEF PruneSparesYoung
    <3>5. events' \subseteq AgentEvent /\ pruned' \in {pruned, day} /\ pruneDue' \in BOOLEAN
      BY <1>t, <2>2, <3>1
    <3>6. \A r \in events' : r.born <= day' /\ pruned' - r.born <= Retention
      BY <2>2, <3>1, <3>3
    <3>7. EventsInv'
      BY <1>t, <1>1, <3>1, <3>5, <3>6
    <3> QED
      BY <3>4, <3>7
  <2> QED
    BY <1>4, <2>1, <2>2 DEF PruneEvents
<1>5. CASE EventsMidnight
  <2>1. day' = day + 1 /\ day < MaxEventDays /\ pruneDue' = TRUE /\ UNCHANGED <<events, pruned>>
    BY <1>5 DEF EventsMidnight
  <2>2. day' \in Nat /\ day' <= MaxEventDays /\ day <= day' /\ \A r \in events : r.born <= day'
    BY <1>t, <2>1
  <2> QED
    BY <1>t, <1>1, <2>1, <2>2 DEF PruneSparesYoung
<1>6. CASE EventsBoot
  <2>1. pruneDue' = TRUE /\ UNCHANGED <<day, events, pruned>>
    BY <1>6 DEF EventsBoot
  <2> QED
    BY <1>t, <1>1, <2>1 DEF PruneSparesYoung
<1>7. CASE UNCHANGED eventVars
  BY <1>t, <1>1, <1>7 DEF eventVars
<1> QED
  BY <1>2, <1>3, <1>4, <1>5, <1>6, <1>7 DEF EventsNext, LogResultEvent, CreateEvent

\* RecordsStand, the part of the events: nothing outlives a prune that worked by
\* more than the retention, and no prune takes anything younger.
THEOREM EventsStandHolds == Spec => EventsStand /\ []EventsTypeOK
<1>1. Init => EventsInv
  <2> SUFFICES ASSUME Init PROVE EventsInv
    OBVIOUS
  <2>1. day = 0 /\ pruned = 0 /\ pruneDue = TRUE /\ events = {[id |-> 1, owner |-> LegacyOwner, born |-> 0]}
    BY DEF Init, EventsInit
  <2>2. 1 \in 1..MaxEvents /\ 0 \in 0..MaxEventDays /\ Retention \in Nat
    BY EventsAssumption
  <2>3. [id |-> 1, owner |-> LegacyOwner, born |-> 0] \in AgentEvent
    BY <2>2 DEF AgentEvent
  <2>4. \A r \in events : r.born = 0
    BY <2>1
  <2> QED
    BY <2>1, <2>2, <2>3, <2>4 DEF EventsInv, EventsTypeOK, OldEventsGo
<1>2. EventsInv /\ [EventsNext]_eventVars => EventsInv' /\ [PruneSparesYoung]_eventVars
  BY EventsStep
<1>3. EventsInv => OldEventsGo /\ EventsTypeOK
  BY DEF EventsInv
<1>4. [Next]_vars => [EventsNext]_eventVars
  BY EachStays
<1> QED
  BY <1>1, <1>2, <1>3, <1>4, PTL DEF Spec, EventsStand

-----------------------------------------------------------------------------
(* The log. For each session there is the number of the last entry the      *)
(* writer took: the channel holds the ones after it, in order, and the ring *)
(* the newest up to it since it was last dropped.                           *)

ChannelIs(queue, last, upto) ==
  /\ \A s \in LogSids : last[s] <= upto[s]
  /\ \A i \in 1..Len(queue) : last[queue[i].sid] < queue[i].n /\ queue[i].n <= upto[queue[i].sid]
  /\ \A i, j \in 1..Len(queue) : i < j /\ queue[i].sid = queue[j].sid => queue[i].n < queue[j].n
  /\ \A s \in LogSids, n \in Nat :
        last[s] < n /\ n <= upto[s] => \E i \in 1..Len(queue) : queue[i].sid = s /\ queue[i].n = n

RingIs(kept, last, since) ==
  /\ Len(kept) = IF last - since < RingSize THEN last - since ELSE RingSize
  /\ \A i \in 1..Len(kept) : kept[i] = last - Len(kept) + i

RingsAre(last) ==
  \A s \in LogSids : dropped[s] <= last[s] /\ RingIs(rings[s], last[s], dropped[s])

BatchBounds ==
  /\ unflushed <= batch
  /\ writer = "recv" => batch < Batch
  /\ writer = "drain" => batch <= Batch

LogInv ==
  /\ LogTypeOK /\ BatchBounds
  /\ \E last \in [LogSids -> Nat] : ChannelIs(logQueue, last, logged) /\ RingsAre(last)

LEMMA LogTypes ==
  ASSUME LogTypeOK
  PROVE  /\ RingSize \in Nat /\ RingSize > 0 /\ LogCap \in Nat /\ Batch \in Nat /\ Batch > 1
         /\ MaxEntries \in Nat /\ MaxLogDays \in Nat
         /\ logged \in [LogSids -> 0..MaxEntries] /\ dropped \in [LogSids -> 0..MaxEntries]
         /\ \A s \in LogSids : logged[s] \in Nat /\ logged[s] <= MaxEntries /\ dropped[s] \in Nat
         /\ logQueue \in Seq(LogEntry) /\ rings \in [LogSids -> Seq(1..MaxEntries)]
         /\ Len(logQueue) \in Nat
         /\ \A i \in 1..Len(logQueue) : logQueue[i].sid \in LogSids /\ logQueue[i].n \in Nat
         /\ \A s \in LogSids : rings[s] \in Seq(1..MaxEntries) /\ Len(rings[s]) \in Nat
<1>1. /\ RingSize \in Nat /\ RingSize > 0 /\ LogCap \in Nat /\ Batch \in Nat /\ Batch > 1
      /\ MaxEntries \in Nat /\ MaxLogDays \in Nat
  BY LogAssumption
<1>2. /\ logged \in [LogSids -> 0..MaxEntries] /\ dropped \in [LogSids -> 0..MaxEntries]
      /\ \A s \in LogSids : logged[s] \in Nat /\ logged[s] <= MaxEntries /\ dropped[s] \in Nat
  BY <1>1 DEF LogTypeOK
<1>3. logQueue \in Seq(LogEntry) /\ rings \in [LogSids -> Seq(1..MaxEntries)]
  BY DEF LogTypeOK
<1>4. Len(logQueue) \in Nat /\ \A i \in 1..Len(logQueue) : logQueue[i] \in LogEntry
  BY <1>3, LenProperties, ElementOfSeq
<1>5. \A e \in LogEntry : e.sid \in LogSids /\ e.n \in Nat
  BY DEF LogEntry
<1>6. \A s \in LogSids : rings[s] \in Seq(1..MaxEntries) /\ Len(rings[s]) \in Nat
  BY <1>3, LenProperties
<1> QED
  BY <1>1, <1>2, <1>3, <1>4, <1>5, <1>6

\* One more entry enters a kept; the oldest leaves a full one.
LEMMA RingPushed ==
  ASSUME NEW kept \in Seq(1..MaxEntries), NEW last \in Nat, NEW since \in Nat, since <= last,
         RingIs(kept, last, since), last + 1 \in 1..MaxEntries, RingSize \in Nat, RingSize > 0
  PROVE  Pushed(kept, last + 1) \in Seq(1..MaxEntries) /\ RingIs(Pushed(kept, last + 1), last + 1, since)
<1> DEFINE n == last + 1
<1>1. Len(kept) \in Nat /\ Len(kept) <= RingSize
  BY LenProperties DEF RingIs
<1>2. CASE Len(kept) < RingSize
  <2>1. Pushed(kept, n) = Append(kept, n)
    BY <1>1, <1>2 DEF Pushed
  <2>2. /\ Append(kept, n) \in Seq(1..MaxEntries) /\ Len(Append(kept, n)) = Len(kept) + 1
        /\ \A i \in 1..Len(kept) : Append(kept, n)[i] = kept[i]
        /\ Append(kept, n)[Len(kept) + 1] = n
    BY AppendProperties
  <2>3. Len(kept) = last - since
    BY <1>1, <1>2 DEF RingIs
  <2>4. Len(Append(kept, n)) = IF n - since < RingSize THEN n - since ELSE RingSize
    BY <1>1, <1>2, <2>2, <2>3
  <2>5. ASSUME NEW i \in 1..Len(Append(kept, n)) PROVE Append(kept, n)[i] = n - Len(Append(kept, n)) + i
    <3>i. i \in 1..(Len(kept) + 1)
      BY <2>2
    <3>1. CASE i = Len(kept) + 1
      BY <1>1, <2>2, <3>1
    <3>2. CASE i \in 1..Len(kept)
      <4>1. Append(kept, n)[i] = last - Len(kept) + i
        BY <2>2, <3>2 DEF RingIs
      <4>2. last - Len(kept) + i = n - (Len(kept) + 1) + i
        BY <1>1, <3>2
      <4> QED
        BY <2>2, <4>1, <4>2
    <3> QED
      <4>1. i = Len(kept) + 1 \/ i \in 1..Len(kept)
        BY <1>1, <3>i
      <4> QED
        BY <3>1, <3>2, <4>1
  <2> QED
    BY <2>1, <2>2, <2>4, <2>5 DEF RingIs
<1>3. CASE Len(kept) = RingSize
  <2>0. kept # <<>>
    BY <1>3
  <2>1. Pushed(kept, n) = Append(Tail(kept), n)
    BY <1>1, <1>3 DEF Pushed
  <2>2. /\ Tail(kept) \in Seq(1..MaxEntries) /\ Len(Tail(kept)) = Len(kept) - 1
        /\ \A i \in 1..Len(Tail(kept)) : Tail(kept)[i] = kept[i + 1]
    BY <2>0, HeadTailProperties
  <2>3. /\ Append(Tail(kept), n) \in Seq(1..MaxEntries)
        /\ Len(Append(Tail(kept), n)) = Len(Tail(kept)) + 1
        /\ \A i \in 1..Len(Tail(kept)) : Append(Tail(kept), n)[i] = Tail(kept)[i]
        /\ Append(Tail(kept), n)[Len(Tail(kept)) + 1] = n
    BY <2>2, AppendProperties
  <2>4. last - since >= RingSize
    BY <1>3 DEF RingIs
  <2>5. Len(Append(Tail(kept), n)) = RingSize
    BY <1>1, <1>3, <2>2, <2>3
  <2>6. ASSUME NEW i \in 1..RingSize PROVE Append(Tail(kept), n)[i] = n - RingSize + i
    <3>i. i \in Nat /\ (i = RingSize \/ i < RingSize)
      OBVIOUS
    <3>1. CASE i = RingSize
      BY <1>1, <1>3, <2>2, <2>3, <3>1
    <3>2. CASE i < RingSize
      <4>1. i \in 1..Len(Tail(kept)) /\ i + 1 \in 1..Len(kept)
        BY <1>1, <1>3, <2>2, <3>2
      <4>2. Append(Tail(kept), n)[i] = kept[i + 1]
        BY <2>2, <2>3, <4>1
      <4>3. kept[i + 1] = last - RingSize + (i + 1)
        BY <1>3, <4>1 DEF RingIs
      <4>4. last - RingSize + (i + 1) = n - RingSize + i
        BY <3>i
      <4> QED
        BY <4>2, <4>3, <4>4
    <3> QED
      BY <3>i, <3>1, <3>2
  <2>7. ~(n - since < RingSize)
    BY <2>4
  <2> QED
    BY <2>1, <2>3, <2>5, <2>6, <2>7 DEF RingIs
<1> QED
  BY <1>1, <1>2, <1>3

LEMMA QueueTypes ==
  ASSUME NEW queue \in Seq(LogEntry)
  PROVE  /\ Len(queue) \in Nat
         /\ \A i \in 1..Len(queue) : queue[i] \in LogEntry /\ queue[i].sid \in LogSids /\ queue[i].n \in Nat
<1>1. Len(queue) \in Nat /\ \A i \in 1..Len(queue) : queue[i] \in LogEntry
  BY LenProperties, ElementOfSeq
<1>2. \A e \in LogEntry : e.sid \in LogSids /\ e.n \in Nat
  BY DEF LogEntry
<1> QED
  BY <1>1, <1>2

LEMMA ChannelIf ==
  ASSUME NEW queue, NEW last, NEW upto,
         \A s \in LogSids : last[s] <= upto[s],
         \A i \in 1..Len(queue) : last[queue[i].sid] < queue[i].n /\ queue[i].n <= upto[queue[i].sid],
         \A i, j \in 1..Len(queue) : i < j /\ queue[i].sid = queue[j].sid => queue[i].n < queue[j].n,
         \A s \in LogSids, n \in Nat :
            last[s] < n /\ n <= upto[s] => \E i \in 1..Len(queue) : queue[i].sid = s /\ queue[i].n = n
  PROVE  ChannelIs(queue, last, upto)
<1> QED
  BY DEF ChannelIs

\* An entry of s is logged: it is the next of its session, and last in the channel.
LEMMA ChannelGrows ==
  ASSUME NEW queue \in Seq(LogEntry), NEW last \in [LogSids -> Nat], NEW upto \in [LogSids -> Nat],
         ChannelIs(queue, last, upto), NEW s \in LogSids, NEW e \in LogEntry,
         e.sid = s, e.n = upto[s] + 1
  PROVE  ChannelIs(Append(queue, e), last, [upto EXCEPT ![s] = upto[s] + 1])
<1> DEFINE longer == Append(queue, e)
           more == [upto EXCEPT ![s] = upto[s] + 1]
<1>1. /\ Len(longer) = Len(queue) + 1 /\ longer[Len(queue) + 1] = e
      /\ \A i \in 1..Len(queue) : longer[i] = queue[i]
  BY AppendProperties
<1>2. Len(queue) \in Nat /\ \A i \in 1..Len(queue) : queue[i].sid \in LogSids /\ queue[i].n \in Nat
  BY QueueTypes
<1>3. /\ \A z \in LogSids : more[z] = IF z = s THEN upto[s] + 1 ELSE upto[z]
      /\ \A z \in LogSids : upto[z] \in Nat /\ last[z] \in Nat /\ last[z] <= upto[z] /\ upto[z] <= more[z]
      /\ more[s] = upto[s] + 1
      /\ \A z \in LogSids : more[z] \in Nat
  BY DEF ChannelIs
<1>4. \A i \in 1..Len(longer) : i \in 1..Len(queue) \/ i = Len(queue) + 1
  BY <1>1, <1>2
<1>5. \A i \in 1..Len(queue) : i < Len(queue) + 1 /\ i \in 1..Len(longer)
  BY <1>1, <1>2
<1>6. Len(queue) + 1 \in 1..Len(longer)
  BY <1>1, <1>2
<1> HIDE DEF longer, more
<1>7. \A z \in LogSids : last[z] <= more[z]
  BY <1>3
<1>8. ASSUME NEW i \in 1..Len(longer)
      PROVE  last[longer[i].sid] < longer[i].n /\ longer[i].n <= more[longer[i].sid]
  <2>1. CASE i = Len(queue) + 1
    BY <1>1, <1>3, <2>1
  <2>2. CASE i \in 1..Len(queue)
    <3>1. last[queue[i].sid] < queue[i].n /\ queue[i].n <= upto[queue[i].sid]
      BY <2>2 DEF ChannelIs
    <3>2. longer[i] = queue[i]
      BY <1>1, <2>2
    <3>3. PICK z \in LogSids, n \in Nat : z = queue[i].sid /\ n = queue[i].n
      BY <1>2, <2>2
    <3>4. n <= upto[z] /\ upto[z] \in Nat /\ upto[z] <= more[z] /\ more[z] \in Nat
      BY <1>3, <3>1, <3>3
    <3>5. n <= more[z]
      BY <3>4
    <3> QED
      BY <3>1, <3>2, <3>3, <3>5
  <2> QED
    BY <1>4, <2>1, <2>2
<1>9. ASSUME NEW i \in 1..Len(longer), NEW j \in 1..Len(longer), i < j, longer[i].sid = longer[j].sid
      PROVE  longer[i].n < longer[j].n
  <2>1. i \in 1..Len(queue)
    BY <1>1, <1>2, <1>4, <1>9
  <2>2. CASE j \in 1..Len(queue)
    BY <1>1, <1>9, <2>1, <2>2 DEF ChannelIs
  <2>3. CASE j = Len(queue) + 1
    <3>1. queue[i].n <= upto[queue[i].sid] /\ queue[i].sid = s
      BY <1>1, <1>9, <2>1, <2>3 DEF ChannelIs
    <3> QED
      BY <1>1, <1>2, <1>3, <2>1, <2>3, <3>1
  <2> QED
    BY <1>4, <2>2, <2>3
<1>10. ASSUME NEW z \in LogSids, NEW n \in Nat, last[z] < n, n <= more[z]
       PROVE  \E i \in 1..Len(longer) : longer[i].sid = z /\ longer[i].n = n
  <2>1. CASE n <= upto[z]
    <3>1. PICK i \in 1..Len(queue) : queue[i].sid = z /\ queue[i].n = n
      BY <1>10, <2>1 DEF ChannelIs
    <3> QED
      BY <1>1, <1>5, <3>1
  <2>2. CASE ~(n <= upto[z])
    <3>1. z = s /\ n = upto[s] + 1
      BY <1>3, <1>10, <2>2
    <3> QED
      BY <1>1, <1>6, <3>1
  <2> QED
    BY <2>1, <2>2
<1>11. ChannelIs(longer, last, more)
  BY <1>7, <1>8, <1>9, <1>10, ChannelIf
<1> QED
  BY <1>11 DEF longer, more

\* The entry at the front is the one after the last its session's ring got.
LEMMA ChannelGives ==
  ASSUME NEW queue \in Seq(LogEntry), NEW last \in [LogSids -> Nat], NEW upto \in [LogSids -> Nat],
         ChannelIs(queue, last, upto), queue # <<>>
  PROVE  /\ Head(queue) \in LogEntry /\ Head(queue).n = last[Head(queue).sid] + 1
         /\ Head(queue).n <= upto[Head(queue).sid]
         /\ ChannelIs(Tail(queue), [last EXCEPT ![Head(queue).sid] = Head(queue).n], upto)
<1> DEFINE e == Head(queue)
           rest == Tail(queue)
           next == [last EXCEPT ![e.sid] = e.n]
<1>1. /\ rest \in Seq(LogEntry) /\ Len(rest) = Len(queue) - 1 /\ e = queue[1]
      /\ \A i \in 1..Len(rest) : rest[i] = queue[i + 1]
  BY HeadTailProperties
<1>2. Len(queue) \in Nat /\ Len(queue) > 0 /\ 1 \in 1..Len(queue)
  BY QueueTypes, EmptySeq
<1>3. e \in LogEntry /\ e.sid \in LogSids /\ e.n \in Nat
  BY <1>1, <1>2, QueueTypes
<1>t. \A i \in 1..Len(queue) : queue[i].sid \in LogSids /\ queue[i].n \in Nat
  BY QueueTypes
<1> HIDE DEF e, rest
<1>4. \A i \in 1..Len(rest) : i + 1 \in 1..Len(queue) /\ 1 < i + 1
  BY <1>1, <1>2
<1>5. \A i \in 1..Len(queue) : i = 1 \/ (i - 1 \in 1..Len(rest) /\ rest[i - 1] = queue[i])
  <2> SUFFICES ASSUME NEW i \in 1..Len(queue), i # 1 PROVE i - 1 \in 1..Len(rest) /\ rest[i - 1] = queue[i]
    OBVIOUS
  <2>1. i - 1 \in 1..Len(rest) /\ (i - 1) + 1 = i
    BY <1>1, <1>2
  <2> QED
    BY <1>1, <2>1
<1>6. last[e.sid] < e.n /\ e.n <= upto[e.sid] /\ last[e.sid] \in Nat /\ upto[e.sid] \in Nat
  BY <1>1, <1>2, <1>3 DEF ChannelIs
<1>7. e.n = last[e.sid] + 1
  <2>0. ASSUME NEW l \in Nat, NEW n \in Nat, NEW u \in Nat, l < n, n <= u
        PROVE  l + 1 \in Nat /\ l < l + 1 /\ l + 1 <= u /\ l + 1 <= n
    BY <2>0
  <2>00. last[e.sid] + 1 \in Nat /\ last[e.sid] < last[e.sid] + 1 /\ last[e.sid] + 1 <= upto[e.sid]
         /\ last[e.sid] + 1 <= e.n
    BY <1>3, <1>6, <2>0
  <2>1. PICK k \in Nat : k = last[e.sid] + 1 /\ last[e.sid] < k /\ k <= upto[e.sid] /\ k <= e.n
    BY <2>00
  <2>2. PICK i \in 1..Len(queue) : queue[i].sid = e.sid /\ queue[i].n = k
    BY <1>3, <2>1 DEF ChannelIs
  <2>3. CASE i = 1
    BY <1>1, <2>1, <2>2, <2>3
  <2>4. CASE i # 1
    <3>1. 1 < i
      BY <1>2, <2>4
    <3>2. queue[1].n < queue[i].n
      BY <1>1, <1>2, <2>2, <3>1 DEF ChannelIs
    <3> QED
      BY <1>1, <1>3, <2>1, <2>2, <3>2
  <2> QED
    BY <2>3, <2>4
<1>8. \A z \in LogSids : next[z] = IF z = e.sid THEN e.n ELSE last[z]
  OBVIOUS
<1> HIDE DEF next
<1>9. \A z \in LogSids : next[z] <= upto[z]
  BY <1>6, <1>8 DEF ChannelIs
<1>10. ASSUME NEW i \in 1..Len(rest)
       PROVE  next[rest[i].sid] < rest[i].n /\ rest[i].n <= upto[rest[i].sid]
  <2>1. rest[i] = queue[i + 1] /\ i + 1 \in 1..Len(queue) /\ 1 < i + 1
    BY <1>1, <1>4
  <2>2. last[queue[i + 1].sid] < queue[i + 1].n /\ queue[i + 1].n <= upto[queue[i + 1].sid]
    BY <2>1 DEF ChannelIs
  <2>3. queue[i + 1].sid = e.sid => e.n < queue[i + 1].n
    BY <1>1, <1>2, <2>1 DEF ChannelIs
  <2> QED
    BY <1>t, <1>8, <2>1, <2>2, <2>3
<1>11. ASSUME NEW i \in 1..Len(rest), NEW j \in 1..Len(rest), i < j, rest[i].sid = rest[j].sid
       PROVE  rest[i].n < rest[j].n
  <2>1. i + 1 < j + 1 /\ i + 1 \in 1..Len(queue) /\ j + 1 \in 1..Len(queue)
    BY <1>1, <1>4, <1>11
  <2>2. rest[i] = queue[i + 1] /\ rest[j] = queue[j + 1]
    BY <1>1
  <2> QED
    BY <1>11, <2>1, <2>2 DEF ChannelIs
<1>12. ASSUME NEW z \in LogSids, NEW n \in Nat, next[z] < n, n <= upto[z]
       PROVE  \E i \in 1..Len(rest) : rest[i].sid = z /\ rest[i].n = n
  <2>1. last[z] < n /\ ~(z = e.sid /\ n = e.n)
    BY <1>3, <1>6, <1>8, <1>12
  <2>2. PICK i \in 1..Len(queue) : queue[i].sid = z /\ queue[i].n = n
    BY <1>12, <2>1 DEF ChannelIs
  <2>3. i # 1
    BY <1>1, <2>1, <2>2
  <2>4. PICK j \in 1..Len(rest) : rest[j] = queue[i]
    BY <1>5, <2>3
  <2> QED
    BY <2>2, <2>4
<1>13. ChannelIs(rest, next, upto)
  <2>1. \A i \in 1..Len(rest) : next[rest[i].sid] < rest[i].n /\ rest[i].n <= upto[rest[i].sid]
    BY <1>10
  <2>2. \A i, j \in 1..Len(rest) : i < j /\ rest[i].sid = rest[j].sid => rest[i].n < rest[j].n
    BY <1>11
  <2>3. \A z \in LogSids, n \in Nat :
           next[z] < n /\ n <= upto[z] => \E i \in 1..Len(rest) : rest[i].sid = z /\ rest[i].n = n
    BY <1>12
  <2> QED
    BY <1>9, <2>1, <2>2, <2>3, ChannelIf
<1> QED
  BY <1>3, <1>6, <1>7, <1>13 DEF e, rest, next

\* What reads neither the channel nor the rings leaves their agreement.
LEMMA ChannelStays ==
  ASSUME NEW last \in [LogSids -> Nat], ChannelIs(logQueue, last, logged), RingsAre(last),
         UNCHANGED <<logQueue, logged, rings, dropped>>
  PROVE  ChannelIs(logQueue', last, logged') /\ RingsAre(last)'
<1> QED
  BY DEF ChannelIs, RingsAre, RingIs

LEMMA LogKeeps ==
  ASSUME LogInv, NEW s \in LogSids, Log(s)
  PROVE  LogInv'
<1>1. PICK last \in [LogSids -> Nat] : ChannelIs(logQueue, last, logged) /\ RingsAre(last)
  BY DEF LogInv
<1> DEFINE e == [sid |-> s, n |-> logged[s] + 1]
<1>2. LogTypeOK
  BY DEF LogInv
<1>3. /\ logged \in [LogSids -> Nat] /\ logged \in [LogSids -> 0..MaxEntries] /\ MaxEntries \in Nat
      /\ logged[s] \in Nat /\ logged[s] < MaxEntries /\ logQueue \in Seq(LogEntry)
  BY <1>2, LogTypes DEF Log
<1>4. logged[s] + 1 \in 1..MaxEntries /\ logged[s] + 1 \in 0..MaxEntries
  BY <1>3
<1>5. e \in LogEntry /\ e.sid = s /\ e.n = logged[s] + 1
  BY <1>4 DEF LogEntry
<1>6. /\ logged' = [logged EXCEPT ![s] = logged[s] + 1] /\ logQueue' = Append(logQueue, e)
      /\ UNCHANGED <<rings, writer, batch, unflushed, today, openDay, dropped, logDeaths>>
  BY DEF Log
<1>7. ChannelIs(Append(logQueue, e), last, [logged EXCEPT ![s] = logged[s] + 1])
  <2> HIDE DEF e
  <2> QED
    BY <1>1, <1>3, <1>5, ChannelGrows
<1>8. ChannelIs(logQueue', last, logged')
  BY <1>6, <1>7
<1>9. RingsAre(last)'
  BY <1>1, <1>6 DEF RingsAre, RingIs
<1>10. LogTypeOK'
  <2>1. logged' \in [LogSids -> 0..MaxEntries]
    BY <1>3, <1>4, <1>6
  <2>2. logQueue' \in Seq(LogEntry)
    <3> HIDE DEF e
    <3> QED
      BY <1>3, <1>5, <1>6, AppendProperties
  <2> QED
    BY <1>2, <1>6, <2>1, <2>2 DEF LogTypeOK
<1>11. BatchBounds'
  BY <1>6 DEF LogInv, BatchBounds
<1> QED
  BY <1>8, <1>9, <1>10, <1>11 DEF LogInv

\* What one entry does to the channel, to the rings and to the file.
LEMMA TakeKeeps ==
  ASSUME LogInv, Take
  PROVE  /\ \E last \in [LogSids -> Nat] : ChannelIs(logQueue', last, logged') /\ RingsAre(last)'
         /\ logQueue' \in Seq(LogEntry) /\ rings' \in [LogSids -> Seq(1..MaxEntries)]
         /\ batch' = batch + 1 /\ unflushed' \in Nat /\ unflushed' <= batch + 1
         /\ openDay' \in {openDay, today} /\ UNCHANGED <<logged, today, dropped, logDeaths>>
<1>1. PICK last \in [LogSids -> Nat] : ChannelIs(logQueue, last, logged) /\ RingsAre(last)
  BY DEF LogInv
<1>2. LogTypeOK
  BY DEF LogInv
<1> DEFINE e == Head(logQueue)
<1>3. /\ logQueue # <<>> /\ logQueue' = Tail(logQueue)
      /\ rings' = [rings EXCEPT ![e.sid] = Pushed(rings[e.sid], e.n)]
      /\ batch' = batch + 1 /\ UNCHANGED <<logged, today, dropped, logDeaths>>
  BY DEF Take
<1>4. logQueue \in Seq(LogEntry) /\ logged \in [LogSids -> Nat] /\ MaxEntries \in Nat
  BY <1>2, LogTypes
<1>5. /\ e \in LogEntry /\ e.n = last[e.sid] + 1 /\ e.n <= logged[e.sid]
      /\ ChannelIs(Tail(logQueue), [last EXCEPT ![e.sid] = e.n], logged)
  BY <1>1, <1>3, <1>4, ChannelGives
<1> HIDE DEF e
<1>7. e.sid \in LogSids /\ e.n \in 1..MaxEntries /\ e.n \in Nat
  BY <1>4, <1>5 DEF LogEntry
<1>8. PICK then \in [LogSids -> Nat] : then = [last EXCEPT ![e.sid] = e.n]
  BY <1>7
<1>c. ChannelIs(logQueue', then, logged')
  BY <1>3, <1>5, <1>8
<1>9. /\ rings[e.sid] \in Seq(1..MaxEntries) /\ last[e.sid] \in Nat /\ dropped[e.sid] \in Nat
      /\ dropped[e.sid] <= last[e.sid] /\ RingIs(rings[e.sid], last[e.sid], dropped[e.sid])
      /\ RingSize \in Nat /\ RingSize > 0
  BY <1>1, <1>2, <1>7, LogTypes DEF RingsAre
<1>10. /\ Pushed(rings[e.sid], last[e.sid] + 1) \in Seq(1..MaxEntries)
       /\ RingIs(Pushed(rings[e.sid], last[e.sid] + 1), last[e.sid] + 1, dropped[e.sid])
  <2>1. last[e.sid] + 1 \in 1..MaxEntries
    BY <1>5, <1>7
  <2> QED
    BY <1>9, <2>1, RingPushed
<1>11. /\ Pushed(rings[e.sid], e.n) \in Seq(1..MaxEntries)
       /\ RingIs(Pushed(rings[e.sid], e.n), e.n, dropped[e.sid]) /\ dropped[e.sid] <= e.n
  <2>1. dropped[e.sid] <= last[e.sid] + 1
    BY <1>9
  <2> QED
    BY <1>5, <1>10, <2>1
<1>12. rings \in [LogSids -> Seq(1..MaxEntries)]
  BY <1>2, LogTypes
<1>13. RingsAre(then)'
  <2> SUFFICES ASSUME NEW s \in LogSids
               PROVE  dropped[s] <= then[s] /\ RingIs(rings'[s], then[s], dropped[s])
    BY <1>3 DEF RingsAre, RingIs
  <2>1. CASE s = e.sid
    BY <1>3, <1>7, <1>8, <1>11, <1>12, <2>1
  <2>2. CASE s # e.sid
    <3>1. rings'[s] = rings[s] /\ then[s] = last[s]
      BY <1>3, <1>8, <1>12, <2>2
    <3> QED
      BY <1>1, <3>1 DEF RingsAre
  <2> QED
    BY <2>1, <2>2
<1>14. \E some \in [LogSids -> Nat] : ChannelIs(logQueue', some, logged') /\ RingsAre(some)'
  BY <1>c, <1>13
<1>15. logQueue' \in Seq(LogEntry)
  BY <1>3, <1>4, HeadTailProperties
<1>16. rings' \in [LogSids -> Seq(1..MaxEntries)]
  BY <1>3, <1>7, <1>11, <1>12
<1>17. unflushed' \in Nat /\ unflushed' <= batch + 1 /\ openDay' \in {openDay, today}
  <2>1. unflushed \in Nat /\ batch \in Nat /\ unflushed <= batch
    BY <1>2, LogTypes DEF LogTypeOK, LogInv, BatchBounds
  <2>2. unflushed' \in {unflushed, unflushed + 1, 0, 1} /\ openDay' \in {openDay, today}
    BY DEF Take, WriteEntry
  <2> QED
    BY <2>1, <2>2
<1> QED
  BY <1>3, <1>14, <1>15, <1>16, <1>17

\* A ring that goes took its session's entries up to its last one.
LEMMA RemoveRingKeeps ==
  ASSUME LogInv, NEW s \in LogSids, RemoveRing(s)
  PROVE  LogInv'
<1>1. PICK last \in [LogSids -> Nat] : ChannelIs(logQueue, last, logged) /\ RingsAre(last)
  BY DEF LogInv
<1>2. LogTypeOK
  BY DEF LogInv
<1>3. /\ logged \in [LogSids -> 0..MaxEntries] /\ MaxEntries \in Nat /\ last[s] \in Nat
      /\ last[s] <= logged[s] /\ dropped[s] \in Nat /\ dropped[s] <= last[s]
      /\ RingSize \in Nat /\ RingSize > 0
      /\ rings \in [LogSids -> Seq(1..MaxEntries)] /\ dropped \in [LogSids -> 0..MaxEntries]
  BY <1>1, <1>2, LogTypes DEF ChannelIs, RingsAre
<1>4. /\ rings[s] # <<>> /\ dropped' = [dropped EXCEPT ![s] = rings[s][Len(rings[s])]]
      /\ rings' = [rings EXCEPT ![s] = <<>>]
      /\ UNCHANGED <<logged, logQueue, writer, batch, unflushed, today, openDay, logDeaths>>
  BY DEF RemoveRing
<1>5. Len(rings[s]) \in Nat /\ Len(rings[s]) \in 1..Len(rings[s])
  BY <1>3, <1>4, LenProperties, EmptySeq
<1>6. rings[s][Len(rings[s])] = last[s] - Len(rings[s]) + Len(rings[s])
  BY <1>1, <1>5 DEF RingsAre, RingIs
<1>7. last[s] - Len(rings[s]) + Len(rings[s]) = last[s]
  BY <1>3, <1>5
<1>8. dropped' = [dropped EXCEPT ![s] = last[s]]
  BY <1>4, <1>6, <1>7
<1>9. last[s] \in 0..MaxEntries
  <2>1. logged[s] \in 0..MaxEntries
    BY <1>3
  <2> QED
    BY <1>3, <2>1
<1>10. ChannelIs(logQueue', last, logged')
  BY <1>1, <1>4
<1>11. RingsAre(last)'
  <2> SUFFICES ASSUME NEW z \in LogSids
               PROVE  dropped'[z] <= last[z] /\ RingIs(rings'[z], last[z], dropped'[z])
    BY DEF RingsAre, RingIs
  <2>1. CASE z = s
    <3>1. rings'[z] = <<>> /\ dropped'[z] = last[s] /\ Len(<<>>) = 0
      BY <1>3, <1>4, <1>8, <2>1
    <3>2. last[s] - last[s] = 0
      BY <1>3
    <3> QED
      BY <1>3, <2>1, <3>1, <3>2 DEF RingIs
  <2>2. CASE z # s
    <3>1. rings'[z] = rings[z] /\ dropped'[z] = dropped[z]
      BY <1>3, <1>4, <1>8, <2>2
    <3> QED
      BY <1>1, <3>1 DEF RingsAre
  <2> QED
    BY <2>1, <2>2
<1>12. LogTypeOK'
  <2>1. dropped' \in [LogSids -> 0..MaxEntries]
    BY <1>3, <1>8, <1>9
  <2>2. rings' \in [LogSids -> Seq(1..MaxEntries)]
    <3>1. <<>> \in Seq(1..MaxEntries)
      BY EmptySeq
    <3> QED
      BY <1>3, <1>4, <3>1
  <2> QED
    BY <1>2, <1>4, <2>1, <2>2 DEF LogTypeOK
<1>13. BatchBounds'
  BY <1>4 DEF LogInv, BatchBounds
<1> QED
  BY <1>10, <1>11, <1>12, <1>13 DEF LogInv

LEMMA LogDiesKeeps == LogInv /\ LogDies => LogInv'
<1> SUFFICES ASSUME LogInv, LogDies PROVE LogInv'
  OBVIOUS
<1>1. LogTypeOK
  BY DEF LogInv
<1>2. /\ logDeaths < MaxLogDays /\ logDeaths' = logDeaths + 1
      /\ dropped' = logged /\ logQueue' = <<>> /\ rings' = [s \in LogSids |-> <<>>]
      /\ writer' \in {"recv", "dead"} /\ batch' = 0 /\ unflushed' = 0 /\ openDay' = today
      /\ logged' = logged /\ today' = today
  BY DEF LogDies
<1>3. /\ RingSize \in Nat /\ RingSize > 0 /\ Batch \in Nat /\ Batch > 1 /\ MaxLogDays \in Nat
      /\ logged \in [LogSids -> 0..MaxEntries] /\ logged \in [LogSids -> Nat]
      /\ {today, openDay, logDeaths} \subseteq 0..MaxLogDays
  BY <1>1, LogTypes DEF LogTypeOK
<1>4. PICK last \in [LogSids -> Nat] : last = logged
  BY <1>3
<1>0. Len(<<>>) = 0
  OBVIOUS
<1>5. ChannelIs(logQueue', last, logged')
  <2>1. \A s \in LogSids : last[s] = logged[s] /\ last[s] \in Nat
    BY <1>4
  <2> QED
    BY <1>0, <1>2, <2>1 DEF ChannelIs
<1>6. RingsAre(last)'
  <2>1. \A s \in LogSids : last[s] - last[s] = 0 /\ last[s] <= last[s]
    OBVIOUS
  <2> QED
    BY <1>0, <1>2, <1>3, <1>4, <2>1 DEF RingsAre, RingIs
<1>7. LogTypeOK'
  <2>1. logQueue' \in Seq(LogEntry)
    BY <1>2, EmptySeq
  <2>2. rings' \in [LogSids -> Seq(1..MaxEntries)]
    BY <1>2, EmptySeq
  <2>3. {today', openDay', logDeaths'} \subseteq 0..MaxLogDays
    BY <1>2, <1>3
  <2>4. batch' \in 0..(Batch + 1) /\ unflushed' \in Nat
    BY <1>2, <1>3
  <2> QED
    BY <1>2, <1>3, <2>1, <2>2, <2>3, <2>4 DEF LogTypeOK
<1>8. BatchBounds'
  BY <1>2, <1>3 DEF BatchBounds
<1> QED
  BY <1>5, <1>6, <1>7, <1>8 DEF LogInv

LEMMA LogStep == ASSUME LogInv, [LogNext]_logVars PROVE LogInv'
<1>1. LogTypeOK /\ BatchBounds
  BY DEF LogInv
<1>2. /\ Batch \in Nat /\ Batch > 1 /\ MaxLogDays \in Nat
      /\ batch \in 0..(Batch + 1) /\ {today, openDay, logDeaths} \subseteq 0..MaxLogDays
      /\ unflushed \in Nat /\ dropped \in [LogSids -> 0..MaxEntries] /\ logged \in [LogSids -> 0..MaxEntries]
  BY <1>1, LogTypes DEF LogTypeOK
<1>3. CASE Receive
  <2>1. batch' = batch + 1 /\ unflushed' \in Nat /\ unflushed' <= batch + 1 /\ writer' = "drain" /\ batch < Batch
    BY <1>1, <1>3, TakeKeeps DEF Receive, BatchBounds
  <2>2. BatchBounds' /\ batch' \in 0..(Batch + 1)
    BY <1>2, <2>1 DEF BatchBounds
  <2>3. LogTypeOK'
    BY <1>1, <1>2, <1>3, <2>1, <2>2, TakeKeeps DEF Receive, LogTypeOK
  <2> QED
    BY <1>3, <2>2, <2>3, TakeKeeps DEF Receive, LogInv
<1>4. CASE DrainLog
  <2>1. /\ batch' = batch + 1 /\ unflushed' \in Nat /\ unflushed' <= batch + 1 /\ batch <= Batch
        /\ writer' \in {"flush", "drain"} /\ (writer' = "drain" => ~(batch' >= Batch))
    BY <1>1, <1>4, TakeKeeps DEF DrainLog, BatchBounds
  <2>2. BatchBounds' /\ batch' \in 0..(Batch + 1)
    BY <1>2, <2>1 DEF BatchBounds
  <2>3. LogTypeOK'
    BY <1>1, <1>2, <1>4, <2>1, <2>2, TakeKeeps DEF DrainLog, LogTypeOK
  <2> QED
    BY <1>4, <2>2, <2>3, TakeKeeps DEF DrainLog, LogInv
<1>5. CASE DrainedLog \/ Flush \/ LogMidnight \/ UNCHANGED logVars
  <2>1. UNCHANGED <<logQueue, logged, rings, dropped>>
    BY <1>5 DEF DrainedLog, Flush, LogMidnight, logVars
  <2>2. \E last \in [LogSids -> Nat] : ChannelIs(logQueue', last, logged') /\ RingsAre(last)'
    BY <2>1, ChannelStays DEF LogInv
  <2>3. CASE DrainedLog
    BY <1>1, <2>2, <2>3 DEF DrainedLog, LogInv, LogTypeOK, BatchBounds
  <2>4. CASE Flush
    <3>1. /\ writer = "flush" /\ writer' = "recv" /\ UNCHANGED <<today, openDay, logDeaths>>
          /\ \/ batch' = 0 /\ unflushed' = 0
             \/ ~(batch >= Batch) /\ batch' = batch /\ unflushed' = unflushed
      BY <2>4 DEF Flush
    <3>2. BatchBounds' /\ batch' \in 0..(Batch + 1) /\ unflushed' \in Nat
      BY <1>1, <1>2, <3>1 DEF BatchBounds
    <3> QED
      BY <1>1, <2>1, <2>2, <3>1, <3>2 DEF LogInv, LogTypeOK
  <2>5. CASE LogMidnight
    <3>1. today' \in 0..MaxLogDays
      BY <1>2, <2>5 DEF LogMidnight
    <3>2. UNCHANGED <<writer, batch, unflushed, openDay, logDeaths>>
      BY <2>5 DEF LogMidnight
    <3>3. LogTypeOK' /\ BatchBounds'
      BY <1>1, <1>2, <2>1, <3>1, <3>2 DEF LogTypeOK, BatchBounds
    <3> QED
      BY <2>2, <3>3 DEF LogInv
  <2>6. CASE UNCHANGED logVars
    <3>1. LogTypeOK' /\ BatchBounds'
      BY <1>1, <2>6 DEF LogTypeOK, BatchBounds, logVars
    <3> QED
      BY <2>2, <3>1 DEF LogInv
  <2> QED
    BY <1>5, <2>3, <2>4, <2>5, <2>6
<1> QED
  BY <1>3, <1>4, <1>5, LogKeeps, RemoveRingKeeps, LogDiesKeeps DEF LogNext

\* The entries of a session that wait are those between the last its ring got
\* and the last it logged, one each.
LEMMA WaitingAre ==
  ASSUME NEW queue \in Seq(LogEntry), NEW last \in [LogSids -> Nat], NEW upto \in [LogSids -> Nat],
         ChannelIs(queue, last, upto), NEW s \in LogSids
  PROVE  upto[s] - Cardinality({i \in DOMAIN queue : queue[i].sid = s}) = last[s]
<1> DEFINE S == {i \in DOMAIN queue : queue[i].sid = s}
           T == last[s] + 1 .. upto[s]
           f == [i \in S |-> queue[i].n]
<1>1. /\ DOMAIN queue = 1..Len(queue) /\ Len(queue) \in Nat
      /\ \A i \in 1..Len(queue) : queue[i].sid \in LogSids /\ queue[i].n \in Nat
  BY QueueTypes, LenProperties
<1>2. last[s] \in Nat /\ upto[s] \in Nat /\ last[s] <= upto[s]
  BY DEF ChannelIs
<1>3. IsFiniteSet(T) /\ Cardinality(T) = upto[s] - last[s]
  <2>1. last[s] + 1 \in Int /\ upto[s] \in Int
    BY <1>2
  <2>2. IsFiniteSet(T) /\ Cardinality(T) = IF last[s] + 1 > upto[s] THEN 0 ELSE upto[s] - (last[s] + 1) + 1
    BY <2>1, FS_Interval
  <2>3. (IF last[s] + 1 > upto[s] THEN 0 ELSE upto[s] - (last[s] + 1) + 1) = upto[s] - last[s]
    BY <1>2
  <2> QED
    BY <2>2, <2>3
<1>4. \A i \in S : f[i] = queue[i].n /\ queue[i].n \in T
  <2> SUFFICES ASSUME NEW i \in S PROVE queue[i].n \in T
    OBVIOUS
  <2>1. last[s] < queue[i].n /\ queue[i].n <= upto[s] /\ queue[i].n \in Nat
    BY <1>1 DEF ChannelIs
  <2>2. PICK n \in Nat : n = queue[i].n
    BY <2>1
  <2>3. n \in T
    BY <1>2, <2>1, <2>2
  <2> QED
    BY <2>2, <2>3
<1>5. f \in [S -> T]
  BY <1>4
<1>6. \A i, j \in S : f[i] = f[j] => i = j
  <2> SUFFICES ASSUME NEW i \in S, NEW j \in S, f[i] = f[j], i # j PROVE FALSE
    OBVIOUS
  <2>1. i < j \/ j < i
    BY <1>1
  <2>2. queue[i].n < queue[j].n \/ queue[j].n < queue[i].n
    BY <1>1, <2>1 DEF ChannelIs
  <2>3. queue[i].n = queue[j].n /\ queue[i].n \in Nat
    BY <1>1, <1>4
  <2> QED
    BY <2>2, <2>3
<1>7. \A n \in T : \E i \in S : f[i] = n
  <2> SUFFICES ASSUME NEW n \in T PROVE \E i \in S : f[i] = n
    OBVIOUS
  <2>1. n \in Nat /\ last[s] < n /\ n <= upto[s]
    BY <1>2
  <2>2. PICK i \in 1..Len(queue) : queue[i].sid = s /\ queue[i].n = n
    BY <2>1 DEF ChannelIs
  <2> QED
    BY <1>1, <1>4, <2>2
<1> HIDE DEF S, T, f
<1>8. f \in Injection(S, T)
  BY <1>5, <1>6, Fun_IsInj
<1>9. f \in Surjection(S, T)
  BY <1>5, <1>7, Fun_IsSurj
<1>10. Cardinality(S) = Cardinality(T)
  BY <1>3, <1>8, <1>9, FS_Injection
<1>11. upto[s] - Cardinality(S) = last[s]
  BY <1>2, <1>3, <1>10
<1> QED
  BY <1>11 DEF S

LEMMA LogInvGives == LogInv => LogTypeOK /\ RecentIsRecent /\ RestIsFlushed
<1> SUFFICES ASSUME LogInv PROVE LogTypeOK /\ RecentIsRecent /\ RestIsFlushed
  OBVIOUS
<1>1. LogTypeOK /\ BatchBounds
  BY DEF LogInv
<1>2. PICK last \in [LogSids -> Nat] : ChannelIs(logQueue, last, logged) /\ RingsAre(last)
  BY DEF LogInv
<1>3. RestIsFlushed
  <2>1. batch \in Nat /\ unflushed \in Nat /\ Batch \in Nat
    BY <1>1, LogTypes DEF LogTypeOK
  <2> QED
    BY <1>1, <2>1 DEF BatchBounds, RestIsFlushed
<1>4. RecentIsRecent
  <2> SUFFICES ASSUME NEW s \in LogSids
               PROVE  LET waiting == Cardinality({i \in DOMAIN logQueue : logQueue[i].sid = s})
                          upto == logged[s] - waiting
                          since == upto - dropped[s]
                          kept == SessionLogs(s)
                      IN  /\ Len(kept) = IF since < RingSize THEN since ELSE RingSize
                          /\ \A i \in DOMAIN kept : kept[i] = upto - Len(kept) + i
    BY DEF RecentIsRecent
  <2>1. logged[s] - Cardinality({i \in DOMAIN logQueue : logQueue[i].sid = s}) = last[s]
    <3>1. logQueue \in Seq(LogEntry) /\ logged \in [LogSids -> Nat]
      BY <1>1, LogTypes
    <3> QED
      BY <1>2, <3>1, WaitingAre
  <2>2. /\ rings[s] \in Seq(1..MaxEntries) /\ Len(rings[s]) \in Nat /\ RingSize \in Nat
        /\ DOMAIN rings[s] = 1..Len(rings[s])
    BY <1>1, LogTypes, LenProperties
  <2>3. RingIs(rings[s], last[s], dropped[s])
    BY <1>2 DEF RingsAre
  <2>4. SessionLogs(s) = rings[s]
    <3>1. ~(RingSize < Len(rings[s]))
      BY <2>2, <2>3 DEF RingIs
    <3>2. SubSeq(rings[s], 1, Len(rings[s])) = rings[s]
      BY <2>2, SubSeqFull
    <3>3. 0 + 1 = 1 /\ 0 + RingSize = RingSize
      BY <2>2
    <3> QED
      BY <3>1, <3>2, <3>3 DEF SessionLogs, RecentLogs
  <2> QED
    BY <2>1, <2>2, <2>3, <2>4 DEF RingIs
<1> QED
  BY <1>1, <1>3, <1>4

LEMMA LogInvInit == LogInit => LogInv
<1> SUFFICES ASSUME LogInit PROVE LogInv
  OBVIOUS
<1>1. /\ logged = [s \in LogSids |-> 0] /\ logQueue = <<>> /\ rings = [s \in LogSids |-> <<>>]
      /\ writer = "recv" /\ batch = 0 /\ unflushed = 0 /\ today = 0 /\ openDay = 0
      /\ dropped = logged /\ logDeaths = 0
  BY DEF LogInit
<1>2. /\ RingSize \in Nat /\ RingSize > 0 /\ Batch \in Nat /\ Batch > 1
      /\ MaxEntries \in Nat /\ MaxLogDays \in Nat
  BY LogAssumption
<1>3. LogTypeOK
  <2>1. logQueue \in Seq(LogEntry) /\ rings \in [LogSids -> Seq(1..MaxEntries)]
    BY <1>1, EmptySeq
  <2> QED
    BY <1>1, <1>2, <2>1 DEF LogTypeOK
<1>4. BatchBounds
  BY <1>1, <1>2 DEF BatchBounds
<1>5. PICK last \in [LogSids -> Nat] : \A s \in LogSids : last[s] = 0
  <2> WITNESS [s \in LogSids |-> 0] \in [LogSids -> Nat]
  <2> QED
    OBVIOUS
<1>0. Len(<<>>) = 0
  OBVIOUS
<1>6. ChannelIs(logQueue, last, logged)
  <2>1. \A s \in LogSids : last[s] <= logged[s] /\ \A n \in Nat : ~(last[s] < n /\ n <= logged[s])
    BY <1>1, <1>5
  <2> QED
    BY <1>0, <1>1, <2>1 DEF ChannelIs
<1>7. RingsAre(last)
  BY <1>0, <1>1, <1>2, <1>5 DEF RingsAre, RingIs
<1> QED
  BY <1>3, <1>4, <1>6, <1>7 DEF LogInv

\* RecordsStand, the part of the log: the API's page of a session is its newest
\* entries without a gap, and a writer at rest holds less than a batch.
THEOREM LogStandsHolds == Spec => LogStands /\ []LogTypeOK
<1>1. Init => LogInv
  BY LogInvInit DEF Init
<1>2. LogInv /\ [Next]_vars => LogInv'
  BY EachStays, LogStep
<1>3. LogInv => (RecentIsRecent /\ RestIsFlushed) /\ LogTypeOK
  BY LogInvGives
<1> QED
  BY <1>1, <1>2, <1>3, PTL DEF Spec, LogStands

-----------------------------------------------------------------------------
(***************************************************************************)
(* The cost of a session's turns (RunMetrics).  What a process has added   *)
(* to the sum and what its next difference would be taken from are tied:   *)
(* the sum plus what lies between prev_cost and the running total is never *)
(* more than the bill.                                                     *)
(***************************************************************************)
RunRecord == [id: 1..MaxRuns, cost: MaybeCost, verdict: Verdicts \cup {NoCost}]

RingInOrder(kept, turns, made) ==
  /\ Len(kept) = IF turns < RingCap THEN turns ELSE RingCap
  /\ turns <= made
  /\ \A i \in 1..Len(kept) : kept[i].id = made - Len(kept) + i

Rising(s, upto) ==
  /\ \A i \in 1..Len(s) : s[i] <= upto
  /\ \A i, j \in 1..Len(s) : i < j => s[i] < s[j]

FileInOrder(file, waiting, upto) ==
  /\ Rising(file, upto) /\ Rising(waiting, upto)
  /\ \A i \in 1..Len(file), j \in 1..Len(waiting) : file[i] < waiting[j]

\* The sum, the bill, what the process counted before, its total, the base of
\* its next difference, and the first and last totals that were recorded.
SumIs(sum, billed, before, total, base, first, latest, seen, resumed) ==
  /\ seen => /\ first \in Nat /\ latest \in Nat /\ base = latest
             /\ sum = before + latest - (IF resumed THEN first ELSE 0)
  /\ ~seen => /\ first = NoCost /\ latest = NoCost /\ sum = before
              /\ base = IF resumed THEN NoCost ELSE 0
  /\ base # NoCost => base \in Nat /\ base <= total /\ sum + (total - base) <= billed

CostInv ==
  /\ life.cost <= bill
  /\ cost.live => SumIs(life.cost, bill, ledger.before, cost.total, prevCost,
                        ledger.first, ledger.last, costSeen, cost.resumed)

MetricsInv ==
  /\ MetricsTypeOK /\ CostInv
  /\ RingInOrder(ring, life.turns, runs)
  /\ FileInOrder(audit, writing, runs)

LEMMA MetricsTypes ==
  ASSUME MetricsTypeOK
  PROVE  /\ RingCap \in Nat /\ RingCap > 0 /\ WriterCap \in Nat /\ MaxSpent \in Nat
         /\ MaxRuns \in Nat /\ MaxProcesses \in Nat /\ NoCost \notin Nat
         /\ cost.live \in BOOLEAN /\ cost.resumed \in BOOLEAN /\ cost.total \in Nat
         /\ cost.total <= MaxSpent /\ cost.n \in Nat
         /\ life.turns \in Nat /\ life.cost \in Nat /\ runs \in Nat /\ bill \in Nat
         /\ ledger.before \in Nat /\ ledger.first \in MaybeCost /\ ledger.last \in MaybeCost
         /\ ring \in Seq(RunRecord) /\ writing \in Seq(1..MaxRuns) /\ audit \in Seq(1..MaxRuns)
         /\ Len(ring) \in Nat /\ Len(writing) \in Nat /\ Len(audit) \in Nat
<1>1. /\ RingCap \in Nat /\ RingCap > 0 /\ WriterCap \in Nat /\ MaxSpent \in Nat
      /\ MaxRuns \in Nat /\ MaxProcesses \in Nat /\ NoCost \notin Nat
  BY MetricsAssumption
<1>2. /\ cost \in [live: BOOLEAN, resumed: BOOLEAN, total: 0..MaxSpent, n: 0..MaxProcesses]
      /\ life \in [turns: 0..MaxRuns, cost: Nat] /\ runs \in 0..MaxRuns /\ bill \in 0..MaxSpent
      /\ ledger \in [before: Nat, first: MaybeCost, last: MaybeCost]
  BY DEF MetricsTypeOK, Costs
<1>3. /\ cost.live \in BOOLEAN /\ cost.resumed \in BOOLEAN /\ cost.total \in 0..MaxSpent
      /\ cost.n \in 0..MaxProcesses /\ life.turns \in 0..MaxRuns /\ life.cost \in Nat
      /\ ledger.before \in Nat /\ ledger.first \in MaybeCost /\ ledger.last \in MaybeCost
  BY <1>2
<1>4. ring \in Seq(RunRecord) /\ writing \in Seq(1..MaxRuns) /\ audit \in Seq(1..MaxRuns)
  BY DEF MetricsTypeOK, RunRecord
<1>5. Len(ring) \in Nat /\ Len(writing) \in Nat /\ Len(audit) \in Nat
  BY <1>4, LenProperties
<1> QED
  BY <1>1, <1>2, <1>3, <1>4, <1>5

\* A record enters the ring: the next of those ever made, the newest of it.
RunEnters(kept, turns, made, r, after, now, longer, next) ==
  /\ kept \in Seq(RunRecord) /\ turns \in Nat /\ made \in Nat
  /\ RingInOrder(kept, turns, made)
  /\ r \in RunRecord /\ r.id = made + 1
  /\ after \in Nat /\ after = turns + 1 /\ now \in Nat /\ now = made + 1
  /\ longer = Append(kept, r)
  /\ next = IF Len(longer) > RingCap THEN Tail(longer) ELSE longer

LEMMA RingGrows ==
  ASSUME RingCap \in Nat, RingCap > 0,
         NEW kept, NEW turns, NEW made, NEW r, NEW after, NEW now, NEW longer, NEW next,
         RunEnters(kept, turns, made, r, after, now, longer, next)
  PROVE  next \in Seq(RunRecord) /\ RingInOrder(next, after, now)
<1>0. /\ kept \in Seq(RunRecord) /\ turns \in Nat /\ made \in Nat
      /\ RingInOrder(kept, turns, made)
      /\ r \in RunRecord /\ r.id = made + 1
      /\ after \in Nat /\ after = turns + 1 /\ now \in Nat /\ now = made + 1
      /\ longer = Append(kept, r)
      /\ next = IF Len(longer) > RingCap THEN Tail(longer) ELSE longer
  BY DEF RunEnters
<1>1. Len(kept) \in Nat /\ Len(kept) <= RingCap /\ (turns < RingCap => Len(kept) = turns)
      /\ (~(turns < RingCap) => Len(kept) = RingCap)
  BY <1>0, LenProperties DEF RingInOrder
<1>2. /\ longer \in Seq(RunRecord) /\ Len(longer) = Len(kept) + 1
      /\ \A i \in 1..Len(kept) : longer[i] = kept[i]
      /\ longer[Len(kept) + 1] = r
  BY <1>0, AppendProperties
<1>3. ASSUME NEW i \in 1..Len(longer) PROVE longer[i].id = now - Len(longer) + i
  <2>1. i \in 1..Len(kept) \/ i = Len(kept) + 1
    BY <1>0, <1>1, <1>2
  <2>2. CASE i \in 1..Len(kept)
    <3>1. longer[i].id = made - Len(kept) + i
      BY <1>0, <1>2, <2>2 DEF RingInOrder
    <3>2. made - Len(kept) + i = made + 1 - (Len(kept) + 1) + i
      BY <1>0, <1>1, <2>2
    <3> QED
      BY <1>0, <1>2, <3>1, <3>2
  <2>3. CASE i = Len(kept) + 1
    <3>1. longer[i].id = made + 1
      BY <1>0, <1>2, <2>3
    <3>2. made + 1 = made + 1 - (Len(kept) + 1) + (Len(kept) + 1)
      BY <1>0, <1>1
    <3> QED
      BY <1>0, <1>2, <2>3, <3>1, <3>2
  <2> QED
    BY <2>1, <2>2, <2>3
<1>4. after <= now
  BY <1>0 DEF RingInOrder
<1>5. CASE Len(kept) < RingCap
  <2>1. next = longer
    BY <1>0, <1>1, <1>2, <1>5
  <2>2. Len(longer) = IF after < RingCap THEN after ELSE RingCap
    BY <1>0, <1>1, <1>2, <1>5
  <2>3. /\ Len(next) = IF after < RingCap THEN after ELSE RingCap
        /\ \A i \in 1..Len(next) : next[i].id = now - Len(next) + i
    BY <1>0, <1>3, <2>1, <2>2
  <2>4. RingInOrder(next, after, now)
    BY <1>0, <1>4, <2>3 DEF RingInOrder
  <2> QED
    BY <1>0, <1>2, <2>1, <2>4
<1>6. CASE Len(kept) = RingCap
  <2>1. next = Tail(longer) /\ longer # <<>>
    BY <1>0, <1>1, <1>2, <1>6
  <2>2. /\ Tail(longer) \in Seq(RunRecord) /\ Len(Tail(longer)) = Len(longer) - 1
        /\ \A i \in 1..Len(Tail(longer)) : Tail(longer)[i] = longer[i + 1]
    BY <1>0, <1>2, <2>1, HeadTailProperties
  <2>3. Len(next) = RingCap /\ ~(after < RingCap)
    BY <1>0, <1>1, <1>2, <1>6, <2>1, <2>2
  <2>4. ASSUME NEW i \in 1..Len(next) PROVE next[i].id = now - Len(next) + i
    <3>1. i \in 1..RingCap /\ i + 1 \in 1..(RingCap + 1)
      BY <1>0, <2>3
    <3>2. next[i] = longer[i + 1]
      BY <1>0, <2>1, <2>2, <3>1
    <3>3. longer[i + 1].id = now - (RingCap + 1) + (i + 1)
      BY <1>0, <1>2, <1>3, <1>6, <3>1
    <3>4. now - (RingCap + 1) + (i + 1) = now - RingCap + i
      BY <1>0, <3>1
    <3> QED
      BY <1>0, <2>3, <3>2, <3>3, <3>4
  <2>5. Len(next) = IF after < RingCap THEN after ELSE RingCap
    BY <1>0, <2>3
  <2>6. RingInOrder(next, after, now)
    BY <1>0, <1>4, <2>4, <2>5 DEF RingInOrder
  <2> QED
    BY <1>0, <2>1, <2>2, <2>6
<1> QED
  BY <1>1, <1>5, <1>6

LEMMA RisingGrows ==
  ASSUME NEW s \in Seq(Nat), NEW upto \in Nat, Rising(s, upto),
         NEW now \in Nat, now = upto + 1
  PROVE  Rising(s, now) /\ Rising(Append(s, now), now)
<1>1. Len(s) \in Nat /\ \A i \in 1..Len(s) : s[i] \in Nat /\ s[i] <= upto
  BY LenProperties, ElementOfSeq DEF Rising
<1>2. \A i \in 1..Len(s) : s[i] <= now /\ s[i] < now
  BY <1>1
<1>3. /\ Len(Append(s, now)) = Len(s) + 1 /\ Append(s, now)[Len(s) + 1] = now
      /\ \A i \in 1..Len(s) : Append(s, now)[i] = s[i]
  BY AppendProperties
<1>4. \A i \in 1..(Len(s) + 1) : i \in 1..Len(s) \/ i = Len(s) + 1
  BY <1>1
<1>5. \A i, j \in 1..(Len(s) + 1) : i < j => i \in 1..Len(s)
  BY <1>1
<1>6. now <= now
  OBVIOUS
<1> QED
  BY <1>2, <1>3, <1>4, <1>5, <1>6 DEF Rising

LEMMA RisingTail ==
  ASSUME NEW s \in Seq(Nat), NEW upto \in Nat, Rising(s, upto), s # <<>>
  PROVE  Rising(Tail(s), upto)
<1>1. Len(s) \in Nat /\ Len(Tail(s)) = Len(s) - 1 /\ \A i \in 1..Len(Tail(s)) : Tail(s)[i] = s[i + 1]
  BY LenProperties, HeadTailProperties
<1>2. \A i \in 1..Len(Tail(s)) : i + 1 \in 1..Len(s)
  BY <1>1
<1>3. \A i, j \in 1..Len(Tail(s)) : i < j => i + 1 < j + 1
  BY <1>1
<1> QED
  BY <1>1, <1>2, <1>3 DEF Rising

LEMMA FileGrows ==
  ASSUME NEW file \in Seq(Nat), NEW waiting \in Seq(Nat), NEW upto \in Nat, FileInOrder(file, waiting, upto),
         NEW now \in Nat, now = upto + 1
  PROVE  FileInOrder(file, waiting, now) /\ FileInOrder(file, Append(waiting, now), now)
<1>1. Rising(file, now) /\ Rising(waiting, now) /\ Rising(Append(waiting, now), now)
  BY RisingGrows DEF FileInOrder
<1>2. /\ Len(Append(waiting, now)) = Len(waiting) + 1 /\ Append(waiting, now)[Len(waiting) + 1] = now
      /\ \A i \in 1..Len(waiting) : Append(waiting, now)[i] = waiting[i]
  BY AppendProperties
<1>3. Len(waiting) \in Nat /\ \A i \in 1..(Len(waiting) + 1) : i \in 1..Len(waiting) \/ i = Len(waiting) + 1
  BY LenProperties
<1>4. \A i \in 1..Len(file) : file[i] < now
  <2> SUFFICES ASSUME NEW i \in 1..Len(file) PROVE file[i] < now
    OBVIOUS
  <2>1. file[i] \in Nat /\ file[i] <= upto
    BY ElementOfSeq DEF FileInOrder, Rising
  <2> QED
    BY <2>1
<1>5. \A i \in 1..Len(file), j \in 1..Len(Append(waiting, now)) : file[i] < Append(waiting, now)[j]
  BY <1>2, <1>3, <1>4 DEF FileInOrder
<1> QED
  BY <1>1, <1>5 DEF FileInOrder

LEMMA FileTakes ==
  ASSUME NEW file \in Seq(Nat), NEW waiting \in Seq(Nat), NEW upto \in Nat, FileInOrder(file, waiting, upto),
         waiting # <<>>
  PROVE  /\ FileInOrder(file, Tail(waiting), upto)
         /\ FileInOrder(Append(file, Head(waiting)), Tail(waiting), upto)
<1>1. /\ Len(waiting) \in Nat /\ Len(waiting) > 0 /\ Head(waiting) = waiting[1] /\ Head(waiting) \in Nat
      /\ Len(Tail(waiting)) = Len(waiting) - 1
      /\ \A i \in 1..Len(Tail(waiting)) : Tail(waiting)[i] = waiting[i + 1]
  BY LenProperties, HeadTailProperties, EmptySeq
<1>2. 1 \in 1..Len(waiting) /\ \A i \in 1..Len(Tail(waiting)) : i + 1 \in 1..Len(waiting) /\ 1 < i + 1
  BY <1>1
<1>3. Rising(file, upto) /\ Rising(Tail(waiting), upto)
  BY RisingTail DEF FileInOrder
<1>4. \A i \in 1..Len(file), j \in 1..Len(Tail(waiting)) : file[i] < Tail(waiting)[j]
  BY <1>1, <1>2 DEF FileInOrder
<1>5. /\ Len(Append(file, Head(waiting))) = Len(file) + 1
      /\ Append(file, Head(waiting))[Len(file) + 1] = Head(waiting)
      /\ \A i \in 1..Len(file) : Append(file, Head(waiting))[i] = file[i]
  BY <1>1, AppendProperties
<1>6. /\ Len(file) \in Nat
      /\ \A i \in 1..(Len(file) + 1) : i \in 1..Len(file) \/ i = Len(file) + 1
      /\ \A i, j \in 1..(Len(file) + 1) : i < j => i \in 1..Len(file)
  <2>1. Len(file) \in Nat
    BY LenProperties
  <2> QED
    BY <2>1
<1>7. Head(waiting) <= upto /\ \A i \in 1..Len(file) : file[i] < Head(waiting)
  BY <1>1, <1>2 DEF FileInOrder, Rising
<1>8. Rising(Append(file, Head(waiting)), upto)
  BY <1>3, <1>5, <1>6, <1>7 DEF Rising
<1>9. \A j \in 1..Len(Tail(waiting)) : Head(waiting) < Tail(waiting)[j]
  BY <1>1, <1>2 DEF FileInOrder, Rising
<1>10. \A i \in 1..Len(Append(file, Head(waiting))), j \in 1..Len(Tail(waiting)) :
          Append(file, Head(waiting))[i] < Tail(waiting)[j]
  BY <1>4, <1>5, <1>6, <1>9
<1> QED
  BY <1>3, <1>4, <1>8, <1>10 DEF FileInOrder

LEMMA FileLoses ==
  ASSUME NEW file, NEW waiting, NEW upto, FileInOrder(file, waiting, upto)
  PROVE  FileInOrder(file, <<>>, upto)
<1>1. Len(<<>>) = 0
  OBVIOUS
<1>2. 1..0 = {}
  OBVIOUS
<1> QED
  BY <1>1, <1>2 DEF FileInOrder, Rising

\* A boundary that is recorded: its figures, and what the sum, the first and
\* the last total become.
BoundaryIs(sum, billed, before, total, base, first, latest, seen, resumed, cur, d, delta, next, f, l, now) ==
  /\ sum \in Nat /\ billed \in Nat /\ before \in Nat /\ total \in Nat
  /\ SumIs(sum, billed, before, total, base, first, latest, seen, resumed) /\ sum <= billed
  /\ cur \in {total, NoCost}
  /\ d = DiffCost(base, cur, ~seen, resumed)
  /\ delta = (IF d.delta = NoCost THEN 0 ELSE d.delta) /\ next = sum + delta
  /\ f = (IF cur # NoCost /\ first = NoCost THEN cur ELSE first)
  /\ l = (IF cur # NoCost THEN cur ELSE latest)
  /\ now <=> (seen \/ cur # NoCost)

\* It adds what lies between the base and the total, or nothing, and takes the
\* base along.
LEMMA SumBoundary ==
  ASSUME NEW sum, NEW billed, NEW before, NEW total, NEW base, NEW first, NEW latest,
         NEW seen \in BOOLEAN, NEW resumed \in BOOLEAN, NEW cur, NEW d, NEW delta, NEW next,
         NEW f, NEW l, NEW now \in BOOLEAN, NoCost \notin Nat,
         BoundaryIs(sum, billed, before, total, base, first, latest, seen, resumed, cur, d, delta, next, f, l, now)
  PROVE  /\ d.delta = NoCost \/ (d.delta \in Nat /\ d.delta <= total)
         /\ next \in Nat /\ next <= billed
         /\ SumIs(next, billed, before, total, d.prev, f, l, now, resumed)
<1>0. /\ sum \in Nat /\ billed \in Nat /\ before \in Nat /\ total \in Nat
      /\ SumIs(sum, billed, before, total, base, first, latest, seen, resumed) /\ sum <= billed
      /\ cur \in {total, NoCost}
      /\ d = DiffCost(base, cur, ~seen, resumed)
      /\ delta = (IF d.delta = NoCost THEN 0 ELSE d.delta) /\ next = sum + delta
      /\ f = (IF cur # NoCost /\ first = NoCost THEN cur ELSE first)
      /\ l = (IF cur # NoCost THEN cur ELSE latest)
      /\ now <=> (seen \/ cur # NoCost)
  BY DEF BoundaryIs
<1>1. CASE cur = NoCost
  <2>1. d.delta = NoCost /\ d.prev = base /\ delta = 0 /\ f = first /\ l = latest /\ (now <=> seen)
    BY <1>0, <1>1 DEF DiffCost
  <2>2. next = sum /\ now = seen
    BY <1>0, <2>1
  <2> QED
    BY <1>0, <2>1, <2>2
<1>2. CASE cur # NoCost
  <2>0. cur = total /\ now = TRUE /\ l = total /\ 0 # NoCost
    BY <1>0, <1>2
  <2>1. CASE ~seen /\ resumed
    <3>1. d.delta = NoCost /\ d.prev = total /\ delta = 0
      BY <1>0, <1>2, <2>0, <2>1 DEF DiffCost
    <3>2. first = NoCost /\ sum = before
      BY <1>0, <2>1 DEF SumIs
    <3>3. f = total /\ next = sum /\ sum = before + total - total /\ total - total = 0 /\ sum + 0 = sum
      BY <1>0, <1>2, <2>0, <3>1, <3>2
    <3>5. next = before + total - total /\ next + (total - total) <= billed
      BY <1>0, <3>2, <3>3
    <3>4. SumIs(next, billed, before, total, total, total, total, TRUE, TRUE)
      BY <1>0, <3>5 DEF SumIs
    <3> QED
      BY <1>0, <2>0, <2>1, <3>1, <3>3, <3>4
  <2>2. CASE ~seen /\ ~resumed
    <3>1. base = 0 /\ first = NoCost /\ sum = before /\ sum + (total - 0) <= billed
      BY <1>0, <2>0, <2>2 DEF SumIs
    <3>2. d.delta = (IF total > 0 THEN total - 0 ELSE 0) /\ d.prev = total
      BY <1>0, <1>2, <2>0, <2>2, <3>1 DEF DiffCost
    <3>3. d.delta = total /\ total # NoCost
      BY <1>0, <3>2
    <3>4. f = total /\ next = sum + total /\ sum + total = before + total - 0
          /\ total - total = 0 /\ (sum + total) + 0 <= billed
      BY <1>0, <1>2, <2>0, <3>1, <3>3
    <3>5. SumIs(next, billed, before, total, total, total, total, TRUE, resumed)
      BY <1>0, <2>2, <3>3, <3>4 DEF SumIs
    <3>6. next \in Nat /\ next <= billed
      BY <1>0, <3>4
    <3>7. d.delta \in Nat /\ d.delta <= total
      BY <1>0, <3>3
    <3> QED
      BY <1>0, <2>0, <3>2, <3>4, <3>5, <3>6, <3>7
  <2>3. CASE seen
    <3>1. /\ first \in Nat /\ latest \in Nat /\ base = latest
          /\ sum = before + latest - (IF resumed THEN first ELSE 0)
      BY <1>0, <2>3 DEF SumIs
    <3>2. latest <= total /\ sum + (total - latest) <= billed /\ latest # NoCost /\ first # NoCost
      BY <1>0, <2>3, <3>1 DEF SumIs
    <3>3. d.delta = (IF total > latest THEN total - latest ELSE 0) /\ d.prev = total
      BY <1>0, <1>2, <2>0, <2>3, <3>1, <3>2 DEF DiffCost
    <3>4. d.delta = total - latest /\ total - latest \in Nat /\ total - latest <= total
      BY <1>0, <3>1, <3>2, <3>3
    <3>5. f = first /\ next = sum + (total - latest)
      BY <1>0, <2>0, <3>2, <3>4
    <3>6. next \in Nat /\ next <= billed
      BY <1>0, <3>1, <3>2, <3>4, <3>5
    <3>7. total - total = 0 /\ next + 0 <= billed
      BY <1>0, <3>6
    <3>8. next = before + total - (IF resumed THEN first ELSE 0)
      <4>1. CASE resumed
        <5>1. before + latest - first + (total - latest) = before + total - first
          BY <1>0, <3>1
        <5> QED
          BY <1>0, <3>1, <3>5, <4>1, <5>1
      <4>2. CASE ~resumed
        <5>1. before + latest - 0 + (total - latest) = before + total - 0
          BY <1>0, <3>1
        <5> QED
          BY <1>0, <3>1, <3>5, <4>2, <5>1
      <4> QED
        BY <4>1, <4>2
    <3>9. SumIs(next, billed, before, total, total, first, total, TRUE, resumed)
      BY <1>0, <3>1, <3>7, <3>8 DEF SumIs
    <3> QED
      BY <1>0, <2>0, <3>3, <3>4, <3>5, <3>6, <3>9
  <2> QED
    BY <2>1, <2>2, <2>3
<1> QED
  BY <1>1, <1>2

LEMMA AllNat == Seq(1..MaxRuns) \subseteq Seq(Nat)
<1>1. \A s \in Seq(1..MaxRuns) : s \in Seq(Nat)
  <2> SUFFICES ASSUME NEW s \in Seq(1..MaxRuns) PROVE s \in Seq(Nat)
    OBVIOUS
  <2>1. Len(s) \in Nat /\ s \in [1..Len(s) -> 1..MaxRuns]
    BY LenProperties
  <2>2. s \in [1..Len(s) -> Nat]
    BY <2>1
  <2> QED
    BY <2>1, <2>2, IsASeq
<1> QED
  BY <1>1

\* A boundary, whatever the CLI reports with it.
LEMMA BoundaryKeeps ==
  ASSUME MetricsInv, NEW cur \in {cost.total, NoCost}, AtBoundary(cur)
  PROVE  /\ cost.live /\ bill' = bill /\ audit' = audit
         /\ life'.cost <= bill
         /\ SumIs(life'.cost, bill, ledger'.before, cost.total, prevCost',
                  ledger'.first, ledger'.last, costSeen', cost.resumed)
         /\ RingInOrder(ring', life'.turns, runs')
         /\ FileInOrder(audit', writing', runs')
         /\ prevCost' \in MaybeCost /\ costSeen' \in BOOLEAN /\ unsettled' \in 0..2
         /\ ring' \in Seq(RunRecord) /\ life' \in [turns: 0..MaxRuns, cost: Nat]
         /\ writing' \in Seq(1..MaxRuns) /\ runs' \in 0..MaxRuns
         /\ ledger' \in [before: Nat, first: MaybeCost, last: MaybeCost]
<1>1. MetricsTypeOK /\ CostInv /\ RingInOrder(ring, life.turns, runs) /\ FileInOrder(audit, writing, runs)
  BY DEF MetricsInv
<1>2. /\ RingCap \in Nat /\ RingCap > 0 /\ MaxSpent \in Nat /\ MaxRuns \in Nat /\ NoCost \notin Nat
      /\ cost.resumed \in BOOLEAN /\ cost.total \in Nat /\ cost.total <= MaxSpent
      /\ life.turns \in Nat /\ life.cost \in Nat /\ runs \in Nat /\ bill \in Nat
      /\ ledger.before \in Nat /\ ledger.first \in MaybeCost /\ ledger.last \in MaybeCost
      /\ ring \in Seq(RunRecord) /\ writing \in Seq(1..MaxRuns) /\ audit \in Seq(1..MaxRuns)
  BY <1>1, MetricsTypes
<1>3. /\ prevCost \in MaybeCost /\ costSeen \in BOOLEAN /\ unsettled \in 0..2
      /\ life \in [turns: 0..MaxRuns, cost: Nat] /\ runs \in 0..MaxRuns
      /\ ledger \in [before: Nat, first: MaybeCost, last: MaybeCost]
  BY <1>1 DEF MetricsTypeOK
<1>4. cost.live /\ runs < MaxRuns /\ audit' = audit /\ bill' = bill
  BY DEF AtBoundary
<1>5. /\ life.cost <= bill
      /\ SumIs(life.cost, bill, ledger.before, cost.total, prevCost,
               ledger.first, ledger.last, costSeen, cost.resumed)
  BY <1>1, <1>4 DEF CostInv
<1>6. CASE ~(unsettled > 0)
  <2>1. /\ prevCost' = prevCost /\ costSeen' = costSeen /\ unsettled' = 0 /\ ledger' = ledger
        /\ runs' = runs /\ ring' = ring /\ life' = life /\ writing' = writing
    BY <1>6 DEF AtBoundary, DiffCostAtBoundary
  <2> QED
    BY <1>1, <1>2, <1>3, <1>4, <1>5, <2>1
<1>7. CASE unsettled > 0
  <2>1. PICK d : d = DiffCost(prevCost, cur, ~costSeen, cost.resumed)
    OBVIOUS
  <2>2. /\ prevCost' = d.prev /\ costSeen' = (costSeen \/ cur # NoCost)
        /\ unsettled' = unsettled - 1 /\ RecordRun(d.delta)
        /\ ledger' = IF cur # NoCost
                     THEN [ledger EXCEPT !.last = cur,
                                         !.first = IF ledger.first = NoCost THEN cur ELSE ledger.first]
                     ELSE ledger
    BY <1>7, <2>1 DEF AtBoundary, DiffCostAtBoundary
  <2>3. PICK delta : delta = IF d.delta = NoCost THEN 0 ELSE d.delta
    OBVIOUS
  <2>4. PICK sum : sum = life.cost + delta
    OBVIOUS
  <2>5. PICK now \in BOOLEAN : now = (costSeen \/ cur # NoCost)
    OBVIOUS
  <2>6. PICK f, l : f = (IF cur # NoCost /\ ledger.first = NoCost THEN cur ELSE ledger.first)
                 /\ l = IF cur # NoCost THEN cur ELSE ledger.last
    OBVIOUS
  <2>7. /\ d.delta = NoCost \/ (d.delta \in Nat /\ d.delta <= cost.total)
        /\ sum \in Nat /\ sum <= bill
        /\ SumIs(sum, bill, ledger.before, cost.total, d.prev, f, l, now, cost.resumed)
    <3>1. BoundaryIs(life.cost, bill, ledger.before, cost.total, prevCost, ledger.first, ledger.last,
                     costSeen, cost.resumed, cur, d, delta, sum, f, l, now)
      BY <1>2, <1>3, <1>5, <2>1, <2>3, <2>4, <2>5, <2>6 DEF BoundaryIs
    <3> QED
      BY <1>2, <1>3, <3>1, SumBoundary
  <2>8. ledger'.before = ledger.before /\ ledger'.first = f /\ ledger'.last = l
    BY <1>3, <2>2, <2>6
  <2>9. cur \in MaybeCost
    BY <1>2 DEF MaybeCost, Costs
  <2>10. ledger' \in [before: Nat, first: MaybeCost, last: MaybeCost]
    BY <1>3, <2>2, <2>9
  <2>11. d.prev \in MaybeCost /\ d.delta \in MaybeCost
    <3>1. d.prev \in {prevCost, cur}
      BY <2>1 DEF DiffCost
    <3>2. d.delta \in MaybeCost
      BY <1>2, <2>7 DEF MaybeCost, Costs
    <3> QED
      BY <1>3, <2>9, <3>1, <3>2
  <2>12. PICK n \in Nat : n = runs + 1
    BY <1>2
  <2>13. n \in 1..MaxRuns /\ n \in 0..MaxRuns
    BY <1>2, <1>4, <2>12
  <2>14. PICK r : r = [id |-> n, cost |-> d.delta, verdict |-> NoCost]
    OBVIOUS
  <2>15. r \in RunRecord /\ r.id = runs + 1
    BY <2>11, <2>12, <2>13, <2>14 DEF RunRecord
  <2>16. PICK longer : longer = Append(ring, r)
    OBVIOUS
  <2>17. PICK turns \in Nat : turns = life.turns + 1
    BY <1>2
  <2>18. /\ runs' = n /\ ring' = (IF Len(longer) > RingCap THEN Tail(longer) ELSE longer)
         /\ life' = [turns |-> turns, cost |-> sum]
         /\ writing' = IF Len(writing) < WriterCap THEN Append(writing, n) ELSE writing
    BY <2>2, <2>3, <2>4, <2>12, <2>14, <2>16, <2>17 DEF RecordRun
  <2>19. PICK next : next = IF Len(longer) > RingCap THEN Tail(longer) ELSE longer
    OBVIOUS
  <2>20. next \in Seq(RunRecord) /\ RingInOrder(next, turns, n)
    <3>1. RingInOrder(ring, life.turns, runs) /\ ring \in Seq(RunRecord) /\ life.turns \in Nat /\ runs \in Nat
          /\ RingCap \in Nat /\ RingCap > 0
      BY <1>1, <1>2
    <3>2. RunEnters(ring, life.turns, runs, r, turns, n, longer, next)
      BY <2>12, <2>15, <2>16, <2>17, <2>19, <3>1 DEF RunEnters
    <3> QED
      BY <3>1, <3>2, RingGrows
  <2>21. FileInOrder(audit, writing, n) /\ FileInOrder(audit, Append(writing, n), n)
    BY <1>1, <1>2, <2>12, AllNat, FileGrows
  <2>22. FileInOrder(audit', writing', runs')
    BY <1>4, <2>18, <2>21
  <2>23. Append(writing, n) \in Seq(1..MaxRuns)
    BY <1>2, <2>13, AppendProperties
  <2>24. writing' \in Seq(1..MaxRuns)
    BY <1>2, <2>18, <2>23
  <2>25. life'.turns = turns /\ life'.cost = sum
    BY <2>18
  <2>26. life' \in [turns: 0..MaxRuns, cost: Nat]
    <3>1. turns \in 0..MaxRuns
      <4>1. life.turns <= runs
        BY <1>1 DEF RingInOrder
      <4> QED
        BY <1>2, <1>4, <2>17, <4>1
    <3> QED
      BY <2>7, <2>18, <3>1
  <2>27. ring' = next /\ runs' = n
    BY <2>18, <2>19
  <2>28. RingInOrder(ring', life'.turns, runs') /\ ring' \in Seq(RunRecord)
    BY <2>20, <2>25, <2>27
  <2>29. costSeen' = now /\ prevCost' = d.prev
    BY <2>2, <2>5
  <2>30. SumIs(life'.cost, bill, ledger'.before, cost.total, prevCost',
               ledger'.first, ledger'.last, costSeen', cost.resumed) /\ life'.cost <= bill
    BY <2>7, <2>8, <2>25, <2>29
  <2>31. unsettled' \in 0..2
    BY <1>3, <1>7, <2>2
  <2> QED
    BY <1>4, <2>10, <2>11, <2>13, <2>22, <2>24, <2>26, <2>27, <2>28, <2>29, <2>30, <2>31
<1> QED
  BY <1>6, <1>7

LEMMA ResultKeeps == MetricsInv /\ ResultOrError => MetricsInv'
<1> SUFFICES ASSUME MetricsInv, ResultOrError PROVE MetricsInv'
  OBVIOUS
<1>1. PICK cur \in {cost.total, NoCost} : AtBoundary(cur) /\ cost' = cost
  BY DEF ResultOrError
<1>2. MetricsTypeOK
  BY DEF MetricsInv
<1>3. MetricsTypeOK'
  <2>1. audit' = audit /\ bill' = bill
    BY <1>1 DEF AtBoundary
  <2> QED
    BY <1>1, <1>2, <2>1, BoundaryKeeps DEF MetricsTypeOK, RunRecord
<1>4. CostInv'
  <2>1. cost' = cost /\ bill' = bill /\ life'.cost <= bill
        /\ SumIs(life'.cost, bill, ledger'.before, cost.total, prevCost',
                 ledger'.first, ledger'.last, costSeen', cost.resumed)
    BY <1>1, BoundaryKeeps
  <2> QED
    BY <2>1 DEF CostInv
<1>5. RingInOrder(ring', life'.turns, runs') /\ FileInOrder(audit', writing', runs')
  BY <1>1, BoundaryKeeps
<1>6. RingInOrder(ring, life.turns, runs)' /\ FileInOrder(audit, writing, runs)'
  BY <1>5 DEF RingInOrder, FileInOrder, Rising
<1> QED
  BY <1>3, <1>4, <1>6 DEF MetricsInv

LEMMA ExitKeeps == MetricsInv /\ ExitBoundary => MetricsInv'
<1> SUFFICES ASSUME MetricsInv, ExitBoundary PROVE MetricsInv'
  OBVIOUS
<1>1. AtBoundary(NoCost) /\ NoCost \in {cost.total, NoCost} /\ cost' = [cost EXCEPT !.live = FALSE]
  BY DEF ExitBoundary
<1>2. MetricsTypeOK
  BY DEF MetricsInv
<1>3. cost' \in [live: BOOLEAN, resumed: BOOLEAN, total: Costs, n: 0..MaxProcesses] /\ ~cost'.live
  BY <1>1, <1>2 DEF MetricsTypeOK
<1>4. MetricsTypeOK'
  <2>1. audit' = audit /\ bill' = bill
    BY <1>1 DEF AtBoundary
  <2> QED
    BY <1>1, <1>2, <1>3, <2>1, BoundaryKeeps DEF MetricsTypeOK, RunRecord
<1>5. CostInv'
  <2>1. ~cost'.live /\ bill' = bill /\ life'.cost <= bill
    BY <1>1, <1>3, BoundaryKeeps
  <2> QED
    BY <2>1 DEF CostInv
<1>6. RingInOrder(ring', life'.turns, runs') /\ FileInOrder(audit', writing', runs')
  BY <1>1, BoundaryKeeps
<1>7. RingInOrder(ring, life.turns, runs)' /\ FileInOrder(audit, writing, runs)'
  BY <1>6 DEF RingInOrder, FileInOrder, Rising
<1> QED
  BY <1>4, <1>5, <1>7 DEF MetricsInv

LEMMA SpawnKeeps == MetricsInv /\ SpawnClaude => MetricsInv'
<1> SUFFICES ASSUME MetricsInv, SpawnClaude PROVE MetricsInv'
  OBVIOUS
<1>1. MetricsTypeOK /\ CostInv /\ RingInOrder(ring, life.turns, runs) /\ FileInOrder(audit, writing, runs)
  BY DEF MetricsInv
<1>2. PICK resumed \in {cost.n > 0, FALSE} : \E total \in (IF resumed THEN {cost.total, 0} ELSE {0}) :
         /\ cost' = [live |-> TRUE, resumed |-> resumed, total |-> total, n |-> cost.n + 1]
         /\ prevCost' = IF resumed THEN NoCost ELSE 0
  BY DEF SpawnClaude
<1>3. PICK total \in (IF resumed THEN {cost.total, 0} ELSE {0}) :
         /\ cost' = [live |-> TRUE, resumed |-> resumed, total |-> total, n |-> cost.n + 1]
         /\ prevCost' = IF resumed THEN NoCost ELSE 0
  BY <1>2
<1>4. /\ cost.n < MaxProcesses /\ costSeen' = FALSE /\ unsettled' = 0
      /\ ledger' = [NoLedger EXCEPT !.before = life.cost]
      /\ UNCHANGED <<ring, life, writing, audit, runs, bill>>
  BY DEF SpawnClaude
<1>5. /\ MaxSpent \in Nat /\ MaxProcesses \in Nat /\ NoCost \notin Nat
      /\ cost.total \in Nat /\ cost.total <= MaxSpent /\ cost.n \in Nat /\ life.cost \in Nat /\ bill \in Nat
  BY <1>1, MetricsTypes
<1>6. resumed \in BOOLEAN /\ total \in Costs /\ (~resumed => total = 0) /\ cost.n + 1 \in 0..MaxProcesses
  <2>1. resumed \in BOOLEAN
    <3>1. (cost.n > 0) \in BOOLEAN
      BY <1>5
    <3> QED
      BY <1>2, <3>1
  <2>2. total \in {cost.total, 0} /\ (~resumed => total = 0)
    BY <1>3
  <2>3. total \in Costs
    BY <1>5, <2>2 DEF Costs
  <2>4. cost.n + 1 \in 0..MaxProcesses
    BY <1>4, <1>5
  <2> QED
    BY <2>1, <2>2, <2>3, <2>4
<1>7. /\ cost' \in [live: BOOLEAN, resumed: BOOLEAN, total: Costs, n: 0..MaxProcesses]
      /\ cost'.total = total /\ cost'.resumed = resumed
  BY <1>3, <1>6
<1>8. ledger' = [before |-> life.cost, first |-> NoCost, last |-> NoCost]
  BY <1>4 DEF NoLedger
<1>9. prevCost' \in MaybeCost
  BY <1>3, <1>5 DEF MaybeCost, Costs
<1>10. MetricsTypeOK'
  <2>1. ledger' \in [before: Nat, first: MaybeCost, last: MaybeCost]
    BY <1>5, <1>8 DEF MaybeCost
  <2>2. costSeen' \in BOOLEAN
    BY <1>4
  <2>3. unsettled' \in 0..2
    BY <1>4
  <2> QED
    BY <1>1, <1>4, <1>7, <1>9, <2>1, <2>2, <2>3 DEF MetricsTypeOK
<1>11. CostInv'
  <2>1. life.cost <= bill
    BY <1>1 DEF CostInv
  <2>2. 0 # NoCost /\ life.cost + (0 - 0) <= bill /\ 0 <= 0
    BY <1>5, <2>1
  <2>3. SumIs(life.cost, bill, life.cost, total, prevCost', NoCost, NoCost, FALSE, resumed)
    <3>1. CASE resumed
      BY <1>3, <3>1 DEF SumIs
    <3>2. CASE ~resumed
      <4>1. prevCost' = 0 /\ total = 0
        BY <1>3, <1>6, <3>2
      <4> QED
        BY <2>2, <3>2, <4>1 DEF SumIs
    <3> QED
      BY <3>1, <3>2
  <2>4. SumIs(life'.cost, bill', ledger'.before, cost'.total, prevCost',
              ledger'.first, ledger'.last, costSeen', cost'.resumed)
    <3>1. ledger'.before = life.cost /\ ledger'.first = NoCost /\ ledger'.last = NoCost
      BY <1>8
    <3> QED
      BY <1>4, <1>7, <2>3, <3>1
  <2>5. life'.cost <= bill'
    BY <1>4, <2>1
  <2> QED
    BY <2>4, <2>5 DEF CostInv, SumIs
<1>12. RingInOrder(ring, life.turns, runs)' /\ FileInOrder(audit, writing, runs)'
  BY <1>1, <1>4 DEF RingInOrder, FileInOrder, Rising
<1> QED
  BY <1>10, <1>11, <1>12 DEF MetricsInv

LEMMA SpendsKeeps == MetricsInv /\ ClaudeSpends => MetricsInv'
<1> SUFFICES ASSUME MetricsInv, ClaudeSpends PROVE MetricsInv'
  OBVIOUS
<1>1. MetricsTypeOK /\ CostInv /\ RingInOrder(ring, life.turns, runs) /\ FileInOrder(audit, writing, runs)
  BY DEF MetricsInv
<1>2. /\ cost.live /\ bill < MaxSpent /\ cost.total < MaxSpent
      /\ bill' = bill + 1 /\ cost' = [cost EXCEPT !.total = cost.total + 1]
      /\ UNCHANGED <<prevCost, costSeen, unsettled, ring, life, writing, audit, runs, ledger>>
  BY DEF ClaudeSpends
<1>3. /\ MaxSpent \in Nat /\ cost.total \in Nat /\ life.cost \in Nat /\ bill \in Nat
      /\ cost \in [live: BOOLEAN, resumed: BOOLEAN, total: Costs, n: 0..MaxProcesses]
  BY <1>1, MetricsTypes DEF MetricsTypeOK
<1>4. cost.total + 1 \in Costs /\ bill' \in Costs
  BY <1>2, <1>3 DEF Costs
<1>5. /\ cost' \in [live: BOOLEAN, resumed: BOOLEAN, total: Costs, n: 0..MaxProcesses]
      /\ cost'.total = cost.total + 1 /\ cost'.resumed = cost.resumed
  BY <1>2, <1>3, <1>4
<1>6. MetricsTypeOK'
  BY <1>1, <1>2, <1>4, <1>5 DEF MetricsTypeOK
<1>7. CostInv'
  <2>1. life.cost <= bill
        /\ SumIs(life.cost, bill, ledger.before, cost.total, prevCost,
                 ledger.first, ledger.last, costSeen, cost.resumed)
    BY <1>1, <1>2 DEF CostInv
  <2>2. life.cost <= bill + 1
    BY <1>3, <2>1
  <2>0. bill + 1 \in Nat /\ cost.total + 1 \in Nat
    BY <1>3
  <2>3. PICK b \in Nat, t \in Nat : b = bill + 1 /\ t = cost.total + 1
    BY <2>0, Zenon
  <2>4. SumIs(life.cost, b, ledger.before, t, prevCost, ledger.first, ledger.last, costSeen, cost.resumed)
    <3>1. ASSUME prevCost # NoCost
          PROVE  prevCost \in Nat /\ prevCost <= t /\ life.cost + (t - prevCost) <= b
      <4>1. prevCost \in Nat /\ prevCost <= cost.total /\ life.cost + (cost.total - prevCost) <= bill
        BY <2>1, <3>1 DEF SumIs
      <4> QED
        BY <1>3, <2>3, <4>1
    <3> QED
      BY <2>1, <3>1 DEF SumIs
  <2>5. SumIs(life'.cost, bill', ledger'.before, cost'.total, prevCost',
              ledger'.first, ledger'.last, costSeen', cost'.resumed)
    BY <1>2, <1>5, <2>3, <2>4
  <2>6. life'.cost <= bill'
    BY <1>2, <2>2
  <2> QED
    BY <2>5, <2>6 DEF CostInv, SumIs
<1>8. RingInOrder(ring, life.turns, runs)' /\ FileInOrder(audit, writing, runs)'
  BY <1>1, <1>2 DEF RingInOrder, FileInOrder, Rising
<1> QED
  BY <1>6, <1>7, <1>8 DEF MetricsInv

LEMMA StartKeeps == MetricsInv /\ TurnStarts => MetricsInv'
<1> SUFFICES ASSUME MetricsInv, TurnStarts PROVE MetricsInv'
  OBVIOUS
<1>1. MetricsTypeOK /\ CostInv /\ RingInOrder(ring, life.turns, runs) /\ FileInOrder(audit, writing, runs)
  BY DEF MetricsInv
<1>2. /\ unsettled < 2 /\ unsettled' = unsettled + 1
      /\ UNCHANGED <<cost, prevCost, costSeen, ring, life, writing, audit, runs, bill, ledger>>
  BY DEF TurnStarts
<1>3. unsettled' \in 0..2
  <2>1. unsettled \in 0..2
    BY <1>1 DEF MetricsTypeOK
  <2> QED
    BY <1>2, <2>1
<1>4. MetricsTypeOK'
  BY <1>1, <1>2, <1>3 DEF MetricsTypeOK
<1> QED
  BY <1>1, <1>2, <1>4 DEF MetricsInv, CostInv, SumIs, RingInOrder, FileInOrder, Rising

LEMMA WriterKeeps == MetricsInv /\ WriterAppends => MetricsInv'
<1> SUFFICES ASSUME MetricsInv, WriterAppends PROVE MetricsInv'
  OBVIOUS
<1>1. MetricsTypeOK /\ CostInv /\ RingInOrder(ring, life.turns, runs) /\ FileInOrder(audit, writing, runs)
  BY DEF MetricsInv
<1>2. /\ writing # <<>> /\ writing' = Tail(writing)
      /\ audit' = Append(audit, Head(writing)) \/ audit' = audit
      /\ UNCHANGED <<cost, prevCost, costSeen, unsettled, ring, life, runs, bill, ledger>>
  BY DEF WriterAppends
<1>3. writing \in Seq(1..MaxRuns) /\ audit \in Seq(1..MaxRuns) /\ runs \in Nat
  BY <1>1, MetricsTypes
<1>4. writing' \in Seq(1..MaxRuns) /\ Head(writing) \in 1..MaxRuns
  BY <1>2, <1>3, HeadTailProperties
<1>5. audit' \in Seq(1..MaxRuns)
  <2>1. PICK n \in 1..MaxRuns : n = Head(writing)
    BY <1>4
  <2>2. Append(audit, n) \in Seq(1..MaxRuns)
    BY <1>3, AppendProperties
  <2> QED
    BY <1>2, <1>3, <2>1, <2>2
<1>6. /\ FileInOrder(audit, Tail(writing), runs)
      /\ FileInOrder(Append(audit, Head(writing)), Tail(writing), runs)
  BY <1>1, <1>2, <1>3, AllNat, FileTakes
<1>7. FileInOrder(audit', writing', runs')
  BY <1>2, <1>6
<1>8. FileInOrder(audit, writing, runs)'
  BY <1>7 DEF FileInOrder, Rising
<1>9. MetricsTypeOK'
  BY <1>1, <1>2, <1>4, <1>5 DEF MetricsTypeOK
<1>10. CostInv' /\ RingInOrder(ring, life.turns, runs)'
  BY <1>1, <1>2 DEF CostInv, SumIs, RingInOrder
<1> QED
  BY <1>8, <1>9, <1>10 DEF MetricsInv

LEMMA RestartKeeps == MetricsInv /\ RestartMetrics => MetricsInv'
<1> SUFFICES ASSUME MetricsInv, RestartMetrics PROVE MetricsInv'
  OBVIOUS
<1>1. MetricsTypeOK /\ CostInv /\ RingInOrder(ring, life.turns, runs) /\ FileInOrder(audit, writing, runs)
  BY DEF MetricsInv
<1>2. /\ cost.n < MaxProcesses /\ cost' = [cost EXCEPT !.live = FALSE, !.n = cost.n + 1]
      /\ ring' = <<>> /\ life' = [turns |-> 0, cost |-> 0] /\ writing' = <<>>
      /\ bill' = 0 /\ ledger' = NoLedger /\ unsettled' = 0
      /\ UNCHANGED <<prevCost, costSeen, audit, runs>>
  BY DEF RestartMetrics
<1>3. /\ RingCap \in Nat /\ RingCap > 0 /\ MaxSpent \in Nat /\ MaxRuns \in Nat /\ MaxProcesses \in Nat
      /\ cost.n \in Nat /\ runs \in Nat
      /\ cost \in [live: BOOLEAN, resumed: BOOLEAN, total: Costs, n: 0..MaxProcesses]
  BY <1>1, MetricsTypes DEF MetricsTypeOK
<1>4. cost.n + 1 \in 0..MaxProcesses
  BY <1>2, <1>3
<1>5. cost' \in [live: BOOLEAN, resumed: BOOLEAN, total: Costs, n: 0..MaxProcesses] /\ ~cost'.live
  BY <1>2, <1>3, <1>4
<1>6. /\ ring' \in Seq([id: 1..MaxRuns, cost: MaybeCost, verdict: Verdicts \cup {NoCost}])
      /\ writing' \in Seq(1..MaxRuns)
  BY <1>2, EmptySeq
<1>7. life' \in [turns: 0..MaxRuns, cost: Nat] /\ life'.turns = 0 /\ life'.cost = 0
  BY <1>2, <1>3
<1>8. ledger' \in [before: Nat, first: MaybeCost, last: MaybeCost]
  BY <1>2 DEF NoLedger, MaybeCost
<1>9. bill' \in Costs /\ unsettled' \in 0..2
  BY <1>2, <1>3 DEF Costs
<1>10. MetricsTypeOK'
  BY <1>1, <1>2, <1>5, <1>6, <1>7, <1>8, <1>9 DEF MetricsTypeOK
<1>11. CostInv'
  <2>1. life'.cost <= bill'
    BY <1>2, <1>7
  <2> QED
    BY <1>5, <2>1 DEF CostInv
<1>12. RingInOrder(ring', life'.turns, runs')
  <2>1. Len(<<>>) = 0 /\ 0 < RingCap /\ 0 <= runs
    BY <1>3
  <2> QED
    BY <1>2, <1>7, <2>1 DEF RingInOrder
<1>13. FileInOrder(audit', writing', runs')
  BY <1>1, <1>2, FileLoses
<1>14. RingInOrder(ring, life.turns, runs)' /\ FileInOrder(audit, writing, runs)'
  BY <1>12, <1>13 DEF RingInOrder, FileInOrder, Rising
<1> QED
  BY <1>10, <1>11, <1>14 DEF MetricsInv

LEMMA VerdictKeeps ==
  ASSUME MetricsInv, NEW id \in 1..MaxRuns, NEW v \in Verdicts, PostRunVerdict(id, v)
  PROVE  MetricsInv'
<1>1. MetricsTypeOK /\ CostInv /\ RingInOrder(ring, life.turns, runs) /\ FileInOrder(audit, writing, runs)
  BY DEF MetricsInv
<1>2. /\ ring' = Judged(id, v)
      /\ UNCHANGED <<cost, prevCost, costSeen, unsettled, life, writing, audit, runs, bill, ledger>>
  BY DEF PostRunVerdict
<1>3. /\ ring \in Seq(RunRecord) /\ Len(ring) \in Nat /\ DOMAIN ring = 1..Len(ring)
      /\ \A i \in 1..Len(ring) : ring[i] \in RunRecord
  BY <1>1, MetricsTypes, LenProperties, ElementOfSeq
<1>4. PICK n \in Nat : n = Len(ring)
  BY <1>3
<1>5. \A r \in RunRecord : [r EXCEPT !.verdict = v] \in RunRecord /\ [r EXCEPT !.verdict = v].id = r.id
  BY DEF RunRecord
<1>6. /\ Judged(id, v) \in [1..n -> RunRecord]
      /\ \A i \in 1..n : Judged(id, v)[i].id = ring[i].id
  BY <1>3, <1>4, <1>5 DEF Judged
<1>7. Judged(id, v) \in Seq(RunRecord) /\ Len(Judged(id, v)) = n
  <2>1. Judged(id, v) \in Seq(RunRecord)
    BY <1>6, SeqDef
  <2>2. DOMAIN Judged(id, v) = 1..n /\ DOMAIN Judged(id, v) = 1..Len(Judged(id, v))
        /\ Len(Judged(id, v)) \in Nat
    BY <1>6, <2>1, LenProperties
  <2> QED
    BY <2>1, <2>2
<1>8. RingInOrder(Judged(id, v), life.turns, runs)
  BY <1>1, <1>4, <1>6, <1>7 DEF RingInOrder
<1>10. MetricsTypeOK'
  BY <1>1, <1>2, <1>7 DEF MetricsTypeOK, RunRecord
<1>11. RingInOrder(ring, life.turns, runs)'
  <2>1. RingInOrder(ring', life'.turns, runs')
    BY <1>2, <1>8
  <2> QED
    BY <2>1 DEF RingInOrder
<1>12. CostInv' /\ FileInOrder(audit, writing, runs)'
  BY <1>1, <1>2 DEF CostInv, SumIs, FileInOrder, Rising
<1> QED
  BY <1>10, <1>11, <1>12 DEF MetricsInv

LEMMA MetricsStep == ASSUME MetricsInv, [MetricsNext]_metricsVars PROVE MetricsInv'
<1>1. CASE UNCHANGED metricsVars
  BY <1>1 DEF metricsVars, MetricsInv, MetricsTypeOK, CostInv, SumIs, RingInOrder, FileInOrder, Rising
<1> QED
  BY <1>1, SpawnKeeps, StartKeeps, SpendsKeeps, ResultKeeps, ExitKeeps, WriterKeeps, RestartKeeps,
     VerdictKeeps DEF MetricsNext

LEMMA PageInOrder ==
  ASSUME MetricsInv, NEW limit \in 0..RingCap, NEW i \in DOMAIN RunsPage(limit)
  PROVE  RunsPage(limit)[i].id = runs + 1 - i
<1>1. MetricsTypeOK /\ RingInOrder(ring, life.turns, runs)
  BY DEF MetricsInv
<1>2. /\ ring \in Seq(RunRecord) /\ Len(ring) \in Nat /\ runs \in Nat /\ RingCap \in Nat
      /\ \A j \in 1..Len(ring) : ring[j] \in RunRecord
  BY <1>1, MetricsTypes, ElementOfSeq
<1>3. PICK n \in Nat : n = Len(ring)
  BY <1>2
<1> DEFINE newest == Reverse(ring)
<1>4. /\ newest \in [1..n -> RunRecord]
      /\ \A j \in 1..n : n - j + 1 \in 1..n /\ newest[j] = ring[n - j + 1]
  BY <1>2, <1>3 DEF Reverse
<1>5. PICK m \in Nat : m = (IF limit < n THEN limit ELSE n) /\ m <= n
  BY <1>3
<1>6. RunsPage(limit) = SubSeq(newest, 1, m)
  BY <1>3, <1>5 DEF RunsPage
<1>7. \A j \in 1..m : j \in 1..n /\ newest[j] \in RunRecord
  BY <1>4, <1>5
<1> HIDE DEF newest
<1>8. /\ SubSeq(newest, 1, m) \in Seq(RunRecord)
      /\ Len(SubSeq(newest, 1, m)) = (IF 1 <= m THEN m - 1 + 1 ELSE 0)
      /\ \A j \in 1..(m - 1 + 1) : SubSeq(newest, 1, m)[j] = newest[1 + j - 1]
  <2>1. 1 \in Int /\ m \in Int
    OBVIOUS
  <2> QED
    BY <1>7, <2>1, SubSeqProperties
<1>9. m - 1 + 1 = m /\ (IF 1 <= m THEN m - 1 + 1 ELSE 0) = m
  BY <1>5
<1>10. i \in 1..m
  BY <1>6, <1>8, <1>9, LenProperties
<1>11. RunsPage(limit)[i] = newest[i] /\ newest[i] = ring[n - i + 1] /\ n - i + 1 \in 1..n
  <2>1. 1 + i - 1 = i
    BY <1>10
  <2> QED
    BY <1>4, <1>6, <1>7, <1>8, <1>9, <1>10, <2>1
<1>12. ring[n - i + 1].id = runs - n + (n - i + 1)
  BY <1>1, <1>3, <1>11 DEF RingInOrder
<1>13. runs - n + (n - i + 1) = runs + 1 - i
  BY <1>2, <1>10
<1> QED
  BY <1>11, <1>12, <1>13

LEMMA MetricsInvGives == MetricsInv => MetricsTypeOK /\ CostsTelescope /\ RunsInOrder
<1> SUFFICES ASSUME MetricsInv PROVE MetricsTypeOK /\ CostsTelescope /\ RunsInOrder
  OBVIOUS
<1>1. MetricsTypeOK /\ CostInv /\ RingInOrder(ring, life.turns, runs) /\ FileInOrder(audit, writing, runs)
  BY DEF MetricsInv
<1>2. /\ NoCost \notin Nat /\ cost.live \in BOOLEAN /\ cost.resumed \in BOOLEAN
      /\ ledger.before \in Nat /\ life.cost \in Nat /\ runs \in Nat
      /\ writing \in Seq(1..MaxRuns) /\ audit \in Seq(1..MaxRuns)
      /\ costSeen \in BOOLEAN
  BY <1>1, MetricsTypes DEF MetricsTypeOK
<1>3. CostsTelescope
  <2>1. ASSUME cost.live, ledger.last # NoCost
        PROVE  life.cost - ledger.before = ledger.last - (IF cost.resumed THEN ledger.first ELSE 0)
    <3>1. SumIs(life.cost, bill, ledger.before, cost.total, prevCost,
                ledger.first, ledger.last, costSeen, cost.resumed)
      BY <1>1, <2>1 DEF CostInv
    <3>2. costSeen
      BY <1>2, <2>1, <3>1 DEF SumIs
    <3>3. /\ ledger.first \in Nat /\ ledger.last \in Nat
          /\ life.cost = ledger.before + ledger.last - (IF cost.resumed THEN ledger.first ELSE 0)
      BY <3>1, <3>2 DEF SumIs
    <3>4. PICK less \in Nat : less = IF cost.resumed THEN ledger.first ELSE 0
      BY <3>3
    <3>5. life.cost = ledger.before + ledger.last - less
      BY <3>3, <3>4
    <3>6. life.cost - ledger.before = ledger.last - less
      BY <1>2, <3>3, <3>5
    <3> QED
      BY <3>4, <3>6
  <2> QED
    BY <1>1, <2>1 DEF CostInv, CostsTelescope
<1>4. LET kept == audit \o writing IN \A i, j \in DOMAIN kept : i < j => kept[i] < kept[j]
  <2> DEFINE kept == audit \o writing
  <2>1. /\ kept \in Seq(1..MaxRuns) /\ Len(kept) = Len(audit) + Len(writing)
        /\ \A i \in 1..(Len(audit) + Len(writing)) :
              kept[i] = IF i <= Len(audit) THEN audit[i] ELSE writing[i - Len(audit)]
    BY <1>2, ConcatProperties
  <2>2. Len(audit) \in Nat /\ Len(writing) \in Nat /\ DOMAIN kept = 1..(Len(audit) + Len(writing))
    BY <1>2, <2>1, LenProperties
  <2> HIDE DEF kept
  <2>3. ASSUME NEW i \in DOMAIN kept, NEW j \in DOMAIN kept, i < j PROVE kept[i] < kept[j]
    <3>1. CASE j <= Len(audit)
      <4>1. i \in 1..Len(audit) /\ j \in 1..Len(audit) /\ i <= Len(audit)
        BY <2>2, <2>3, <3>1
      <4> QED
        BY <1>1, <2>1, <2>2, <2>3, <3>1, <4>1 DEF FileInOrder, Rising
    <3>2. CASE i <= Len(audit) /\ ~(j <= Len(audit))
      <4>1. i \in 1..Len(audit) /\ j - Len(audit) \in 1..Len(writing)
        BY <2>2, <2>3, <3>2
      <4> QED
        BY <1>1, <2>1, <2>2, <3>2, <4>1 DEF FileInOrder
    <3>3. CASE ~(i <= Len(audit))
      <4>1. /\ i - Len(audit) \in 1..Len(writing) /\ j - Len(audit) \in 1..Len(writing)
            /\ i - Len(audit) < j - Len(audit) /\ ~(j <= Len(audit))
        BY <2>2, <2>3, <3>3
      <4> QED
        BY <1>1, <2>1, <2>2, <3>3, <4>1 DEF FileInOrder, Rising
    <3> QED
      BY <3>1, <3>2, <3>3
  <2> QED
    BY <2>3 DEF kept
<1>5. RunsInOrder
  <2>1. Len(ring) = (IF life.turns < RingCap THEN life.turns ELSE RingCap)
    BY <1>1 DEF RingInOrder
  <2> QED
    BY <1>4, <2>1, PageInOrder DEF RunsInOrder
<1> QED
  BY <1>1, <1>3, <1>5

LEMMA MetricsInvInit == MetricsInit => MetricsInv
<1> SUFFICES ASSUME MetricsInit PROVE MetricsInv
  OBVIOUS
<1>1. /\ cost = [live |-> FALSE, resumed |-> FALSE, total |-> 0, n |-> 0]
      /\ prevCost = NoCost /\ costSeen = FALSE /\ unsettled = 0
      /\ ring = <<>> /\ life = [turns |-> 0, cost |-> 0]
      /\ writing = <<>> /\ audit = <<>> /\ runs = 0 /\ bill = 0 /\ ledger = NoLedger
  BY DEF MetricsInit
<1>2. /\ RingCap \in Nat /\ RingCap > 0 /\ MaxSpent \in Nat /\ MaxRuns \in Nat /\ MaxProcesses \in Nat
  BY MetricsAssumption
<1>3. MetricsTypeOK
  <2>1. 0 \in Costs /\ 0 \in 0..MaxRuns /\ 0 \in 0..MaxProcesses /\ 0 \in 0..2
    BY <1>2 DEF Costs
  <2>2. cost \in [live: BOOLEAN, resumed: BOOLEAN, total: Costs, n: 0..MaxProcesses]
    BY <1>1, <2>1
  <2>3. life \in [turns: 0..MaxRuns, cost: Nat]
    BY <1>1, <2>1
  <2>4. ledger \in [before: Nat, first: MaybeCost, last: MaybeCost] /\ prevCost \in MaybeCost
    BY <1>1 DEF NoLedger, MaybeCost
  <2>5. /\ ring \in Seq([id: 1..MaxRuns, cost: MaybeCost, verdict: Verdicts \cup {NoCost}])
        /\ writing \in Seq(1..MaxRuns) /\ audit \in Seq(1..MaxRuns)
    BY <1>1, EmptySeq
  <2> QED
    BY <1>1, <2>1, <2>2, <2>3, <2>4, <2>5 DEF MetricsTypeOK
<1>4. CostInv
  BY <1>1 DEF CostInv
<1>5. Len(<<>>) = 0 /\ 0 < RingCap
  BY <1>2
<1>6. RingInOrder(ring, life.turns, runs)
  BY <1>1, <1>5 DEF RingInOrder
<1>7. FileInOrder(audit, writing, runs)
  BY <1>1, <1>5 DEF FileInOrder, Rising
<1> QED
  BY <1>3, <1>4, <1>6, <1>7 DEF MetricsInv

\* RecordsStand, the part of the costs: the differences telescope and never add
\* up to more than was spent, and the runs are kept and written in order.
THEOREM MetricsStandHolds == Spec => MetricsStand /\ []MetricsTypeOK
<1>1. Init => MetricsInv
  BY MetricsInvInit DEF Init
<1>2. MetricsInv /\ [Next]_vars => MetricsInv'
  BY EachStays, MetricsStep
<1>3. MetricsInv => (CostsTelescope /\ RunsInOrder) /\ MetricsTypeOK
  BY MetricsInvGives
<1> QED
  BY <1>1, <1>2, <1>3, PTL DEF Spec, MetricsStand

-----------------------------------------------------------------------------
(* Accounts again: the types of the rest, and that a page that got in has a *)
(* token or a row that lets its sockets in.                                 *)

UsedIsBounded ==
  /\ used \in [DOMAIN Bound -> Nat]
  /\ \A b \in DOMAIN Bound : used[b] <= Bound[b]

OtherTypes ==
  /\ dbOk \in BOOLEAN
  /\ nonce \in [People -> 0..MaxFlows]
  /\ flows \subseteq [who: People, nonce: 1..MaxFlows, pc: {"github", "exchange"}]
  /\ page \in [People -> {"login", "loading", "waiting", "app"}]
  /\ ws \in [People -> {"none", "open", "refused"}]
  /\ adminReqs \subseteq [by: 1..MaxIds, op: {"approve", "delete"}, id: 1..MaxIds]
  /\ approved \subseteq 1..MaxIds

TokensAreOld == \A p \in People : jwt[p].id <= lastId

AppIsActive ==
  \A p \in People : page[p] = "app" =>
     \/ jwt[p] = NoUser \/ jwt[p].status = "active"
     \/ \A q \in People : rows[q].id = jwt[p].id => rows[q].status = "active"

AccountsInv == IInv /\ FlowsAreLogins /\ UsedIsBounded /\ OtherTypes /\ TokensAreOld /\ AppIsActive

LEMMA BoundFacts ==
  /\ DOMAIN Bound = {"flows", "blips", "ops", "boots", "visits"}
  /\ Bound["flows"] = MaxFlows /\ MaxFlows \in Nat
  /\ \A b \in DOMAIN Bound : Bound[b] \in Nat
<1>1. DOMAIN Bound = {"flows", "blips", "ops", "boots", "visits"}
  BY DEF Bound
<1>2. /\ Bound["flows"] = MaxFlows /\ Bound["blips"] = MaxBlips /\ Bound["ops"] = MaxAdminOps
      /\ Bound["boots"] = MaxBoots /\ Bound["visits"] = MaxVisits
  BY DEF Bound
<1> QED
  BY <1>1, <1>2, AccountsAssumption

LEMMA SpendKeeps ==
  ASSUME UsedIsBounded, NEW b \in DOMAIN Bound, Spend(b)
  PROVE  UsedIsBounded' /\ used'[b] \in 1..Bound[b]
<1>1. used[b] < Bound[b] /\ used' = [used EXCEPT ![b] = used[b] + 1]
  BY DEF Spend
<1>2. used \in [DOMAIN Bound -> Nat] /\ \A c \in DOMAIN Bound : used[c] <= Bound[c] /\ Bound[c] \in Nat
  BY BoundFacts DEF UsedIsBounded
<1>3. used[b] \in Nat /\ Bound[b] \in Nat
  BY <1>2
<1>4. used[b] + 1 \in Nat /\ used[b] + 1 <= Bound[b] /\ used[b] + 1 \in 1..Bound[b]
  BY <1>1, <1>3
<1>5. used' \in [DOMAIN Bound -> Nat] /\ used'[b] = used[b] + 1 /\ \A c \in DOMAIN Bound : c # b => used'[c] = used[c]
  BY <1>1, <1>2, <1>4
<1>6. \A c \in DOMAIN Bound : used'[c] <= Bound[c]
  BY <1>2, <1>4, <1>5
<1> QED
  BY <1>4, <1>5, <1>6 DEF UsedIsBounded

LEMMA UsedStep == UsedIsBounded /\ [AccountsNext]_accountsVars => UsedIsBounded'
<1> SUFFICES ASSUME UsedIsBounded, [AccountsNext]_accountsVars PROVE UsedIsBounded'
  OBVIOUS
<1>1. CASE UNCHANGED used
  BY <1>1 DEF UsedIsBounded
<1>2. ASSUME \E b \in {"flows", "blips", "ops", "boots", "visits"} : Spend(b) PROVE UsedIsBounded'
  BY <1>2, BoundFacts, SpendKeeps
<1> QED
  BY <1>1, <1>2 DEF AccountsNext, accountsVars, Redirect, Load, Poll, Reload, Request, OpenWs, Expire,
     Callback, Login, AdminAsks, ApproveUser, DeleteUser, Blip, Heal, Reboot

LEMMA OtherTypesStep ==
  ASSUME AccountsInv, [AccountsNext]_accountsVars
  PROVE  OtherTypes'
<1>1. IInv /\ OtherTypes /\ UsedIsBounded /\ FlowsAreLogins
  BY DEF AccountsInv
<1>2. /\ rows \in [People -> Claims] /\ jwt \in [People -> Claims] /\ lastId \in 0..MaxIds
      /\ MaxIds \in Nat /\ MaxFlows \in Nat
  BY <1>1, AccountsAssumption DEF IInv, Typed
<1>3. \A c \in Claims : c.id # 0 => c.id \in 1..MaxIds
  BY DEF Claims, NoUser
<1>4. CASE UNCHANGED accountsVars
  BY <1>1, <1>4 DEF accountsVars, OtherTypes
<1>5. ASSUME NEW p \in People, Redirect(p) PROVE OtherTypes'
  <2>1. used'["flows"] \in 1..MaxFlows
    BY <1>1, <1>5, BoundFacts, SpendKeeps DEF Redirect
  <2>2. PICK n \in 1..MaxFlows : n = used'["flows"]
    BY <2>1
  <2>3. /\ nonce' = [nonce EXCEPT ![p] = n]
        /\ flows' = flows \cup {[who |-> p, nonce |-> n, pc |-> "github"]}
        /\ UNCHANGED <<dbOk, page, ws, adminReqs, approved>>
    BY <1>5, <2>2 DEF Redirect
  <2>4. nonce' \in [People -> 0..MaxFlows]
    BY <1>1, <1>2, <2>2, <2>3 DEF OtherTypes
  <2>5. flows' \subseteq [who: People, nonce: 1..MaxFlows, pc: {"github", "exchange"}]
    BY <1>1, <2>2, <2>3 DEF OtherTypes
  <2> QED
    BY <1>1, <2>3, <2>4, <2>5 DEF OtherTypes
<1>6. ASSUME NEW f \in flows, Callback(f) PROVE OtherTypes'
  <2>1. f \in [who: People, nonce: 1..MaxFlows, pc: {"github", "exchange"}]
    BY <1>1 DEF OtherTypes
  <2>2. [f EXCEPT !.pc = "exchange"] \in [who: People, nonce: 1..MaxFlows, pc: {"github", "exchange"}]
    BY <2>1
  <2>3. flows' \subseteq flows \cup {[f EXCEPT !.pc = "exchange"]} /\ UNCHANGED <<dbOk, nonce, page, ws, adminReqs, approved>>
    BY <1>6 DEF Callback
  <2> QED
    BY <1>1, <2>2, <2>3 DEF OtherTypes
<1>7. ASSUME NEW f \in flows, Login(f) PROVE OtherTypes'
  <2>1. flows' \subseteq flows /\ UNCHANGED <<dbOk, ws, adminReqs>>
    BY <1>7 DEF Login
  <2>2. nonce' \in [People -> 0..MaxFlows] /\ page' \in [People -> {"login", "loading", "waiting", "app"}]
    BY <1>1, <1>2, <1>7 DEF Login, OtherTypes
  <2>3. approved' \subseteq 1..MaxIds
    <3>1. f.who \in People
      BY <1>1 DEF FlowsAreLogins
    <3>2. CASE approved' = approved
      BY <1>1, <3>2 DEF OtherTypes
    <3>3. CASE HasRow(f.who) /\ approved' = approved \cup (IF rows[f.who].status = "active" THEN {rows[f.who].id} ELSE {})
      BY <1>1, <1>2, <1>3, <3>1, <3>3, ClaimFacts DEF OtherTypes
    <3>4. CASE ~HasRow(f.who) /\ lastId < MaxIds
               /\ approved' = approved \cup (IF Inserted(f.who).status = "active" THEN {Inserted(f.who).id} ELSE {})
      <4>1. Inserted(f.who).id = lastId + 1 /\ lastId + 1 \in 1..MaxIds
        BY <1>2, <3>4 DEF Inserted
      <4> QED
        BY <1>1, <3>4, <4>1 DEF OtherTypes
    <3> QED
      BY <1>7, <3>2, <3>3, <3>4 DEF Login
  <2> QED
    BY <1>1, <2>1, <2>2, <2>3 DEF OtherTypes
<1>8. ASSUME NEW p \in People, Load(p) \/ Poll(p) \/ Reload(p) \/ Request(p) \/ OpenWs(p) \/ Expire(p) PROVE OtherTypes'
  <2>1. UNCHANGED <<dbOk, nonce, flows, adminReqs, approved>>
    BY <1>8 DEF Load, Poll, Reload, Request, OpenWs, Expire
  <2>2. page' \in [People -> {"login", "loading", "waiting", "app"}]
    BY <1>1, <1>8 DEF OtherTypes, Load, Poll, Reload, Request, OpenWs, Expire
  <2>3. ws' \in [People -> {"none", "open", "refused"}]
    BY <1>1, <1>8 DEF OtherTypes, Load, Poll, Reload, Request, OpenWs, Expire
  <2> QED
    BY <1>1, <2>1, <2>2, <2>3 DEF OtherTypes
<1>9. ASSUME NEW p \in People, NEW op \in {"approve", "delete"}, NEW id \in 1..MaxIds, AdminAsks(p, op, id)
      PROVE  OtherTypes'
  <2>1. jwt[p].id \in 1..MaxIds
    BY <1>1, <1>9, IdentityApproved DEF AdminAsks, OtherTypes
  <2>2. /\ adminReqs' = adminReqs \cup {[by |-> jwt[p].id, op |-> op, id |-> id]}
        /\ UNCHANGED <<dbOk, nonce, flows, page, ws, approved>>
    BY <1>9 DEF AdminAsks
  <2> QED
    BY <1>1, <2>1, <2>2 DEF OtherTypes
<1>10. ASSUME NEW r \in adminReqs, ApproveUser(r) PROVE OtherTypes'
  <2>1. rows' \in [People -> Claims]
    BY <1>1, <1>10, ApproveKeeps DEF IInv, Typed
  <2>2. approved' = approved \cup {rows'[p].id : p \in {q \in People : rows'[q].status = "active"}}
        /\ adminReqs' \subseteq adminReqs /\ UNCHANGED <<dbOk, nonce, flows, page, ws>>
    BY <1>10 DEF ApproveUser
  <2>3. \A p \in People : rows'[p].status = "active" => rows'[p].id \in 1..MaxIds
    BY <1>3, <2>1, ClaimFacts
  <2>4. approved' \subseteq 1..MaxIds
    BY <1>1, <2>2, <2>3 DEF OtherTypes
  <2> QED
    BY <1>1, <2>2, <2>4 DEF OtherTypes
<1>11. ASSUME NEW r \in adminReqs, DeleteUser(r) PROVE OtherTypes'
  BY <1>1, <1>11 DEF DeleteUser, OtherTypes
<1>12. CASE Blip \/ Heal
  BY <1>1, <1>12 DEF Blip, Heal, OtherTypes
<1>13. CASE Reboot
  <2>1. /\ flows' \subseteq flows /\ adminReqs' = {} /\ ws' \in [People -> {"none", "open", "refused"}]
        /\ UNCHANGED <<dbOk, nonce, page, approved>>
    BY <1>13 DEF Reboot
  <2> QED
    BY <1>1, <2>1 DEF OtherTypes
<1> QED
  BY <1>4, <1>5, <1>6, <1>7, <1>8, <1>9, <1>10, <1>11, <1>12, <1>13 DEF AccountsNext

LEMMA IdentityIsActive ==
  ASSUME IInv, NEW p \in People, Identity(jwt[p]).status = "active"
  PROVE  \/ jwt[p].status = "active"
         \/ \A q \in People : rows[q].id = jwt[p].id => rows[q].status = "active"
<1> SUFFICES ASSUME jwt[p].status # "active", NEW q \in People, rows[q].id = jwt[p].id
             PROVE  rows[q].status = "active"
  OBVIOUS
<1>1. jwt[p].status = "pending" /\ Recheck(jwt[p]).status = "active"
  BY DEF Identity
<1>2. jwt[p].id \in RowIds /\ Recheck(jwt[p]) = RowOf(jwt[p].id)
  BY <1>1, ClaimFacts DEF Recheck
<1>3. rows[CHOOSE o \in People : rows[o].id = jwt[p].id].status = "active"
  BY <1>1, <1>2 DEF RowOf
<1>4. PICK o \in People : rows[o].id = jwt[p].id /\ rows[o].status = "active"
  BY <1>3
<1>5. rows[q].id # 0
  BY <1>2 DEF RowIds
<1>6. o = q
  BY <1>4, <1>5 DEF IInv, IdsAreFresh
<1> QED
  BY <1>4, <1>6

LEMMA TokensStep ==
  ASSUME AccountsInv, [AccountsNext]_accountsVars
  PROVE  TokensAreOld'
<1>1. IInv /\ FlowsAreLogins /\ TokensAreOld
  BY DEF AccountsInv
<1>2. rows \in [People -> Claims] /\ jwt \in [People -> Claims] /\ lastId \in Nat
      /\ \A c \in Claims : c.id \in Nat
  <2>1. MaxIds \in Nat
    BY AccountsAssumption
  <2> QED
    BY <1>1, <2>1, ClaimFacts DEF IInv, Typed
<1>3. CASE jwt' = jwt /\ lastId' = lastId
  BY <1>1, <1>3 DEF TokensAreOld
<1>4. ASSUME NEW f \in flows, Login(f) PROVE TokensAreOld'
  <2>1. f.who \in People
    BY <1>1 DEF FlowsAreLogins
  <2>2. CASE jwt' = jwt /\ lastId' = lastId
    BY <1>1, <2>2 DEF TokensAreOld
  <2>3. CASE jwt' = [jwt EXCEPT ![f.who] = rows[f.who]] /\ lastId' = lastId
    <3>1. \A p \in People : jwt'[p] = jwt[p] \/ jwt'[p] = rows[f.who]
      BY <1>2, <2>3
    <3>2. rows[f.who].id <= lastId
      BY <1>1, <2>1 DEF IInv, IdsAreFresh
    <3> QED
      BY <1>1, <2>3, <3>1, <3>2 DEF TokensAreOld
  <2>4. CASE jwt' = [jwt EXCEPT ![f.who] = Inserted(f.who)] /\ lastId' = lastId + 1
    <3>1. \A p \in People : jwt'[p] = jwt[p] \/ jwt'[p] = Inserted(f.who)
      BY <1>2, <2>4
    <3>2. Inserted(f.who).id = lastId + 1
      BY DEF Inserted
    <3>3. \A p \in People : jwt[p].id \in Nat /\ jwt[p].id <= lastId /\ jwt[p].id <= lastId + 1
      BY <1>1, <1>2 DEF TokensAreOld
    <3>4. lastId + 1 <= lastId + 1
      BY <1>2
    <3> QED
      BY <2>4, <3>1, <3>2, <3>3, <3>4 DEF TokensAreOld
  <2> QED
    BY <1>4, <2>2, <2>3, <2>4 DEF Login
<1>5. CASE Reboot \/ \E p \in People : Expire(p)
  <2>1. lastId' = lastId /\ \A q \in People : jwt'[q] = jwt[q] \/ jwt'[q] = NoUser
    BY <1>2, <1>5 DEF Reboot, Expire
  <2>2. 0 <= lastId
    BY <1>2
  <2> QED
    BY <1>1, <2>1, <2>2, ClaimFacts DEF TokensAreOld
<1> QED
  BY <1>3, <1>4, <1>5 DEF AccountsNext, accountsVars, Redirect, Load, Poll, Reload, Request, OpenWs,
     Callback, AdminAsks, ApproveUser, DeleteUser, Blip, Heal

LEMMA AppStep ==
  ASSUME AccountsInv, [AccountsNext]_accountsVars
  PROVE  AppIsActive'
<1>1. IInv /\ FlowsAreLogins /\ TokensAreOld /\ AppIsActive /\ OtherTypes
  BY DEF AccountsInv
<1>2. /\ rows \in [People -> Claims] /\ jwt \in [People -> Claims] /\ lastId \in Nat
      /\ \A c \in Claims : c.id \in Nat
      /\ page \in [People -> {"login", "loading", "waiting", "app"}]
  <2>1. MaxIds \in Nat
    BY AccountsAssumption
  <2> QED
    BY <1>1, <2>1, ClaimFacts DEF IInv, Typed, OtherTypes
<1>3. CASE UNCHANGED <<rows, jwt, page>>
  BY <1>1, <1>3 DEF AppIsActive
<1>4. ASSUME NEW p \in People, Load(p) \/ Poll(p) \/ Reload(p) PROVE AppIsActive'
  <2>1. UNCHANGED <<rows, jwt>> /\ \A q \in People : q # p => page'[q] = page[q]
    BY <1>2, <1>4 DEF Load, Poll, Reload
  <2>2. page'[p] = "app" => Identity(jwt[p]).status = "active"
    BY <1>2, <1>4 DEF Load, Poll, Reload
  <2>3. page'[p] = "app" => \/ jwt[p].status = "active"
                            \/ \A q \in People : rows[q].id = jwt[p].id => rows[q].status = "active"
    BY <1>1, <2>2, IdentityIsActive
  <2> QED
    BY <1>1, <2>1, <2>3 DEF AppIsActive
<1>5. ASSUME NEW f \in flows, Login(f) PROVE AppIsActive'
  <2> DEFINE p == f.who
  <2>1. p \in People
    BY <1>1 DEF FlowsAreLogins
  <2>2. CASE UNCHANGED <<rows, jwt, page>>
    BY <1>1, <2>2 DEF AppIsActive
  <2>3. CASE page' = [page EXCEPT ![p] = "loading"]
    <3>1. /\ rows' = [rows EXCEPT ![p] = IF HasRow(p) THEN rows[p] ELSE Inserted(p)]
          /\ jwt' = [jwt EXCEPT ![p] = IF HasRow(p) THEN rows[p] ELSE Inserted(p)]
          \/ UNCHANGED <<rows, jwt, page>>
      BY <1>5 DEF Login
    <3>2. ASSUME /\ rows' = [rows EXCEPT ![p] = IF HasRow(p) THEN rows[p] ELSE Inserted(p)]
                 /\ jwt' = [jwt EXCEPT ![p] = IF HasRow(p) THEN rows[p] ELSE Inserted(p)],
                 NEW o \in People, page'[o] = "app"
          PROVE  \/ jwt'[o] = NoUser \/ jwt'[o].status = "active"
                 \/ \A q \in People : rows'[q].id = jwt'[o].id => rows'[q].status = "active"
      <4> HIDE DEF p
      <4>1. o # p /\ page[o] = "app"
        BY <1>2, <2>1, <2>3, <3>2
      <4>2. jwt'[o] = jwt[o]
        BY <1>2, <3>2, <4>1
      <4>3. \A q \in People : rows'[q] = rows[q] \/ (~HasRow(p) /\ q = p /\ rows'[q] = Inserted(p))
        BY <1>2, <3>2
      <4>4. Inserted(p).id = lastId + 1 /\ jwt[o].id <= lastId /\ jwt[o].id \in Nat
        BY <1>1, <1>2 DEF Inserted, TokensAreOld
      <4>5. Inserted(p).id # jwt[o].id
        BY <1>2, <4>4
      <4> QED
        BY <1>1, <4>1, <4>2, <4>3, <4>5 DEF AppIsActive
    <3> QED
      BY <1>1, <3>1, <3>2 DEF AppIsActive
  <2> QED
    BY <1>5, <2>2, <2>3 DEF Login
<1>6. CASE Reboot \/ \E p \in People : Expire(p)
  <2>1. UNCHANGED <<rows, page>> /\ \A q \in People : jwt'[q] = jwt[q] \/ jwt'[q] = NoUser
    BY <1>2, <1>6 DEF Reboot, Expire
  <2> QED
    BY <1>1, <2>1 DEF AppIsActive
<1>7. ASSUME NEW r \in adminReqs, ApproveUser(r) PROVE AppIsActive'
  <2>1. UNCHANGED <<jwt, page>>
    BY <1>7 DEF ApproveUser
  <2>2. \A q \in People : rows'[q].id = rows[q].id /\ (rows[q].status = "active" => rows'[q].status = "active")
    <3> SUFFICES ASSUME NEW q \in People
                 PROVE  rows'[q].id = rows[q].id /\ (rows[q].status = "active" => rows'[q].status = "active")
      OBVIOUS
    <3>1. rows'[q] = rows[q] \/ (rows[q].status = "pending" /\ rows'[q] = [rows[q] EXCEPT !.status = "active"])
      BY <1>7 DEF ApproveUser
    <3>2. CASE rows'[q] = rows[q]
      BY <3>2
    <3>3. CASE rows[q].status = "pending" /\ rows'[q] = [rows[q] EXCEPT !.status = "active"]
      <4>1. rows[q] \in [id: 1..MaxIds, role: {"admin", "member"}, status: {"active", "pending"}]
        <5>1. rows[q] \in Claims /\ rows[q] # NoUser
          BY <1>2, <3>3, ClaimFacts
        <5> QED
          BY <5>1 DEF Claims
      <4> QED
        BY <3>3, <4>1
    <3> QED
      BY <3>1, <3>2, <3>3
  <2> QED
    BY <1>1, <2>1, <2>2 DEF AppIsActive
<1>8. ASSUME NEW r \in adminReqs, DeleteUser(r) PROVE AppIsActive'
  <2>1. UNCHANGED <<jwt, page>> /\ \A q \in People : rows'[q] = rows[q] \/ rows'[q] = NoUser
    BY <1>8 DEF DeleteUser
  <2>2. \A p \in People : jwt[p] = NoUser \/ jwt[p].id # 0
    BY <1>2, ClaimFacts
  <2> QED
    BY <1>1, <2>1, <2>2, ClaimFacts DEF AppIsActive
<1> QED
  BY <1>3, <1>4, <1>5, <1>6, <1>7, <1>8 DEF AccountsNext, accountsVars, Redirect, Request, OpenWs,
     Callback, AdminAsks, Blip, Heal

LEMMA AccountsStep == ASSUME AccountsInv, [AccountsNext]_accountsVars PROVE AccountsInv'
<1> QED
  BY IInvStep, FlowsStep, UsedStep, OtherTypesStep, TokensStep, AppStep DEF AccountsInv

LEMMA AccountsInvInit == AccountsInit => AccountsInv
<1> SUFFICES ASSUME AccountsInit PROVE AccountsInv
  OBVIOUS
<1>1. IInv /\ FlowsAreLogins
  BY IInvInit DEF AccountsInit, FlowsAreLogins
<1>2. UsedIsBounded
  <2>1. used = [b \in DOMAIN Bound |-> 0]
    BY DEF AccountsInit
  <2>2. \A b \in DOMAIN Bound : 0 <= Bound[b]
    BY BoundFacts
  <2> QED
    BY <2>1, <2>2 DEF UsedIsBounded
<1>3. OtherTypes
  BY BoundFacts DEF AccountsInit, OtherTypes
<1>4. TokensAreOld /\ AppIsActive
  <2>1. lastId = 0 /\ \A p \in People : jwt[p] = NoUser
    BY DEF AccountsInit
  <2>2. NoUser.id <= 0
    BY ClaimFacts
  <2> QED
    BY <2>1, <2>2 DEF TokensAreOld, AppIsActive
<1> QED
  BY <1>1, <1>2, <1>3, <1>4 DEF AccountsInv

LEMMA AccountsTyped == AccountsInv => AccountsTypeOK
<1> SUFFICES ASSUME AccountsInv PROVE AccountsTypeOK
  OBVIOUS
<1>1. IInv /\ OtherTypes /\ UsedIsBounded
  BY DEF AccountsInv
<1>2. served \subseteq 1..MaxIds
  BY <1>1 DEF IInv, ServedWasApproved, OtherTypes
<1>3. \A b \in DOMAIN Bound : used[b] \in 0..Bound[b]
  BY <1>1, BoundFacts DEF UsedIsBounded
<1> QED
  BY <1>1, <1>2, <1>3 DEF AccountsTypeOK, IInv, Typed, OtherTypes

\* Where the page got in its sockets do.
LEMMA SocketsFollow ==
  ASSUME AccountsInv, [AccountsNext]_accountsVars, NEW p \in People,
         page[p] = "app", ws'[p] = "refused", ws[p] # "refused"
  PROVE  ~dbOk \/ jwt[p] = NoUser \/ jwt[p].id \notin RowIds
<1>1. IInv /\ AppIsActive /\ OtherTypes
  BY DEF AccountsInv
<1>2. ws \in [People -> {"none", "open", "refused"}] /\ jwt \in [People -> Claims] /\ rows \in [People -> Claims]
  BY <1>1 DEF OtherTypes, IInv, Typed
<1>3. ASSUME NEW q \in People, OpenWs(q)
      PROVE  ~dbOk \/ jwt[p] = NoUser \/ jwt[p].id \notin RowIds
  <2>1. q = p /\ ~WsAdmits(jwt[p])
    BY <1>2, <1>3 DEF OpenWs
  <2> SUFFICES ASSUME dbOk, jwt[p] # NoUser, jwt[p].id \in RowIds PROVE FALSE
    OBVIOUS
  <2>2. jwt[p].status # "active"
    BY <2>1 DEF WsAdmits
  <2>3. jwt[p].status = "pending"
    BY <1>2, <2>2 DEF Claims
  <2>4. Recheck(jwt[p]).status # "active" /\ Recheck(jwt[p]) = RowOf(jwt[p].id)
    BY <2>1, <2>3 DEF WsAdmits, Recheck
  <2>5. PICK o \in People : rows[o].id = jwt[p].id
    BY DEF RowIds
  <2>6. PICK z \in People : rows[z].id = jwt[p].id /\ RowOf(jwt[p].id) = rows[z]
    BY <2>5 DEF RowOf
  <2>7. rows[z].status = "active"
    BY <1>1, <2>2, <2>6 DEF AppIsActive
  <2> QED
    BY <2>4, <2>6, <2>7
<1>4. CASE ws' = ws
  BY <1>4
<1>5. CASE Reboot \/ \E q \in People : Reload(q)
  BY <1>2, <1>5 DEF Reboot, Reload
<1> QED
  BY <1>3, <1>4, <1>5 DEF AccountsNext, accountsVars, Redirect, Load, Poll, Request, Expire,
     Callback, Login, AdminAsks, ApproveUser, DeleteUser, Blip, Heal

\* As soon as there are users exactly one is the administrator, and whoever was served has
\* been active: whatever logins, approvals, deletions, restarts and failures of the database
\* come between.
THEOREM AccessIsGrantedHolds == Spec => []AccessIsGranted
<1>1. Init => AccountsInv
  BY AccountsInvInit DEF Init
<1>2. AccountsInv /\ [Next]_vars => AccountsInv'
  BY EachStays, AccountsStep
<1>3. AccountsInv => AccessIsGranted
  BY IInvGives DEF AccountsInv
<1> QED
  BY <1>1, <1>2, <1>3, PTL DEF Spec

\* ApprovalReaches, the part that is no liveness: a page that got in is refused no
\* socket, unless the database cannot be read or its row or its token is gone.
THEOREM WsFollowsPageHolds == Spec => WsFollowsPage
<1>1. Init => AccountsInv
  BY AccountsInvInit DEF Init
<1>2. AccountsInv /\ [Next]_vars => AccountsInv'
  BY EachStays, AccountsStep
<1>3. AccountsInv /\ [Next]_vars =>
        [\A p \in People :
            (page[p] = "app" /\ ws'[p] = "refused" /\ ws[p] # "refused")
                => (~dbOk \/ jwt[p] = NoUser \/ jwt[p].id \notin RowIds)]_accountsVars
  BY EachStays, SocketsFollow
<1> QED
  BY <1>1, <1>2, <1>3, PTL DEF Spec, WsFollowsPage

\* What the program keeps about its work adds up: the costs of the turns to what was
\* spent, the ring of the log to its newest entries, the table of events to its
\* retention; and every variable of the eight components has its type.
THEOREM RecordsStandHolds == Spec => RecordsStand
<1>1. Init => AccountsInv
  BY AccountsInvInit DEF Init
<1>2. AccountsInv /\ [Next]_vars => AccountsInv'
  BY EachStays, AccountsStep
<1>3. Spec => []AccountsTypeOK
  BY <1>1, <1>2, AccountsTyped, PTL DEF Spec
<1>4. Spec => [](area \in Areas)
  <2>1. Init => area \in Areas
    BY DEF Init
  <2>2. area \in Areas /\ [Next]_vars => (area \in Areas)'
    BY EachStays
  <2> QED
    BY <2>1, <2>2, PTL DEF Spec
<1>5. AccountsTypeOK /\ PushTypeOK /\ NamesTypeOK /\ FilesTypeOK /\ SeedsTypeOK
      /\ MetricsTypeOK /\ LogTypeOK /\ EventsTypeOK /\ area \in Areas => TypeOK
  BY DEF TypeOK
<1> QED
  BY <1>3, <1>4, <1>5, SubscriptionsStandHolds, TitleYieldsHolds, UploadsStandHolds, SeedsStandHolds,
     MetricsStandHolds, LogStandsHolds, EventsStandHolds, PTL DEF RecordsStand
===============================================================================

-------------------------- MODULE EnterpriseProofs --------------------------
(***************************************************************************)
(* For any number of requests at once, tenants, keys and failed commands:  *)
(* no chain of keys gains a permission or leaves its tenant, a key that a  *)
(* client was told is revoked cannot act, a key that a client holds is one *)
(* its tenant can list, every answered change has its audit event, and the *)
(* log keeps the newest of them.                                           *)
(***************************************************************************)
EXTENDS Enterprise, TLAPS, FiniteSetTheorems

Records == [tenant : Tenants, role : Roles, revoked : BOOLEAN, by : Keys \cup {None}]
Routes == {"create", "revoke", "list", "audit", "usage", "organizations"}
Asks == [op : Routes \cup {"bootstrap", "none"}, caller : Keys \cup {None}, target : Keys \cup {None},
         tenant : Tenants \cup {None}, role : Roles, late : BOOLEAN]

Typed ==
    /\ record \in [Keys -> Records \cup {None}]
    /\ pc \in [Requests -> Busy \cup Answers]
    /\ req \in [Requests -> Asks]
    /\ known \subseteq Keys /\ gone \subseteq Keys /\ listed \subseteq Keys

Saved(k) == record[k] # None
Making(r) == pc[r] \in Busy /\ req[r].op \in {"bootstrap", "create"}
Covers(owner, role) == ROLE_PERMISSIONS[role] \subseteq ROLE_PERMISSIONS[owner]

\* The request to make an organization's first key has no caller; the tenant
\* of any other one is its caller's.
CallerOK(r) ==
    IF req[r].op = "bootstrap"
      THEN /\ req[r].caller = None
           /\ pc[r] \in {"orgs", "tenant", "save", "index", "reply"}
           /\ pc[r] \in {"save", "index", "reply"} => req[r].tenant \in tenants
      ELSE /\ pc[r] \in {"auth", "save", "index", "find", "mark", "push", "trim", "reply"}
           /\ req[r].caller \in Keys /\ Saved(req[r].caller)
           /\ record[req[r].caller].tenant = req[r].tenant
           /\ req[r].tenant \in tenants

\* How far a key is made: it has a record from "index" on, and is listed from
\* "push" on.
MakingOK(r) ==
    req[r].op \in {"bootstrap", "create"} =>
        /\ pc[r] \notin {"find", "mark"}
        /\ req[r].op = "create" /\ pc[r] # "auth" => Covers(record[req[r].caller].role, req[r].role)
        /\ pc[r] \in {"orgs", "tenant", "auth", "save"} => ~Saved(req[r].target)
        /\ pc[r] \in {"index", "push", "trim", "reply"} =>
             Saved(req[r].target) /\ record[req[r].target].tenant = req[r].tenant
        /\ pc[r] \in {"push", "trim", "reply"} => req[r].target \in listed

\* How far a key is revoked.
RevokingOK(r) ==
    req[r].op \notin {"bootstrap", "create"} =>
        /\ pc[r] \notin {"save", "index"}
        /\ pc[r] # "auth" => req[r].op = "revoke"
        /\ pc[r] \in {"mark", "push", "trim", "reply"} => Saved(req[r].target)
        /\ pc[r] \in {"push", "trim", "reply"} => record[req[r].target].revoked

RequestOK(r) ==
    pc[r] \in Busy =>
        /\ req[r].target \in Keys /\ req[r].tenant \in Tenants
        /\ CallerOK(r) /\ MakingOK(r) /\ RevokingOK(r)

\* No two requests make the same key.
Distinct ==
    \A r, q \in Requests : r # q /\ Making(r) /\ Making(q) => req[r].target # req[q].target

KeysOK ==
    /\ \A k \in Keys : Saved(k) /\ record[k].by # None => Saved(record[k].by)
    /\ NoEscalation
    /\ \A k \in gone : Saved(k) /\ record[k].revoked
    /\ \A k \in known : Saved(k)
    /\ KnownKeysListed

LateOK ==
    /\ RevokedCannotAct
    /\ \A r \in Requests : req[r].late /\ pc[r] = "auth" => req[r].caller \in gone

Inv == Typed /\ (\A r \in Requests : RequestOK(r)) /\ Distinct /\ KeysOK /\ LateOK

\* Records are only added and revoked.
Grows ==
    \A k \in Keys : Saved(k) =>
        /\ record'[k] # None /\ record'[k].tenant = record[k].tenant
        /\ record'[k].role = record[k].role /\ record'[k].by = record[k].by
        /\ record[k].revoked => record'[k].revoked

-----------------------------------------------------------------------------
\* What a step of request r leaves of the others.
LEMMA OthersOK ==
    ASSUME Inv, Typed', NEW r \in Requests, Grows, tenants \subseteq tenants', listed \subseteq listed',
           \A q \in Requests \ {r} : pc'[q] = pc[q] /\ req'[q] = req[q],
           \A k \in Keys : ~Saved(k) /\ record'[k] # None => Making(r) /\ k = req[r].target
    PROVE  \A q \in Requests \ {r} : RequestOK(q)'
  <1> SUFFICES ASSUME NEW q \in Requests \ {r}, pc[q] \in Busy
               PROVE  /\ req[q].target \in Keys /\ req[q].tenant \in Tenants
                      /\ CallerOK(q)' /\ MakingOK(q)' /\ RevokingOK(q)'
    BY DEF RequestOK
  <1>1. /\ pc'[q] = pc[q] /\ req'[q] = req[q] /\ q # r
        /\ req[q].target \in Keys /\ req[q].tenant \in Tenants
        /\ CallerOK(q) /\ MakingOK(q) /\ RevokingOK(q)
    BY DEF Inv, RequestOK
  <1>2. CallerOK(q)'
    BY <1>1 DEF CallerOK, Saved, Grows
  <1>3. MakingOK(q)'
    <2>1. Making(q) => (~Saved(req[q].target) => ~(record'[req[q].target] # None))
      BY <1>1 DEF Inv, Distinct
    <2>2. req[q].op = "create" => Saved(req[q].caller) /\ req[q].caller \in Keys
      BY <1>1 DEF CallerOK
    <2> QED BY <1>1, <2>1, <2>2 DEF MakingOK, Making, Saved, Grows
  <1>4. RevokingOK(q)'
    BY <1>1 DEF RevokingOK, Saved, Grows
  <1> QED BY <1>1, <1>2, <1>3, <1>4

\* A step of a request under way that changes no record.
LEMMA QuietStep ==
    ASSUME Inv, Typed', NEW r \in Requests, UNCHANGED record, tenants \subseteq tenants',
           listed \subseteq listed',
           \A q \in Requests \ {r} : pc'[q] = pc[q] /\ req'[q] = req[q],
           RequestOK(r)', Making(r)' => Making(r) /\ req'[r].target = req[r].target
    PROVE  (\A q \in Requests : RequestOK(q)') /\ Distinct'
  <1>1. Grows
    BY DEF Inv, Typed, Grows, Saved
  <1>2. \A q \in Requests \ {r} : RequestOK(q)'
    BY <1>1, OthersOK DEF Saved
  <1>3. Distinct'
    BY DEF Inv, Distinct, Making
  <1> QED BY <1>2, <1>3

-----------------------------------------------------------------------------
(* The steps, one lemma for each kind.                                      *)

\* A request begins: with a key that is still to be made, or with one a
\* client holds.
LEMMA BootstrapStep ==
    ASSUME ConstantsOK, Inv, NEW r \in Requests, NEW t \in Tenants, Bootstrap(r, t)
    PROVE  Inv'
  <1> DEFINE q == Ask("bootstrap", None, NewKey, t, "owner")
  <1>1. NewKey \in Fresh
    BY DEF Bootstrap, NewKey
  <1>2. /\ pc[r] \in Answers /\ pc' = [pc EXCEPT ![r] = "orgs"] /\ req' = [req EXCEPT ![r] = q]
        /\ UNCHANGED Store
    BY DEF Bootstrap, Start, GoTo
  <1>3. NewKey \in Keys /\ ~Saved(NewKey)
        /\ \A p \in Requests : Making(p) => req[p].target # NewKey
    BY <1>1 DEF Fresh, Saved, Making
  <1>4. None \notin gone
    BY DEF ConstantsOK, Inv, Typed
  <1>5. q \in Asks /\ q.op = "bootstrap" /\ q.caller = None /\ q.target = NewKey /\ q.tenant = t
        /\ q.late = (None \in gone)
    BY <1>3 DEF Ask, Asks, Roles
  <1> HIDE DEF q
  <1>6. Typed'
    BY <1>2, <1>5 DEF Inv, Typed, Store, Busy
  <1>7. RequestOK(r)'
    BY <1>2, <1>3, <1>5 DEF Inv, Typed, RequestOK, CallerOK, MakingOK, RevokingOK, Saved, Store
  <1>8. \A p \in Requests \ {r} : RequestOK(p)'
    BY <1>2, <1>6, OthersOK DEF Inv, Typed, Grows, Saved, Store
  <1>9. Distinct'
    BY <1>2, <1>3, <1>5 DEF Inv, Typed, Distinct, Making
  <1>10. KeysOK'
    BY <1>2 DEF Inv, KeysOK, NoEscalation, KnownKeysListed, Saved, Store
  <1>11. LateOK'
    BY <1>2, <1>4, <1>5 DEF Inv, Typed, LateOK, RevokedCannotAct, Store
  <1> QED BY <1>6, <1>7, <1>8, <1>9, <1>10, <1>11 DEF Inv

\* A request begins with a key that a client holds, hence one with a record.
LEMMA CallStep ==
    ASSUME ConstantsOK, Inv, NEW r \in Requests, NEW op \in Calls, NEW c \in known, NEW k \in Keys,
           NEW role \in Roles, Call(r, op, c, k, role)
    PROVE  Inv'
  <1> DEFINE q == Ask(op, c, k, record[c].tenant, role)
  <1>1. /\ pc[r] \in Answers /\ pc' = [pc EXCEPT ![r] = "auth"] /\ req' = [req EXCEPT ![r] = q]
        /\ UNCHANGED Store
    BY DEF Call, Start, GoTo
  <1>2. op \in Routes
    BY DEF ConstantsOK, Routes
  <1>3. op = "create" =>
          ~Saved(k) /\ \A p \in Requests : Making(p) => req[p].target # k
    <2> SUFFICES ASSUME op = "create" PROVE k \in Fresh
      BY DEF Fresh, Saved, Making
    <2> QED BY DEF Call, NewKey
  <1>4. c \in Keys /\ Saved(c) /\ record[c] \in Records /\ record[c].tenant \in tenants
        /\ record[c].tenant \in Tenants
    BY DEF Inv, Typed, KeysOK, KnownKeysListed, Saved, Records
  <1>5. q \in Asks /\ q.op = op /\ q.caller = c /\ q.target = k /\ q.tenant = record[c].tenant
        /\ q.late = (c \in gone)
    BY <1>2, <1>4 DEF Ask, Asks, Roles
  <1> HIDE DEF q
  <1>6. Typed'
    BY <1>1, <1>5 DEF Inv, Typed, Store, Busy
  <1>7. RequestOK(r)'
    BY <1>1, <1>2, <1>3, <1>4, <1>5
       DEF Inv, Typed, Routes, RequestOK, CallerOK, MakingOK, RevokingOK, Saved, Store
  <1>8. \A p \in Requests \ {r} : RequestOK(p)'
    BY <1>1, <1>6, OthersOK DEF Inv, Typed, Grows, Saved, Store
  <1>9. Distinct'
    BY <1>1, <1>2, <1>3, <1>5 DEF Inv, Typed, Distinct, Making, Routes
  <1>10. KeysOK'
    BY <1>1 DEF Inv, KeysOK, NoEscalation, KnownKeysListed, Saved, Store
  <1>11. LateOK'
    BY <1>1, <1>5 DEF Inv, Typed, LateOK, RevokedCannotAct, Store
  <1> QED BY <1>6, <1>7, <1>8, <1>9, <1>10, <1>11 DEF Inv

\* An answer frees the request.
LEMMA AnswerFacts ==
    ASSUME Inv, NEW r \in Requests, NEW l \in Answers, Answer(r, l)
    PROVE  /\ pc' = [pc EXCEPT ![r] = l] /\ l \notin Busy
           /\ req' \in [Requests -> Asks] /\ req'[r].late = req[r].late
           /\ \A q \in Requests \ {r} : req'[q] = req[q]
  <1>1. req[r].late \in BOOLEAN
    BY DEF Inv, Typed, Asks
  <1>2. [Idle EXCEPT !.late = req[r].late] \in Asks
        /\ [Idle EXCEPT !.late = req[r].late].late = req[r].late
    BY <1>1 DEF Idle, Asks, Roles
  <1> QED BY <1>2 DEF Inv, Typed, Answer, GoTo, Answers, Busy

\* A refusal or an error: "ok" is no answer to a request whose key is gone.
LEMMA RefuseStep ==
    ASSUME Inv, NEW r \in Requests, NEW l \in Answers, pc[r] \in Busy, Answer(r, l), UNCHANGED Store,
           req[r].late => l \in {"unauthenticated", "error"}
    PROVE  Inv'
  <1>1. /\ pc' = [pc EXCEPT ![r] = l] /\ l \notin Busy
        /\ req' \in [Requests -> Asks] /\ req'[r].late = req[r].late
        /\ \A q \in Requests \ {r} : req'[q] = req[q]
    BY AnswerFacts
  <1>2. Typed'
    BY <1>1 DEF Inv, Typed, Store
  <1>3. (\A q \in Requests : RequestOK(q)') /\ Distinct'
    BY <1>1, <1>2, QuietStep DEF Inv, Typed, Store, RequestOK, Making
  <1>4. KeysOK'
    BY DEF Inv, KeysOK, NoEscalation, KnownKeysListed, Saved, Store
  <1>5. LateOK'
    BY <1>1, l # "auth" DEF Inv, Typed, LateOK, RevokedCannotAct, Store, Answers
  <1> QED BY <1>2, <1>3, <1>4, <1>5 DEF Inv

\* A request goes on to its next command.
LEMMA GoOnStep ==
    ASSUME Inv, NEW r \in Requests, NEW l \in Busy, pc[r] \in Busy, GoTo(r, l),
           UNCHANGED <<record, known, gone, req>>, tenants \subseteq tenants',
           listed \subseteq listed', listed' \subseteq Keys, RequestOK(r)', l # "auth", ~req[r].late
    PROVE  Inv'
  <1>1. pc' = [pc EXCEPT ![r] = l]
    BY DEF GoTo
  <1>2. Typed'
    BY <1>1 DEF Inv, Typed
  <1>3. (\A q \in Requests : RequestOK(q)') /\ Distinct'
    BY <1>1, <1>2, QuietStep DEF Inv, Typed, Making
  <1>4. KeysOK'
    BY DEF Inv, KeysOK, NoEscalation, KnownKeysListed, Saved
  <1>5. LateOK'
    BY <1>1 DEF Inv, Typed, LateOK, RevokedCannotAct
  <1> QED BY <1>2, <1>3, <1>4, <1>5 DEF Inv

\* Past authentication no request is late.
LEMMA NotLate ==
    ASSUME Inv, NEW r \in Requests, pc[r] \in Busy, pc[r] # "auth"
    PROVE  ~req[r].late
  BY DEF Inv, LateOK, RevokedCannotAct, Busy

\* authenticate refuses a key that is gone.
LEMMA AuthenticateStep ==
    ASSUME Inv, NEW r \in Requests, Authenticate(r)
    PROVE  Inv'
  <1>1. pc[r] = "auth" /\ pc[r] \in Busy /\ UNCHANGED Store
    BY DEF Authenticate, At, Busy
  <1>2. /\ req[r].caller \in Keys /\ Saved(req[r].caller)
        /\ req[r].late => record[req[r].caller].revoked
    BY <1>1 DEF Inv, RequestOK, CallerOK, LateOK, KeysOK
  <1>3. CASE record[req[r].caller].revoked
    BY <1>1, <1>2, <1>3, RefuseStep DEF Authenticate, Answers
  <1>4. CASE ~record[req[r].caller].revoked /\ ~Allowed(req[r], record[req[r].caller])
    BY <1>1, <1>2, <1>4, RefuseStep DEF Authenticate, Answers, Saved
  <1>5. CASE /\ ~record[req[r].caller].revoked /\ Allowed(req[r], record[req[r].caller])
             /\ req[r].op \notin Audited
    BY <1>1, <1>2, <1>5, RefuseStep DEF Authenticate, Answers, Saved
  <1>6. CASE /\ ~record[req[r].caller].revoked /\ Allowed(req[r], record[req[r].caller])
             /\ req[r].op \in Audited
    <2> DEFINE l == IF req[r].op = "create" THEN "save" ELSE "find"
    <2>1. GoTo(r, l) /\ UNCHANGED req /\ l \in Busy /\ l # "auth"
      BY <1>1, <1>2, <1>6 DEF Authenticate, Saved, Busy
    <2>2. req[r].op = "create" => Covers(record[req[r].caller].role, req[r].role)
      BY <1>6 DEF Allowed, Covers
    <2>3. RequestOK(r)'
      BY <1>1, <1>2, <1>6, <2>1, <2>2
         DEF Inv, Typed, GoTo, RequestOK, CallerOK, MakingOK, RevokingOK, Saved, Store, Audited
    <2> HIDE DEF l
    <2> QED BY <1>1, <1>2, <1>6, <2>1, <2>3, GoOnStep DEF Store, Inv, Typed
  <1> QED BY <1>3, <1>4, <1>5, <1>6

\* The commands that only make or find something, or write the log.
LEMMA CommandStep ==
    ASSUME Inv, NEW r \in Requests,
           AddOrganization(r) \/ SaveTenant(r) \/ IndexKey(r) \/ PushEvent(r) \/ TrimLog(r)
    PROVE  Inv'
  <1> USE DEF At, Busy
  <1>1. RequestOK(r)
    BY DEF Inv
  <1>2. CASE AddOrganization(r)
    <2>1. RequestOK(r)'
      BY <1>1, <1>2 DEF Inv, Typed, AddOrganization, GoTo, RequestOK, CallerOK, MakingOK, RevokingOK, Saved
    <2> QED BY <1>2, <2>1, NotLate, GoOnStep DEF AddOrganization, Inv, Typed
  <1>3. CASE SaveTenant(r)
    <2>1. RequestOK(r)'
      BY <1>1, <1>3 DEF Inv, Typed, SaveTenant, GoTo, RequestOK, CallerOK, MakingOK, RevokingOK, Saved
    <2> QED BY <1>3, <2>1, NotLate, GoOnStep DEF SaveTenant, Inv, Typed
  <1>4. CASE IndexKey(r)
    <2>1. pc[r] = "index" /\ req[r].op \in {"bootstrap", "create"} /\ req[r].target \in Keys
      BY <1>1, <1>4 DEF IndexKey, RequestOK, MakingOK, RevokingOK
    <2>2. RequestOK(r)'
      BY <1>1, <1>4, <2>1
         DEF Inv, Typed, IndexKey, GoTo, RequestOK, CallerOK, MakingOK, RevokingOK, Saved
    <2> DEFINE l == IF req[r].op = "create" THEN "push" ELSE "reply"
    <2>3. GoTo(r, l) /\ l \in Busy /\ l # "auth"
      BY <1>4 DEF IndexKey
    <2> HIDE DEF l
    <2> QED BY <1>4, <2>1, <2>2, <2>3, NotLate, GoOnStep DEF IndexKey, Inv, Typed
  <1>5. CASE PushEvent(r)
    <2>1. RequestOK(r)'
      BY <1>1, <1>5 DEF Inv, Typed, PushEvent, GoTo, RequestOK, CallerOK, MakingOK, RevokingOK, Saved
    <2> QED BY <1>5, <2>1, NotLate, GoOnStep DEF PushEvent, Inv, Typed
  <1>6. CASE TrimLog(r)
    <2>1. RequestOK(r)'
      BY <1>1, <1>6 DEF Inv, Typed, TrimLog, GoTo, RequestOK, CallerOK, MakingOK, RevokingOK, Saved
    <2> QED BY <1>6, <2>1, NotLate, GoOnStep DEF TrimLog, Inv, Typed
  <1> QED BY <1>2, <1>3, <1>4, <1>5, <1>6

\* Only a key of the caller's tenant is found.
LEMMA FindKeyStep ==
    ASSUME Inv, NEW r \in Requests, FindKey(r)
    PROVE  Inv'
  <1>1. pc[r] = "find" /\ pc[r] \in Busy /\ UNCHANGED Store /\ ~req[r].late
    BY NotLate DEF FindKey, At, Busy
  <1>2. CASE Answer(r, "missing")
    BY <1>1, <1>2, RefuseStep DEF Answers
  <1>3. CASE GoTo(r, "mark") /\ UNCHANGED req /\ Saved(req[r].target)
    <2>1. RequestOK(r)'
      BY <1>1, <1>3
         DEF Inv, Typed, Store, Busy, GoTo, RequestOK, CallerOK, MakingOK, RevokingOK, Saved
    <2> QED BY <1>1, <1>3, <2>1, GoOnStep DEF Store, Inv, Typed, Busy
  <1> QED BY <1>2, <1>3 DEF FindKey, Saved

\* A Redis error ends the request wherever it is.
LEMMA FailStep ==
    ASSUME Inv, NEW r \in Requests, CommandFails(r)
    PROVE  Inv'
  BY RefuseStep DEF CommandFails, Answers

\* The new key has no record yet, so that no other key was made with it, and
\* its maker covers its role.
LEMMA SaveKeyStep ==
    ASSUME ConstantsOK, Inv, NEW r \in Requests, SaveKey(r)
    PROVE  Inv'
  <1> DEFINE new == Key(req[r].tenant, req[r].role, req[r].caller)
             k == req[r].target
  <1>1. /\ pc[r] = "save" /\ pc[r] \in Busy /\ ~req[r].late
        /\ record' = [record EXCEPT ![k] = new] /\ pc' = [pc EXCEPT ![r] = "index"]
        /\ UNCHANGED <<tenants, listed, known, gone, req>>
    BY NotLate DEF SaveKey, At, GoTo, Busy
  <1>2. RequestOK(r) /\ req[r] \in Asks
    BY DEF Inv, Typed
  <1>3. /\ k \in Keys /\ ~Saved(k) /\ req[r].tenant \in Tenants /\ Making(r)
        /\ req[r].caller \in Keys \cup {None} /\ req[r].role \in Roles
    BY <1>1, <1>2 DEF RequestOK, MakingOK, RevokingOK, Making, Asks
  <1>4. /\ new \in Records /\ new # None /\ new.tenant = req[r].tenant /\ new.role = req[r].role
        /\ new.by = req[r].caller
    <2>1. None \notin Records
      BY DEF ConstantsOK, Records, Roles
    <2>2. new \in Records
      BY <1>3 DEF Key, Records
    <2> QED BY <2>1, <2>2 DEF Key
  <1>5. req[r].caller # None =>
          /\ Saved(req[r].caller) /\ req[r].caller # k
          /\ record[req[r].caller].tenant = req[r].tenant
          /\ Covers(record[req[r].caller].role, req[r].role)
    BY <1>1, <1>2, <1>3 DEF RequestOK, CallerOK, MakingOK, Making, Saved
  <1> HIDE DEF new, k
  <1>6. Typed'
    BY <1>1, <1>3, <1>4 DEF Inv, Typed, Busy
  <1>7. /\ Grows
        /\ \A x \in Keys : ~Saved(x) /\ record'[x] # None => x = k
    BY <1>1, <1>3 DEF Inv, Typed, Grows, Saved
  <1>8. RequestOK(r)'
    <2>1. req[r].target = k
      BY DEF k
    <2> QED BY <1>1, <1>2, <1>3, <1>4, <1>5, <2>1
            DEF Inv, Typed, RequestOK, CallerOK, MakingOK, RevokingOK, Saved, Making
  <1>9. \A q \in Requests \ {r} : RequestOK(q)'
    BY <1>1, <1>3, <1>6, <1>7, OthersOK DEF Inv, Typed, k
  <1>10. Distinct'
    BY <1>1, <1>3 DEF Inv, Typed, Distinct, Making
  <1>11. KeysOK'
    <2>1. /\ \A x \in Keys : x # k => record'[x] = record[x]
          /\ record'[k] = new
      BY <1>1, <1>3 DEF Inv, Typed
    <2>2. \A x \in Keys : Saved(x) /\ record[x].by # None =>
            /\ Saved(record[x].by) /\ record[x].by # k /\ record[x].by \in Keys
      BY <1>3 DEF Inv, Typed, Records, KeysOK, Saved
    <2>3. req[r].caller # None => record'[req[r].caller] = record[req[r].caller]
      BY <1>3, <1>5, <2>1
    <2>4. (\A x \in Keys : Saved(x) /\ record[x].by # None => Saved(record[x].by))'
      BY <1>3, <1>4, <1>5, <2>1, <2>2, <2>3 DEF Saved
    <2>5. NoEscalation'
      <3>1. \A x \in Keys \ {k} : record'[x] # None /\ record'[x].by # None =>
              /\ record'[record'[x].by].tenant = record'[x].tenant
              /\ ROLE_PERMISSIONS[record'[x].role] \subseteq
                   ROLE_PERMISSIONS[record'[record'[x].by].role]
        BY <2>1, <2>2 DEF Inv, KeysOK, NoEscalation, Saved
      <3>2. new.by # None =>
              /\ record'[new.by].tenant = new.tenant
              /\ ROLE_PERMISSIONS[new.role] \subseteq ROLE_PERMISSIONS[record'[new.by].role]
        BY <1>4, <1>5, <2>3 DEF Covers
      <3> QED BY <2>1, <3>1, <3>2 DEF NoEscalation
    <2>6. /\ (\A x \in gone : Saved(x) /\ record[x].revoked)'
          /\ (\A x \in known : Saved(x))' /\ KnownKeysListed'
      BY <1>1, <1>3, <2>1 DEF Inv, Typed, KeysOK, KnownKeysListed, Saved
    <2> QED BY <2>4, <2>5, <2>6 DEF KeysOK
  <1>12. LateOK'
    BY <1>1 DEF Inv, Typed, LateOK, RevokedCannotAct
  <1> QED BY <1>6, <1>8, <1>9, <1>10, <1>11, <1>12 DEF Inv

\* A record that is marked keeps its tenant, its role and its maker.
LEMMA MarkRevokedStep ==
    ASSUME ConstantsOK, Inv, NEW r \in Requests, MarkRevoked(r)
    PROVE  Inv'
  <1> DEFINE k == req[r].target
  <1>1. /\ pc[r] = "mark" /\ pc[r] \in Busy /\ ~req[r].late
        /\ record' = [record EXCEPT ![k].revoked = TRUE] /\ pc' = [pc EXCEPT ![r] = "push"]
        /\ UNCHANGED <<tenants, listed, known, gone, req>>
    BY NotLate DEF MarkRevoked, At, GoTo, Busy
  <1>2. RequestOK(r)
    BY DEF Inv
  <1>3. k \in Keys /\ Saved(k) /\ req[r].op = "revoke"
    BY <1>1, <1>2 DEF RequestOK, MakingOK, RevokingOK
  <1>4. record[k] \in Records
    BY <1>3 DEF Inv, Typed, Saved
  <1>5. /\ [record[k] EXCEPT !.revoked = TRUE] \in Records
        /\ [record[k] EXCEPT !.revoked = TRUE] # None
    BY <1>4 DEF Records, ConstantsOK, Roles
  <1>6. /\ record'[k].revoked /\ record'[k] # None /\ record'[k].tenant = record[k].tenant
        /\ record'[k].role = record[k].role /\ record'[k].by = record[k].by
        /\ \A x \in Keys : x # k => record'[x] = record[x]
    BY <1>1, <1>3, <1>4, <1>5 DEF Inv, Typed, Records
  <1>7. Typed'
    BY <1>1, <1>3, <1>5 DEF Inv, Typed, Busy
  <1>8. Grows /\ \A x \in Keys : Saved(x) <=> record'[x] # None
    BY <1>3, <1>6 DEF Grows, Saved
  <1>9. RequestOK(r)'
    <2>1. req[r].target = k
      BY DEF k
    <2> HIDE DEF k
    <2>2. req[r].caller \in Keys => record'[req[r].caller].tenant = record[req[r].caller].tenant
      BY <1>6
    <2> QED BY <1>1, <1>2, <1>3, <1>6, <1>8, <2>1, <2>2
            DEF Inv, Typed, RequestOK, CallerOK, MakingOK, RevokingOK, Saved
  <1> HIDE DEF k
  <1>10. \A q \in Requests \ {r} : RequestOK(q)'
    BY <1>1, <1>7, <1>8, OthersOK DEF Inv, Typed
  <1>11. Distinct'
    BY <1>1, <1>3 DEF Inv, Typed, Distinct, Making, k
  <1>12. KeysOK'
    <2>1. \A x \in Keys :
            /\ record'[x] # None <=> record[x] # None
            /\ record[x] # None =>
                 /\ record'[x].tenant = record[x].tenant
                 /\ record'[x].role = record[x].role /\ record'[x].by = record[x].by
                 /\ record[x].revoked => record'[x].revoked
      BY <1>6, <1>8 DEF Saved, Grows
    <2>2. \A x \in Keys : Saved(x) /\ record[x].by # None => record[x].by \in Keys
      BY DEF Inv, Typed, Records, Saved
    <2>3. \A x \in Keys : record[x] # None /\ record[x].by # None =>
            /\ record[x].by \in Keys /\ record[record[x].by] # None
            /\ record[record[x].by].tenant = record[x].tenant
            /\ Covers(record[record[x].by].role, record[x].role)
      BY <2>2 DEF Inv, KeysOK, NoEscalation, Saved, Covers
    <2>4. \A x \in Keys : record'[x] # None /\ record'[x].by # None =>
            /\ record'[record'[x].by] # None
            /\ record'[record'[x].by].tenant = record'[x].tenant
            /\ Covers(record'[record'[x].by].role, record'[x].role)
      <3> SUFFICES ASSUME NEW x \in Keys, record'[x] # None, record'[x].by # None
                   PROVE  /\ record'[record'[x].by] # None
                          /\ record'[record'[x].by].tenant = record'[x].tenant
                          /\ Covers(record'[record'[x].by].role, record'[x].role)
        OBVIOUS
      <3>1. record[x] # None /\ record'[x].by = record[x].by
            /\ record'[x].tenant = record[x].tenant /\ record'[x].role = record[x].role
        BY <2>1
      <3> DEFINE y == record[x].by
      <3>2. y \in Keys /\ record[y] # None /\ record[y].tenant = record[x].tenant
            /\ Covers(record[y].role, record[x].role)
        BY <3>1, <2>3
      <3>3. record'[y] # None /\ record'[y].tenant = record[y].tenant /\ record'[y].role = record[y].role
        BY <3>2, <2>1
      <3> QED BY <3>1, <3>2, <3>3
    <2>5. /\ (\A x \in gone : Saved(x) /\ record[x].revoked)'
          /\ (\A x \in known : Saved(x))' /\ KnownKeysListed'
      BY <1>1, <2>1 DEF Inv, Typed, KeysOK, KnownKeysListed, Saved
    <2> QED BY <2>4, <2>5 DEF KeysOK, NoEscalation, Saved, Covers
  <1>13. LateOK'
    BY <1>1 DEF Inv, Typed, LateOK, RevokedCannotAct
  <1> QED BY <1>7, <1>9, <1>10, <1>11, <1>12, <1>13 DEF Inv

\* A key that is handed out is listed, one that is answered for is revoked.
LEMMA ReplyStep ==
    ASSUME Inv, NEW r \in Requests, Reply(r)
    PROVE  Inv'
  <1>1. /\ pc[r] = "reply" /\ pc[r] \in Busy /\ ~req[r].late /\ Answer(r, "ok")
        /\ UNCHANGED <<record, listed, tenants>>
    BY NotLate DEF Reply, At, Busy
  <1>2. /\ pc' = [pc EXCEPT ![r] = "ok"]
        /\ req' \in [Requests -> Asks] /\ req'[r].late = req[r].late
        /\ \A q \in Requests \ {r} : req'[q] = req[q]
    BY <1>1, AnswerFacts DEF Answers
  <1>3. /\ req[r].target \in Keys
        /\ req[r].op = "revoke" => Saved(req[r].target) /\ record[req[r].target].revoked
        /\ req[r].op # "revoke" => /\ Saved(req[r].target) /\ req[r].target \in listed
                                   /\ record[req[r].target].tenant \in tenants
    BY <1>1 DEF Inv, RequestOK, CallerOK, MakingOK, RevokingOK
  <1>4. Typed'
    BY <1>1, <1>2, <1>3 DEF Inv, Typed, Reply, Answers
  <1>5. (\A q \in Requests : RequestOK(q)') /\ Distinct'
    BY <1>1, <1>2, <1>4, QuietStep DEF Inv, Typed, RequestOK, Making, Busy
  <1>6. KeysOK'
    BY <1>1, <1>3 DEF Inv, KeysOK, NoEscalation, KnownKeysListed, Saved, Reply
  <1>7. LateOK'
    BY <1>1, <1>2 DEF Inv, Typed, LateOK, RevokedCannotAct, Reply
  <1> QED BY <1>4, <1>5, <1>6, <1>7 DEF Inv

-----------------------------------------------------------------------------
\* The inductive invariant of the enterprise layer.
THEOREM EnterpriseInvariant ==
    ASSUME ConstantsOK
    PROVE  Spec => []Inv
  <1>1. Init => Inv
    <2> SUFFICES ASSUME Init PROVE Inv
      OBVIOUS
    <2>1. Idle \in Asks /\ ~Idle.late
      BY DEF Idle, Asks, Roles
    <2>2. Typed
      BY <2>1 DEF Init, Typed, Answers
    <2>3. (\A r \in Requests : RequestOK(r)) /\ Distinct
      BY DEF Init, RequestOK, Distinct, Making, Busy
    <2>4. KeysOK /\ LateOK
      BY <2>1 DEF Init, KeysOK, NoEscalation, KnownKeysListed, Saved, LateOK, RevokedCannotAct
    <2> QED BY <2>2, <2>3, <2>4 DEF Inv
  <1>2. Inv /\ [Next]_vars => Inv'
    <2> SUFFICES ASSUME Inv, [Next]_vars PROVE Inv'
      OBVIOUS
    <2>1. ASSUME NEW r \in Requests, Step(r) PROVE Inv'
      BY <2>1, AuthenticateStep, CommandStep, FindKeyStep, FailStep, SaveKeyStep, MarkRevokedStep,
         ReplyStep DEF Step
    <2>2. ASSUME NEW r \in Requests, NEW t \in Tenants, Bootstrap(r, t) PROVE Inv'
      BY <2>2, BootstrapStep
    <2>3. ASSUME NEW r \in Requests, NEW op \in Calls, NEW c \in known, NEW k \in Keys,
                 NEW role \in Roles, Call(r, op, c, k, role)
          PROVE  Inv'
      BY <2>3, CallStep
    <2>4. CASE UNCHANGED vars
      BY <2>4 DEF vars, Inv, Typed, RequestOK, CallerOK, MakingOK, RevokingOK, Distinct, Making, KeysOK,
                  LateOK, NoEscalation, KnownKeysListed, RevokedCannotAct, Saved
    <2> QED BY <2>1, <2>2, <2>3, <2>4 DEF Next
  <1> QED BY <1>1, <1>2, PTL DEF Spec

\* Organizations and counters, which the invariant has no need of.
Counted ==
    /\ orgs \subseteq Tenants /\ tenants \subseteq Tenants
    /\ actions \in 0..MaxActions /\ faults \in 0..MaxFaults

\* Tenants come from requests, and what is counted is bounded.
LEMMA StaysCounted ==
    ASSUME ConstantsOK, Inv, Counted, [Next]_vars
    PROVE  Counted'
  <1> USE DEF ConstantsOK, Counted, Store
  <1>1. ASSUME NEW r \in Requests, Step(r) PROVE Counted'
    <2>1. pc[r] \in {"orgs", "tenant"} => req[r].tenant \in Tenants
      BY DEF Inv, RequestOK, Busy
    <2>2. CASE AddOrganization(r) \/ SaveTenant(r)
      BY <2>1, <2>2 DEF AddOrganization, SaveTenant, At
    <2>3. CASE Authenticate(r) \/ FindKey(r)
      BY <2>3 DEF Authenticate, FindKey
    <2>4. CASE SaveKey(r) \/ IndexKey(r) \/ MarkRevoked(r) \/ PushEvent(r) \/ TrimLog(r) \/ Reply(r)
      BY <2>4 DEF SaveKey, IndexKey, MarkRevoked, PushEvent, TrimLog, Reply
    <2>5. CASE CommandFails(r)
      BY <2>5 DEF CommandFails
    <2> QED BY <1>1, <2>2, <2>3, <2>4, <2>5 DEF Step
  <1>2. ASSUME NEW r \in Requests, NEW t \in Tenants, Bootstrap(r, t) PROVE Counted'
    BY <1>2 DEF Bootstrap
  <1>3. ASSUME NEW r \in Requests, NEW op \in Calls, NEW c \in known, NEW k \in Keys,
               NEW role \in Roles, Call(r, op, c, k, role)
        PROVE  Counted'
    BY <1>3 DEF Call
  <1>4. CASE UNCHANGED vars
    BY <1>4 DEF vars
  <1> QED BY <1>1, <1>2, <1>3, <1>4 DEF Next

\* Types hold in every reachable state.
THEOREM EnterpriseTyped ==
    ASSUME ConstantsOK
    PROVE  Spec => []TypeOK
  <1>1. Init => Counted
    BY DEF ConstantsOK, Init, Counted
  <1>2. Inv /\ Counted => TypeOK
    <2> SUFFICES ASSUME Inv, Counted PROVE TypeOK
      OBVIOUS
    <2>1. \A k \in Keys : record[k] = None \/ record[k] \in Records
      BY DEF Inv, Typed
    <2>2. \A r \in Requests : pc[r] \in Busy \cup Answers
      BY DEF Inv, Typed
    <2> QED BY <2>1, <2>2 DEF Inv, Typed, Records, Counted, TypeOK
  <1> QED BY <1>1, <1>2, StaysCounted, EnterpriseInvariant, PTL DEF Spec

\* No chain of requests makes a key that can do more than the key it was made
\* with, or one of another tenant (create_api_key, require_permission).
THEOREM KeysNeverEscalate ==
    ASSUME ConstantsOK
    PROVE  Spec => []NoEscalation
  <1>1. Inv => NoEscalation
    BY DEF Inv, KeysOK
  <1> QED BY <1>1, EnterpriseInvariant, PTL

\* A request that begins after its key's revocation was answered is refused.
THEOREM RevocationIsFinal ==
    ASSUME ConstantsOK
    PROVE  Spec => []RevokedCannotAct
  <1>1. Inv => RevokedCannotAct
    BY DEF Inv, LateOK
  <1> QED BY <1>1, EnterpriseInvariant, PTL

\* A key that a client holds can be listed, hence revoked, by its tenant,
\* whichever commands failed while it was made.
THEOREM HeldKeysAreListed ==
    ASSUME ConstantsOK
    PROVE  Spec => []KnownKeysListed
  <1>1. Inv => KnownKeysListed
    BY DEF Inv, KeysOK
  <1> QED BY <1>1, EnterpriseInvariant, PTL

-----------------------------------------------------------------------------
(* The audit log.  A key's revocation is answered, and a key is handed out, *)
(* only after its event was pushed; and the key's record names the tenant   *)
(* whose log the event is in.                                               *)
Events == [action : Routes \cup {"bootstrap", "none"}, resource : Keys \cup {None}, actor : Keys \cup {None}]
Recorded(t, op, k) == \E e \in ToSet(pushed[t]) : e.action = op /\ e.resource = k
Trimming(t) == {r \in Requests : pc[r] = "trim" /\ req[r].tenant = t}

\* What a request has recorded, and whose key it is about.
AuditOK(r) ==
    /\ pc[r] \in {"trim", "reply"} /\ req[r].op \in Audited =>
         Recorded(req[r].tenant, req[r].op, req[r].target)
    /\ pc[r] \in {"mark", "push", "trim", "reply"} /\ req[r].op = "revoke" =>
         record[req[r].target].tenant = req[r].tenant
    /\ pc[r] \in {"index", "push", "trim", "reply"} /\ req[r].op = "bootstrap" =>
         record[req[r].target].by = None

KeysAudited ==
    /\ \A k \in gone : Recorded(record[k].tenant, "revoke", k)
    /\ \A k \in known : record[k].by # None => Recorded(record[k].tenant, "create", k)

LogOK(t) ==
    /\ IsPrefix(log[t], pushed[t])
    /\ Len(log[t]) >= MaxEvents \/ log[t] = pushed[t]
    /\ Len(log[t]) <= MaxEvents + faults + Cardinality(Trimming(t))

AuditInv ==
    /\ pushed \in [Tenants -> Seq(Events)] /\ log \in [Tenants -> Seq(Events)] /\ faults \in Nat
    /\ \A r \in Requests : AuditOK(r)
    /\ KeysAudited
    /\ \A t \in Tenants : LogOK(t)

-----------------------------------------------------------------------------
\* A prefix, element by element.
LEMMA PrefixPoints ==
    ASSUME NEW S, NEW s \in Seq(S), NEW t \in Seq(S)
    PROVE  IsPrefix(s, t) <=> Len(s) <= Len(t) /\ \A i \in 1..Len(s) : s[i] = t[i]
  BY DEF IsPrefix

\* LPUSH on the log and on its history.
LEMMA PushFacts ==
    ASSUME NEW S, NEW s \in Seq(S), NEW t \in Seq(S), NEW e \in S, IsPrefix(s, t)
    PROVE  /\ <<e>> \o s \in Seq(S) /\ Len(<<e>> \o s) = Len(s) + 1
           /\ IsPrefix(<<e>> \o s, <<e>> \o t)
           /\ ToSet(<<e>> \o s) = {e} \cup ToSet(s)
  <1> DEFINE u == <<e>> \o s
             v == <<e>> \o t
  <1>1. /\ u \in Seq(S) /\ v \in Seq(S) /\ Len(u) = Len(s) + 1 /\ Len(v) = Len(t) + 1
        /\ \A i \in 1..Len(s) + 1 : u[i] = IF i = 1 THEN e ELSE s[i - 1]
        /\ \A i \in 1..Len(t) + 1 : v[i] = IF i = 1 THEN e ELSE t[i - 1]
    OBVIOUS
  <1> HIDE DEF u, v
  <1>2. Len(s) <= Len(t) /\ \A i \in 1..Len(s) : s[i] = t[i]
    BY PrefixPoints
  <1>3. IsPrefix(u, v)
    <2>1. ASSUME NEW i \in 1..Len(s) + 1 PROVE u[i] = v[i]
      <3>1. i \in 1..Len(t) + 1 /\ (i # 1 => i - 1 \in 1..Len(s))
        BY <1>2
      <3> QED BY <1>1, <1>2, <3>1
    <2> QED BY <1>1, <1>2, <2>1, PrefixPoints
  <1>4. ToSet(u) = {e} \cup ToSet(s)
    <2>1. DOMAIN s = 1..Len(s) /\ DOMAIN u = 1..Len(s) + 1
      BY <1>1
    <2>2. ASSUME NEW i \in 1..Len(s) + 1 PROVE u[i] \in {e} \cup ToSet(s)
      <3>1. i = 1 \/ i - 1 \in 1..Len(s)
        OBVIOUS
      <3> QED BY <1>1, <2>1, <3>1 DEF ToSet
    <2>3. ASSUME NEW i \in 1..Len(s) PROVE s[i] \in ToSet(u)
      <3>1. i + 1 \in 1..Len(s) + 1 /\ i + 1 # 1 /\ (i + 1) - 1 = i
        OBVIOUS
      <3>2. u[i + 1] = s[i]
        BY <1>1, <3>1
      <3> QED BY <2>1, <3>1, <3>2 DEF ToSet
    <2>4. e \in ToSet(u)
      BY <1>1, <2>1 DEF ToSet
    <2> QED BY <2>1, <2>2, <2>3, <2>4 DEF ToSet
  <1> QED BY <1>1, <1>3, <1>4 DEF u, v

\* LTRIM.
LEMMA TrimFacts ==
    ASSUME NEW S, NEW s \in Seq(S), NEW t \in Seq(S), NEW n \in 0..Len(s), IsPrefix(s, t)
    PROVE  SubSeq(s, 1, n) \in Seq(S) /\ Len(SubSeq(s, 1, n)) = n /\ IsPrefix(SubSeq(s, 1, n), t)
  <1> DEFINE u == SubSeq(s, 1, n)
  <1>1. u \in Seq(S) /\ Len(u) = n /\ \A i \in 1..n : u[i] = s[i]
    OBVIOUS
  <1> HIDE DEF u
  <1>2. Len(s) <= Len(t) /\ \A i \in 1..Len(s) : s[i] = t[i]
    BY PrefixPoints
  <1>3. IsPrefix(u, t)
    BY <1>1, <1>2, PrefixPoints
  <1> QED BY <1>1, <1>3 DEF u

-----------------------------------------------------------------------------
\* Records are only added and revoked.
LEMMA RecordsGrow ==
    ASSUME ConstantsOK, Inv, [Next]_vars
    PROVE  Grows
  <1>1. ASSUME NEW r \in Requests, SaveKey(r) PROVE Grows
    BY <1>1 DEF Inv, Typed, RequestOK, MakingOK, RevokingOK, SaveKey, At, Busy, Grows, Saved
  <1>2. ASSUME NEW r \in Requests, MarkRevoked(r) PROVE Grows
    <2> DEFINE k == req[r].target
               marked == [record[k] EXCEPT !.revoked = TRUE]
    <2>1. k \in Keys /\ record[k] \in Records /\ record' = [record EXCEPT ![k] = marked]
      BY <1>2 DEF Inv, Typed, RequestOK, MakingOK, RevokingOK, MarkRevoked, At, Busy, Saved
    <2>2. /\ marked \in Records /\ marked.revoked /\ marked.tenant = record[k].tenant
          /\ marked.role = record[k].role /\ marked.by = record[k].by
      BY <2>1 DEF Records
    <2>3. marked # None
      BY <2>2 DEF ConstantsOK, Records, Roles
    <2> HIDE DEF k, marked
    <2>4. record'[k] = marked /\ \A x \in Keys : x # k => record'[x] = record[x]
      BY <2>1 DEF Inv, Typed
    <2> QED BY <2>2, <2>3, <2>4 DEF Grows, Saved
  <1>3. CASE UNCHANGED record
    BY <1>3 DEF Grows, Saved
  <1> QED BY ZenonT(60), <1>1, <1>2, <1>3
          DEF Next, vars, Step, Store, AddOrganization, SaveTenant, Authenticate, IndexKey, FindKey,
              PushEvent, TrimLog, Reply, CommandFails, Bootstrap, Call

\* What an event says stays true while the records grow and the logs do.
LEMMA StillRecorded ==
    ASSUME Inv, Grows, NEW k \in Keys, Saved(k), NEW op,
           \A t \in Tenants : ToSet(pushed[t]) \subseteq ToSet(pushed'[t]),
           Recorded(record[k].tenant, op, k)
    PROVE  Recorded(record[k].tenant, op, k)'
  <1>1. record[k].tenant \in Tenants /\ record'[k].tenant = record[k].tenant
    BY DEF Inv, Typed, Records, Saved, Grows
  <1> QED BY <1>1 DEF Recorded

\* The requests that take no step keep their part of it.
LEMMA OthersAudited ==
    ASSUME Inv, AuditInv, Grows, NEW q \in Requests, pc'[q] = pc[q], req'[q] = req[q],
           \A t \in Tenants : ToSet(pushed[t]) \subseteq ToSet(pushed'[t])
    PROVE  AuditOK(q)'
  <1>1. pc[q] \in Busy => req[q].tenant \in Tenants /\ req[q].target \in Keys
    BY DEF Inv, RequestOK
  <1>2. pc[q] \in {"mark", "push", "trim", "reply"} /\ req[q].op = "revoke" => Saved(req[q].target)
    BY DEF Inv, RequestOK, RevokingOK, Busy
  <1>3. pc[q] \in {"index", "push", "trim", "reply"} /\ req[q].op = "bootstrap" => Saved(req[q].target)
    BY DEF Inv, RequestOK, MakingOK, Busy
  <1>4. AuditOK(q)
    BY DEF AuditInv
  <1>5. (pc[q] \in {"trim", "reply"} /\ req[q].op \in Audited =>
           Recorded(req[q].tenant, req[q].op, req[q].target))'
    BY <1>1, <1>4 DEF AuditOK, Recorded, Busy
  <1>6. (pc[q] \in {"mark", "push", "trim", "reply"} /\ req[q].op = "revoke" =>
           record[req[q].target].tenant = req[q].tenant)'
    BY <1>1, <1>2, <1>4 DEF AuditOK, Grows, Busy
  <1>7. (pc[q] \in {"index", "push", "trim", "reply"} /\ req[q].op = "bootstrap" =>
           record[req[q].target].by = None)'
    BY <1>1, <1>3, <1>4 DEF AuditOK, Grows, Busy
  <1> QED BY <1>5, <1>6, <1>7 DEF AuditOK

\* A step that pushes nothing and hands out nothing leaves the keys' events.
LEMMA KeysStayAudited ==
    ASSUME Inv, AuditInv, Grows, UNCHANGED <<known, gone>>,
           \A t \in Tenants : ToSet(pushed[t]) \subseteq ToSet(pushed'[t])
    PROVE  KeysAudited'
  <1>1. \A k \in gone \cup known : k \in Keys /\ Saved(k) /\ record'[k].by = record[k].by
    BY DEF Inv, Typed, KeysOK, Grows
  <1>2. \A k \in gone : Recorded(record[k].tenant, "revoke", k)'
    BY <1>1, StillRecorded DEF AuditInv, KeysAudited
  <1>3. \A k \in known : record[k].by # None => Recorded(record[k].tenant, "create", k)'
    BY <1>1, StillRecorded DEF AuditInv, KeysAudited
  <1> QED BY <1>1, <1>2, <1>3 DEF KeysAudited

\* A step that leaves the logs, and every append under way in its place.
LEMMA LogsStay ==
    ASSUME ConstantsOK, AuditInv, UNCHANGED <<log, pushed>>, NEW f \in {0, 1}, faults' = faults + f,
           NEW r \in Requests, \A q \in Requests \ {r} : pc'[q] = pc[q] /\ req'[q] = req[q],
           pc'[r] # "trim", pc[r] = "trim" => f = 1
    PROVE  \A t \in Tenants : LogOK(t)'
  <1> SUFFICES ASSUME NEW t \in Tenants PROVE LogOK(t)'
    OBVIOUS
  <1>1. IsFiniteSet(Trimming(t))
    BY FS_Subset DEF ConstantsOK, Trimming
  <1>2. Trimming(t)' = Trimming(t) \ {r}
    BY DEF Trimming
  <1>3. /\ Cardinality(Trimming(t) \ {r}) \in Nat /\ Cardinality(Trimming(t)) \in Nat
        /\ Cardinality(Trimming(t)) <= Cardinality(Trimming(t) \ {r}) + f
    <2>1. IsFiniteSet(Trimming(t) \ {r})
          /\ Cardinality(Trimming(t) \ {r}) =
               IF r \in Trimming(t) THEN Cardinality(Trimming(t)) - 1 ELSE Cardinality(Trimming(t))
      BY <1>1, FS_RemoveElement
    <2>2. r \in Trimming(t) => f = 1
      BY DEF Trimming
    <2> QED BY <1>1, <2>1, <2>2, FS_CardinalityType
  <1>4. Len(log[t]) \in Nat /\ faults \in Nat /\ MaxEvents \in Nat
    BY DEF AuditInv, ConstantsOK
  <1> QED BY <1>2, <1>3, <1>4 DEF AuditInv, LogOK

-----------------------------------------------------------------------------
\* The steps that write neither log nor answer: each keeps what its own
\* request has recorded.
LEMMA QuietAudit ==
    ASSUME ConstantsOK, Inv, Inv', AuditInv, Grows, NEW r \in Requests,
           UNCHANGED <<log, pushed, known, gone>>, NEW f \in {0, 1}, faults' = faults + f,
           \A q \in Requests \ {r} : pc'[q] = pc[q] /\ req'[q] = req[q],
           pc'[r] # "trim", pc[r] = "trim" => f = 1, AuditOK(r)'
    PROVE  AuditInv'
  <1>1. \A q \in Requests : AuditOK(q)'
    BY OthersAudited
  <1>2. KeysAudited'
    BY KeysStayAudited
  <1>3. \A t \in Tenants : LogOK(t)'
    BY LogsStay
  <1> QED BY <1>1, <1>2, <1>3 DEF AuditInv

\* Redis commands that neither log nor answer, and refusals.
LEMMA CommandAudit ==
    ASSUME ConstantsOK, Inv, Inv', AuditInv, Grows, NEW r \in Requests,
           \/ AddOrganization(r) \/ SaveTenant(r) \/ Authenticate(r) \/ SaveKey(r)
           \/ IndexKey(r) \/ FindKey(r) \/ MarkRevoked(r) \/ CommandFails(r)
    PROVE  AuditInv'
  <1> USE DEF At, GoTo, Answer
  <1>0. RequestOK(r) /\ AuditOK(r)
    BY DEF Inv, AuditInv
  <1>1. CASE AddOrganization(r)
    <2>1. AuditOK(r)'
      BY <1>1 DEF AddOrganization, AuditOK, Inv, Typed
    <2>2. /\ UNCHANGED <<log, pushed, known, gone, faults>> /\ pc[r] # "trim" /\ pc'[r] # "trim"
          /\ \A q \in Requests \ {r} : pc'[q] = pc[q] /\ req'[q] = req[q]
      BY <1>1 DEF AddOrganization, Inv, Typed
    <2> QED BY <2>1, <2>2, QuietAudit DEF AuditInv
  <1>2. CASE SaveTenant(r)
    <2>1. AuditOK(r)'
      BY <1>2 DEF SaveTenant, AuditOK, Inv, Typed
    <2>2. /\ UNCHANGED <<log, pushed, known, gone, faults>> /\ pc[r] # "trim" /\ pc'[r] # "trim"
          /\ \A q \in Requests \ {r} : pc'[q] = pc[q] /\ req'[q] = req[q]
      BY <1>2 DEF SaveTenant, Inv, Typed
    <2> QED BY <2>1, <2>2, QuietAudit DEF AuditInv
  <1>3. CASE Authenticate(r)
    <2>1. pc[r] = "auth" /\ UNCHANGED <<Store, faults>> /\ pc'[r] \in Answers \cup {"save", "find"}
          /\ \A q \in Requests \ {r} : pc'[q] = pc[q] /\ req'[q] = req[q]
      BY <1>3 DEF Authenticate, Inv, Typed, Answers
    <2>2. AuditOK(r)'
      BY <2>1 DEF AuditOK, Answers
    <2> QED BY <2>1, <2>2, QuietAudit DEF Store, AuditInv, Answers
  <1>4. CASE SaveKey(r)
    <2>1. req[r].target \in Keys /\ (req[r].op = "bootstrap" => req[r].caller = None)
          /\ req[r].op # "revoke"
      BY <1>0, <1>4 DEF SaveKey, RequestOK, CallerOK, RevokingOK, Busy
    <2>2. AuditOK(r)'
      BY <1>4, <2>1 DEF SaveKey, AuditOK, Key, Inv, Typed
    <2>3. /\ UNCHANGED <<log, pushed, known, gone, faults>> /\ pc[r] # "trim" /\ pc'[r] = "index"
          /\ \A q \in Requests \ {r} : pc'[q] = pc[q] /\ req'[q] = req[q]
      BY <1>4 DEF SaveKey, Inv, Typed
    <2> QED BY <2>2, <2>3, QuietAudit DEF AuditInv
  <1>5. CASE IndexKey(r)
    <2>1. req[r].op \in {"bootstrap", "create"}
      BY <1>0, <1>5 DEF IndexKey, RequestOK, RevokingOK, Busy
    <2>2. AuditOK(r)'
      BY <1>0, <1>5, <2>1 DEF IndexKey, AuditOK, Inv, Typed, Audited
    <2>3. /\ UNCHANGED <<log, pushed, known, gone, faults>> /\ pc[r] # "trim" /\ pc'[r] # "trim"
          /\ \A q \in Requests \ {r} : pc'[q] = pc[q] /\ req'[q] = req[q]
      BY <1>5 DEF IndexKey, Inv, Typed
    <2> QED BY <2>2, <2>3, QuietAudit DEF AuditInv
  <1>6. CASE FindKey(r)
    <2>1. pc[r] = "find" /\ UNCHANGED <<Store, faults>>
          /\ (\/ pc'[r] = "missing"
              \/ /\ pc'[r] = "mark" /\ req'[r] = req[r] /\ req[r].op = "revoke"
                 /\ record[req[r].target].tenant = req[r].tenant)
          /\ \A q \in Requests \ {r} : pc'[q] = pc[q] /\ req'[q] = req[q]
      BY <1>0, <1>6 DEF FindKey, Inv, Typed, RequestOK, MakingOK, RevokingOK, Busy
    <2>2. AuditOK(r)'
      BY <2>1 DEF AuditOK, Store
    <2> QED BY <2>1, <2>2, QuietAudit DEF Store, AuditInv
  <1>7. CASE MarkRevoked(r)
    <2>1. /\ req[r].target \in Keys /\ Saved(req[r].target) /\ req[r].op = "revoke"
          /\ record[req[r].target].tenant = req[r].tenant
      BY <1>0, <1>7 DEF MarkRevoked, RequestOK, MakingOK, RevokingOK, AuditOK, Busy
    <2>2. record'[req[r].target].tenant = req[r].tenant
      BY <2>1 DEF Grows
    <2>3. AuditOK(r)'
      BY <1>7, <2>1, <2>2 DEF MarkRevoked, AuditOK, Inv, Typed
    <2>4. /\ UNCHANGED <<log, pushed, known, gone, faults>> /\ pc[r] # "trim" /\ pc'[r] = "push"
          /\ \A q \in Requests \ {r} : pc'[q] = pc[q] /\ req'[q] = req[q]
      BY <1>7 DEF MarkRevoked, Inv, Typed
    <2> QED BY <2>3, <2>4, QuietAudit DEF AuditInv
  <1>8. CASE CommandFails(r)
    <2>1. /\ UNCHANGED Store /\ pc'[r] = "error" /\ faults' = faults + 1
          /\ \A q \in Requests \ {r} : pc'[q] = pc[q] /\ req'[q] = req[q]
      BY <1>8 DEF CommandFails, Inv, Typed
    <2>2. AuditOK(r)'
      BY <2>1 DEF AuditOK
    <2> QED BY <2>1, <2>2, QuietAudit DEF Store, AuditInv
  <1> QED BY <1>1, <1>2, <1>3, <1>4, <1>5, <1>6, <1>7, <1>8

\* A request that begins has recorded nothing.
LEMMA BeginAudit ==
    ASSUME ConstantsOK, Inv, Inv', AuditInv, Grows, NEW r \in Requests,
           \/ \E t \in Tenants : Bootstrap(r, t)
           \/ \E op \in Calls, c \in known, k \in Keys, role \in Roles : Call(r, op, c, k, role)
    PROVE  AuditInv'
  <1>1. /\ UNCHANGED <<Store, faults>> /\ pc[r] \in Answers /\ pc'[r] \in {"orgs", "auth"}
        /\ \A q \in Requests \ {r} : pc'[q] = pc[q] /\ req'[q] = req[q]
    BY DEF Bootstrap, Call, Start, GoTo, Inv, Typed
  <1>2. AuditOK(r)'
    BY <1>1 DEF AuditOK
  <1> QED BY SMTT(30), <1>1, <1>2, QuietAudit DEF Store, AuditInv, Answers

\* LPUSH: the event is in the history before the request goes on.
LEMMA PushAudit ==
    ASSUME ConstantsOK, Inv, Inv', AuditInv, Grows, NEW r \in Requests, PushEvent(r)
    PROVE  AuditInv'
  <1> DEFINE t == req[r].tenant
             e == Event(r)
  <1>1. /\ pc[r] = "push" /\ pc' = [pc EXCEPT ![r] = "trim"]
        /\ log' = [log EXCEPT ![t] = <<e>> \o @] /\ pushed' = [pushed EXCEPT ![t] = <<e>> \o @]
        /\ UNCHANGED <<record, known, gone, req, faults>>
    BY DEF PushEvent, At, GoTo
  <1>2. t \in Tenants /\ e \in Events /\ e.action = req[r].op /\ e.resource = req[r].target
    BY <1>1 DEF Inv, Typed, Asks, RequestOK, Busy, Event, Events
  <1>3. AuditOK(r) /\ RequestOK(r) /\ LogOK(t) /\ log[t] \in Seq(Events) /\ pushed[t] \in Seq(Events)
    BY <1>2 DEF AuditInv, Inv
  <1>4. req[r].target \in Keys /\ record[req[r].target].tenant = t
    BY <1>1, <1>3 DEF RequestOK, CallerOK, MakingOK, RevokingOK, AuditOK, Busy
  <1> HIDE DEF e
  <1>5. /\ <<e>> \o log[t] \in Seq(Events) /\ Len(<<e>> \o log[t]) = Len(log[t]) + 1
        /\ <<e>> \o pushed[t] \in Seq(Events)
        /\ IsPrefix(<<e>> \o log[t], <<e>> \o pushed[t])
        /\ ToSet(<<e>> \o pushed[t]) = {e} \cup ToSet(pushed[t])
    <2>1. IsPrefix(pushed[t], pushed[t])
      BY <1>3 DEF IsPrefix
    <2> QED BY <1>2, <1>3, <2>1, PushFacts DEF LogOK
  <1>6. /\ log' \in [Tenants -> Seq(Events)] /\ pushed' \in [Tenants -> Seq(Events)]
        /\ log'[t] = <<e>> \o log[t] /\ pushed'[t] = <<e>> \o pushed[t]
        /\ \A u \in Tenants \ {t} : log'[u] = log[u] /\ pushed'[u] = pushed[u]
    BY <1>1, <1>2, <1>5 DEF AuditInv
  <1>7. \A u \in Tenants : ToSet(pushed[u]) \subseteq ToSet(pushed'[u])
    BY <1>5, <1>6
  <1>8. \A q \in Requests : AuditOK(q)'
    <2>1. \A q \in Requests \ {r} : AuditOK(q)'
      BY <1>1, <1>7, OthersAudited DEF Inv, Typed
    <2>2. Recorded(t, req[r].op, req[r].target)'
      BY <1>1, <1>2, <1>5, <1>6 DEF Recorded
    <2>3. AuditOK(r)'
      BY <1>1, <1>3, <2>2 DEF AuditOK, Inv, Typed
    <2> QED BY <2>1, <2>3
  <1>9. KeysAudited'
    BY <1>1, <1>7, KeysStayAudited
  <1>10. \A u \in Tenants : LogOK(u)'
    <2>1. Trimming(t)' = Trimming(t) \cup {r} /\ r \notin Trimming(t)
          /\ \A u \in Tenants \ {t} : Trimming(u)' = Trimming(u)
      BY <1>1 DEF Trimming, Inv, Typed
    <2>2. IsFiniteSet(Trimming(t))
      BY FS_Subset DEF ConstantsOK, Trimming
    <2>3. Cardinality(Trimming(t)') = Cardinality(Trimming(t)) + 1
          /\ Cardinality(Trimming(t)) \in Nat
      BY <2>1, <2>2, FS_AddElement, FS_CardinalityType
    <2>4. ASSUME NEW u \in Tenants \ {t} PROVE LogOK(u)'
      BY <1>1, <1>6, <2>1 DEF LogOK, AuditInv
    <2>5. LogOK(t)'
      <3>1. Len(log[t]) \in Nat /\ Len(log'[t]) = Len(log[t]) + 1 /\ faults \in Nat /\ MaxEvents \in Nat
        BY <1>3, <1>5, <1>6 DEF AuditInv, ConstantsOK
      <3>2. IsPrefix(log'[t], pushed'[t])
        BY <1>5, <1>6
      <3>3. Len(log'[t]) >= MaxEvents \/ log'[t] = pushed'[t]
        <4>1. CASE Len(log[t]) >= MaxEvents
          BY <3>1, <4>1
        <4>2. CASE log[t] = pushed[t]
          BY <1>6, <4>2
        <4> QED BY <1>3, <4>1, <4>2 DEF LogOK
      <3>4. Len(log'[t]) <= MaxEvents + faults' + Cardinality(Trimming(t)')
        BY <1>1, <1>3, <2>3, <3>1 DEF LogOK
      <3> QED BY <1>1, <3>2, <3>3, <3>4 DEF LogOK
    <2> QED BY <1>1, <2>4, <2>5
  <1> QED BY <1>1, <1>6, <1>8, <1>9, <1>10 DEF AuditInv

\* LTRIM: the log is cut to the cap, whatever others have pushed meanwhile.
LEMMA TrimAudit ==
    ASSUME ConstantsOK, Inv, Inv', AuditInv, Grows, NEW r \in Requests, TrimLog(r)
    PROVE  AuditInv'
  <1> DEFINE t == req[r].tenant
             cut == IF Len(log[t]) <= MaxEvents THEN log[t] ELSE SubSeq(log[t], 1, MaxEvents)
  <1>1. /\ pc[r] = "trim" /\ pc' = [pc EXCEPT ![r] = "reply"] /\ log' = [log EXCEPT ![t] = cut]
        /\ UNCHANGED <<record, pushed, known, gone, req, faults>>
    BY DEF TrimLog, At, GoTo
  <1>2. t \in Tenants
    BY <1>1 DEF Inv, RequestOK, Busy
  <1>3. LogOK(t) /\ log[t] \in Seq(Events) /\ pushed[t] \in Seq(Events) /\ MaxEvents \in Nat
    BY <1>2 DEF AuditInv, ConstantsOK
  <1>4. /\ cut \in Seq(Events) /\ IsPrefix(cut, pushed[t]) /\ Len(cut) <= MaxEvents
        /\ Len(cut) >= MaxEvents \/ cut = pushed[t]
    <2>1. CASE Len(log[t]) <= MaxEvents
      BY <1>3, <2>1 DEF LogOK
    <2>2. CASE ~(Len(log[t]) <= MaxEvents)
      <3>1. MaxEvents \in 0..Len(log[t]) /\ cut = SubSeq(log[t], 1, MaxEvents)
        BY <1>3, <2>2
      <3>2. cut \in Seq(Events) /\ Len(cut) = MaxEvents /\ IsPrefix(cut, pushed[t])
        BY <1>3, <3>1, TrimFacts DEF LogOK
      <3> QED BY <1>3, <3>2
    <2> QED BY <2>1, <2>2
  <1> HIDE DEF cut
  <1>5. /\ log' \in [Tenants -> Seq(Events)] /\ log'[t] = cut
        /\ \A u \in Tenants \ {t} : log'[u] = log[u]
    BY <1>1, <1>2, <1>4 DEF AuditInv
  <1>6. \A q \in Requests : AuditOK(q)'
    <2>1. \A q \in Requests \ {r} : AuditOK(q)'
      BY <1>1, OthersAudited DEF Inv, Typed
    <2>2. AuditOK(r)'
      BY <1>1 DEF AuditOK, AuditInv, Inv, Typed, Recorded
    <2> QED BY <2>1, <2>2
  <1>7. KeysAudited'
    BY <1>1, KeysStayAudited
  <1>8. \A u \in Tenants : LogOK(u)'
    <2>1. ASSUME NEW u \in Tenants \ {t} PROVE LogOK(u)'
      <3>1. Trimming(u)' = Trimming(u)
        BY <1>1 DEF Trimming, Inv, Typed
      <3> QED BY <1>1, <1>5, <3>1 DEF LogOK, AuditInv
    <2>2. LogOK(t)'
      <3>1. Cardinality(Trimming(t)') \in Nat
        BY FS_Subset, FS_CardinalityType DEF ConstantsOK, Trimming
      <3>2. Len(cut) \in Nat /\ faults \in Nat
        BY <1>4 DEF AuditInv
      <3> QED BY <1>1, <1>3, <1>4, <1>5, <3>1, <3>2 DEF LogOK
    <2> QED BY <1>1, <2>1, <2>2
  <1> QED BY <1>1, <1>5, <1>6, <1>7, <1>8 DEF AuditInv

\* The answer comes after the event.
LEMMA ReplyAudit ==
    ASSUME ConstantsOK, Inv, Inv', AuditInv, Grows, NEW r \in Requests, Reply(r)
    PROVE  AuditInv'
  <1>1. /\ pc[r] = "reply" /\ pc'[r] = "ok" /\ UNCHANGED <<record, log, pushed, faults>>
        /\ \A q \in Requests \ {r} : pc'[q] = pc[q] /\ req'[q] = req[q]
        /\ known' = IF req[r].op = "revoke" THEN known ELSE known \cup {req[r].target}
        /\ gone' = IF req[r].op = "revoke" THEN gone \cup {req[r].target} ELSE gone
    BY DEF Reply, Answer, GoTo, At, Inv, Typed
  <1>2. RequestOK(r) /\ AuditOK(r)
    BY DEF Inv, AuditInv
  <1>3. req[r].op = "revoke" => Recorded(record[req[r].target].tenant, "revoke", req[r].target)
    BY <1>1, <1>2 DEF AuditOK, Audited
  <1>4. req[r].op # "revoke" /\ record[req[r].target].by # None =>
          Recorded(record[req[r].target].tenant, "create", req[r].target)
    BY <1>1, <1>2 DEF AuditOK, RequestOK, MakingOK, RevokingOK, Audited, Busy
  <1>5. KeysAudited'
    BY <1>1, <1>3, <1>4 DEF AuditInv, KeysAudited, Recorded
  <1>6. \A q \in Requests : AuditOK(q)'
    <2>1. \A q \in Requests \ {r} : AuditOK(q)'
      BY <1>1, OthersAudited
    <2>2. AuditOK(r)'
      BY <1>1 DEF AuditOK
    <2> QED BY <2>1, <2>2
  <1>7. \A t \in Tenants : LogOK(t)'
    <2>1. pc[r] # "trim" /\ pc'[r] # "trim" /\ faults' = faults + 0
      BY <1>1 DEF AuditInv
    <2> QED BY <1>1, <2>1, LogsStay
  <1> QED BY <1>1, <1>5, <1>6, <1>7 DEF AuditInv

-----------------------------------------------------------------------------
\* The inductive invariant of the audit log, beside that of the keys.
THEOREM AuditInvariant ==
    ASSUME ConstantsOK
    PROVE  Spec => []AuditInv
  <1>1. Init => AuditInv
    <2> SUFFICES ASSUME Init PROVE AuditInv
      OBVIOUS
    <2>1. /\ \A t \in Tenants : log[t] = <<>> /\ pushed[t] = <<>>
          /\ \A r \in Requests : pc[r] = "ok"
          /\ log \in [Tenants -> Seq(Events)] /\ pushed \in [Tenants -> Seq(Events)]
      BY DEF Init
    <2>2. ASSUME NEW t \in Tenants PROVE LogOK(t)
      <3>1. Cardinality(Trimming(t)) \in Nat
        BY FS_Subset, FS_CardinalityType DEF ConstantsOK, Trimming
      <3> QED BY <2>1, <3>1 DEF Init, LogOK, IsPrefix, ConstantsOK
    <2> QED BY <2>1, <2>2 DEF Init, AuditInv, AuditOK, KeysAudited
  <1>2. Inv /\ Inv' /\ AuditInv /\ [Next]_vars => AuditInv'
    <2> SUFFICES ASSUME Inv, Inv', AuditInv, [Next]_vars PROVE AuditInv'
      OBVIOUS
    <2>1. Grows
      BY RecordsGrow
    <2>2. CASE UNCHANGED vars
      BY <2>2 DEF vars, AuditInv, AuditOK, KeysAudited, LogOK, Recorded, Trimming
    <2> QED BY <2>1, <2>2, BeginAudit, CommandAudit, PushAudit, TrimAudit, ReplyAudit DEF Next, Step
  <1> QED BY <1>1, <1>2, EnterpriseInvariant, PTL DEF Spec

\* Each revocation that was answered and each key that was handed out has its
\* event in the history of the tenant the key belongs to (AuditService.log,
\* awaited before the answer).
THEOREM ActionsLeaveEvents ==
    ASSUME ConstantsOK
    PROVE  Spec => []ActionsAudited
  <1>1. Inv /\ AuditInv => ActionsAudited
    BY DEF Inv, KeysOK, AuditInv, KeysAudited, Recorded, ActionsAudited
  <1> QED BY <1>1, EnterpriseInvariant, AuditInvariant, PTL

\* The log is the newest part of the history, whole up to the cap, and over it
\* only by the appends that have not trimmed (AuditRepository.append).
THEOREM LogIsNewest ==
    ASSUME ConstantsOK
    PROVE  Spec => []LogKeepsNewest
  <1>1. AuditInv => LogKeepsNewest
    <2> SUFFICES ASSUME AuditInv, NEW t \in Tenants
                 PROVE  Len(log[t]) <= MaxEvents + faults + Cardinality({r \in Requests : At(r, "trim")})
      BY DEF AuditInv, LogOK, LogKeepsNewest
    <2> DEFINE all == {r \in Requests : At(r, "trim")}
    <2>1. IsFiniteSet(all) /\ Trimming(t) \subseteq all
      BY FS_Subset DEF ConstantsOK, Trimming, At
    <2>2. /\ Cardinality(Trimming(t)) \in Nat /\ Cardinality(all) \in Nat
          /\ Cardinality(Trimming(t)) <= Cardinality(all)
      BY <2>1, FS_Subset, FS_CardinalityType
    <2>3. LogOK(t) /\ Len(log[t]) \in Nat /\ faults \in Nat /\ MaxEvents \in Nat
      BY DEF AuditInv, ConstantsOK
    <2> QED BY <2>2, <2>3 DEF LogOK
  <1> QED BY <1>1, AuditInvariant, PTL
=============================================================================

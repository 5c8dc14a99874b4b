------------------------------ MODULE Enterprise ------------------------------
(***************************************************************************)
(* The enterprise layer: organizations, API keys, permissions and the audit *)
(* log, as requests that run at the same time, one action per Redis        *)
(* command.  A key is named by its prefix; generate_raw_key makes prefixes *)
(* that are never equal (48 random bits).                                  *)
(***************************************************************************)
EXTENDS Naturals, Sequences, FiniteSets, SequencesExt

CONSTANTS
    Requests,    \* requests under way at once
    Tenants,     \* each with its organization
    Keys,        \* prefixes that can be generated
    Calls,       \* the routes that are called
    None,
    MaxEvents,   \* MAX_EVENTS_PER_TENANT
    MaxActions,  \* how many audited requests may begin
    MaxFaults    \* Redis commands that fail

\* What the values of the constants must satisfy.
ConstantsOK ==
    /\ Calls \subseteq {"create", "revoke", "list", "audit", "usage", "organizations"}
    /\ IsFiniteSet(Requests)
    /\ None \notin Keys
    /\ None \notin [tenant : Tenants, role : {"owner", "admin", "member", "viewer"},
                     revoked : BOOLEAN, by : Keys \cup {None}]
    /\ MaxEvents \in Nat \ {0}
    /\ MaxActions \in Nat
    /\ MaxFaults \in Nat

VARIABLES
    orgs,     \* tenants whose organization is in the set "organizations"
    tenants,  \* tenants with a saved record
    record,   \* apikey:prefix:{prefix}, None if never saved
    listed,   \* keys in tenant:{id}:apikeys of their tenant
    log,      \* tenant:{id}:audit, newest first
    known,    \* keys whose secret a client was given
    pushed,   \* history: every event ever pushed, newest first
    gone,     \* history: keys whose revocation was answered
    pc,       \* where each request is
    req,      \* what it is: operation, calling key, target key, tenant, role
    actions,
    faults

vars == <<orgs, tenants, record, listed, log, known, pushed, gone, pc, req, actions, faults>>

-----------------------------------------------------------------------------
\* models/role.py
Roles == {"owner", "admin", "member", "viewer"}
ROLE_PERMISSIONS ==
    [role \in Roles |->
        CASE role = "viewer" -> {"read"}
          [] role = "member" -> {"read", "write"}
          [] role = "admin" -> {"read", "write", "manage_api_keys", "view_audit", "view_usage"}
          [] role = "owner" -> {"read", "write", "manage_api_keys", "view_audit", "view_usage",
                                "manage_organization"}]

\* The permission each route asks for (require_permission).
Needs ==
    [create |-> "manage_api_keys", revoke |-> "manage_api_keys", list |-> "manage_api_keys",
     audit |-> "view_audit", usage |-> "view_usage", organizations |-> "manage_organization"]

Audited == {"create", "revoke"}
Answers == {"ok", "unauthenticated", "forbidden", "missing", "error"}
Busy == {"org", "orgs", "tenant", "auth", "save", "index", "find", "mark", "push", "trim", "reply"}

Key(t, role, by) == [tenant |-> t, role |-> role, revoked |-> FALSE, by |-> by]

Ask(op, caller, target, t, role) ==
    [op |-> op, caller |-> caller, target |-> target, tenant |-> t, role |-> role,
     late |-> caller \in gone]

Idle == [op |-> "none", caller |-> None, target |-> None, tenant |-> None, role |-> "viewer",
         late |-> FALSE]

Init ==
    /\ orgs = {} /\ tenants = {}
    /\ record = [k \in Keys |-> None]
    /\ listed = {}
    /\ log = [t \in Tenants |-> <<>>]
    /\ known = {}
    /\ pushed = [t \in Tenants |-> <<>>]
    /\ gone = {}
    /\ pc = [r \in Requests |-> "ok"]
    /\ req = [r \in Requests |-> Idle]
    /\ actions = 0 /\ faults = 0

At(r, l) == pc[r] = l
GoTo(r, l) == pc' = [pc EXCEPT ![r] = l]
\* The answer; nothing reads a request that was answered.
Answer(r, l) ==
    GoTo(r, l) /\ req' = [req EXCEPT ![r] = [Idle EXCEPT !.late = req[r].late]]
Start(r, l, q) == pc[r] \in Answers /\ GoTo(r, l) /\ req' = [req EXCEPT ![r] = q]
\* generate_raw_key never makes a prefix twice; which one it makes does not
\* matter.
Fresh == {k \in Keys : record[k] = None /\ \A r \in Requests : pc[r] \in Busy => req[r].target # k}
NewKey == CHOOSE k \in Fresh : TRUE
Store == <<orgs, tenants, record, listed, log, known, pushed, gone>>

-----------------------------------------------------------------------------
\* POST /organizations: no key is asked for.
Bootstrap(r, t) ==
    /\ Fresh # {}
    /\ t \notin orgs \cup tenants
    /\ \A q \in Requests : pc[q] \in Busy => req[q].tenant # t
    /\ Start(r, "orgs", Ask("bootstrap", None, NewKey, t, "owner"))
    /\ UNCHANGED <<Store, actions, faults>>

\* Every other route begins with its caller's key.
Call(r, op, caller, target, role) ==
    /\ actions < MaxActions /\ actions' = actions + 1
    /\ op = "create" => Fresh # {} /\ target = NewKey
    /\ op # "create" => role = "viewer"
    /\ op \notin Audited => target = caller
    /\ Start(r, "auth", Ask(op, caller, target, record[caller].tenant, role))
    /\ UNCHANGED <<Store, faults>>

\* create_organization: the record and the set "organizations", then the
\* tenant (the records' own SETs change nothing that is read here).
AddOrganization(r) ==
    /\ At(r, "orgs")
    /\ orgs' = orgs \cup {req[r].tenant}
    /\ GoTo(r, "tenant")
    /\ UNCHANGED <<tenants, record, listed, log, known, pushed, gone, req, actions, faults>>

SaveTenant(r) ==
    /\ At(r, "tenant")
    /\ tenants' = tenants \cup {req[r].tenant}
    /\ GoTo(r, "save")
    /\ UNCHANGED <<orgs, record, listed, log, known, pushed, gone, req, actions, faults>>

\* Mutant: the new key's role is not compared with the caller's.
Allowed_AnyRole(q, key) == Needs[q.op] \in ROLE_PERMISSIONS[key.role]

Allowed(q, key) ==
    /\ Needs[q.op] \in ROLE_PERMISSIONS[key.role]
    /\ q.op = "create" => ROLE_PERMISSIONS[q.role] \subseteq ROLE_PERMISSIONS[key.role]

\* Mutant: a revoked key still authenticates.
Authenticate_IgnoresRevoked(r) ==
    /\ At(r, "auth")
    /\ LET key == record[req[r].caller] IN
       IF ~Allowed(req[r], key) THEN Answer(r, "forbidden")
       ELSE IF req[r].op \notin Audited THEN Answer(r, "ok")
       ELSE GoTo(r, IF req[r].op = "create" THEN "save" ELSE "find") /\ UNCHANGED req
    /\ UNCHANGED <<Store, actions, faults>>

\* authenticate, require_permission, and the check against escalation.
Authenticate(r) ==
    /\ At(r, "auth")
    /\ LET key == record[req[r].caller] IN
       IF key = None \/ key.revoked THEN Answer(r, "unauthenticated")
       ELSE IF ~Allowed(req[r], key) THEN Answer(r, "forbidden")
       ELSE IF req[r].op \notin Audited THEN Answer(r, "ok")
       ELSE GoTo(r, IF req[r].op = "create" THEN "save" ELSE "find") /\ UNCHANGED req
    /\ UNCHANGED <<Store, actions, faults>>

SaveKey(r) ==
    /\ At(r, "save")
    /\ record' = [record EXCEPT ![req[r].target] = Key(req[r].tenant, req[r].role, req[r].caller)]
    /\ GoTo(r, "index")
    /\ UNCHANGED <<orgs, tenants, listed, log, known, pushed, gone, req, actions, faults>>

IndexKey(r) ==
    /\ At(r, "index")
    /\ listed' = listed \cup {req[r].target}
    /\ GoTo(r, IF req[r].op = "create" THEN "push" ELSE "reply")
    /\ UNCHANGED <<orgs, tenants, record, log, known, pushed, gone, req, actions, faults>>

\* revoke_api_key: the key must be one of the caller's tenant.
FindKey(r) ==
    /\ At(r, "find")
    /\ LET key == record[req[r].target] IN
       IF key = None \/ key.tenant # req[r].tenant THEN Answer(r, "missing")
       ELSE GoTo(r, "mark") /\ UNCHANGED req
    /\ UNCHANGED <<Store, actions, faults>>

\* ApiKeyRepository.revoke: GET and SET are one step, for nothing else ever
\* changes a record that is saved, and this only in one direction.
MarkRevoked(r) ==
    /\ At(r, "mark")
    /\ record' = [record EXCEPT ![req[r].target].revoked = TRUE]
    /\ GoTo(r, "push")
    /\ UNCHANGED <<orgs, tenants, listed, log, known, pushed, gone, req, actions, faults>>

Event(r) == [action |-> req[r].op, resource |-> req[r].target, actor |-> req[r].caller]

\* AuditRepository.append: LPUSH, then LTRIM.
PushEvent(r) ==
    /\ At(r, "push")
    /\ log' = [log EXCEPT ![req[r].tenant] = <<Event(r)>> \o @]
    /\ pushed' = [pushed EXCEPT ![req[r].tenant] = <<Event(r)>> \o @]
    /\ GoTo(r, "trim")
    /\ UNCHANGED <<orgs, tenants, record, listed, known, gone, req, actions, faults>>

\* Mutant: LTRIM keeps one event too few.
TrimLog_Short(r) ==
    /\ At(r, "trim")
    /\ log' = [log EXCEPT ![req[r].tenant] = SubSeq(@, 1, MaxEvents - 1)]
    /\ GoTo(r, "reply")
    /\ UNCHANGED <<orgs, tenants, record, listed, known, pushed, gone, req, actions, faults>>

TrimLog(r) ==
    /\ At(r, "trim")
    /\ log' = [log EXCEPT ![req[r].tenant] =
                  IF Len(@) <= MaxEvents THEN @ ELSE SubSeq(@, 1, MaxEvents)]
    /\ GoTo(r, "reply")
    /\ UNCHANGED <<orgs, tenants, record, listed, known, pushed, gone, req, actions, faults>>

\* The answer: a new key's secret, or that a key is revoked.
Reply(r) ==
    /\ At(r, "reply")
    /\ known' = IF req[r].op = "revoke" THEN known ELSE known \cup {req[r].target}
    /\ gone' = IF req[r].op = "revoke" THEN gone \cup {req[r].target} ELSE gone
    /\ Answer(r, "ok")
    /\ UNCHANGED <<orgs, tenants, record, listed, log, pushed, actions, faults>>

\* Mutant: a failed audit entry is swallowed.
CommandFails_Soft(r) ==
    /\ pc[r] \in Busy \ {"reply"} /\ faults < MaxFaults
    /\ faults' = faults + 1
    /\ IF At(r, "push") THEN GoTo(r, "reply") /\ UNCHANGED req ELSE Answer(r, "error")
    /\ UNCHANGED <<Store, actions>>

\* The repositories surface Redis errors; the client sees a 500.
CommandFails(r) ==
    /\ pc[r] \in Busy \ {"reply"} /\ faults < MaxFaults
    /\ faults' = faults + 1
    /\ Answer(r, "error")
    /\ UNCHANGED <<Store, actions>>

-----------------------------------------------------------------------------
Step(r) ==
    \/ AddOrganization(r)
    \/ SaveTenant(r)
    \/ Authenticate(r)
    \/ SaveKey(r)
    \/ IndexKey(r)
    \/ FindKey(r)
    \/ MarkRevoked(r)
    \/ PushEvent(r)
    \/ TrimLog(r)
    \/ Reply(r)
    \/ CommandFails(r)

Next ==
    \E r \in Requests :
        \/ Step(r)
        \/ \E t \in Tenants : Bootstrap(r, t)
        \/ \E op \in Calls, c \in known, k \in Keys, role \in Roles : Call(r, op, c, k, role)

Spec == Init /\ [][Next]_vars

-----------------------------------------------------------------------------
TypeOK ==
    /\ orgs \subseteq Tenants /\ tenants \subseteq Tenants
    /\ \A k \in Keys : record[k] = None \/ record[k] \in
           [tenant : Tenants, role : Roles, revoked : BOOLEAN, by : Keys \cup {None}]
    /\ listed \subseteq Keys /\ known \subseteq Keys /\ gone \subseteq Keys
    /\ \A r \in Requests : pc[r] \in Busy \cup Answers
    /\ actions \in 0..MaxActions /\ faults \in 0..MaxFaults

\* A secret that a client holds belongs to a key its tenant's admins can list,
\* hence revoke, and whose tenant exists, whatever failed while it was made.
KnownKeysListed == \A k \in known : k \in listed /\ record[k].tenant \in tenants

\* Revocation works end to end: a request that begins after the revocation of
\* its key was answered is refused, whatever else is under way.
RevokedCannotAct == \A r \in Requests : req[r].late => pc[r] \in {"auth", "unauthenticated", "error"}

\* No chain of requests makes a key that can do more than the key it was made
\* with, nor one of another tenant.
NoEscalation ==
    \A k \in Keys : record[k] # None /\ record[k].by # None =>
        LET maker == record[record[k].by] IN
        /\ maker.tenant = record[k].tenant
        /\ ROLE_PERMISSIONS[record[k].role] \subseteq ROLE_PERMISSIONS[maker.role]

\* Every key is revoked only by its own tenant, and each revocation that was
\* answered, and each key that was handed out, has its audit event.
ActionsAudited ==
    LET Recorded(op, k) ==
            \E e \in ToSet(pushed[record[k].tenant]) : e.action = op /\ e.resource = k
    IN  /\ \A k \in gone : record[k].revoked /\ Recorded("revoke", k)
        /\ \A k \in known : record[k].by # None => Recorded("create", k)

\* The log always holds the newest events, at least MaxEvents of them if that
\* many were pushed, and exceeds the cap only while appends have not trimmed.
LogKeepsNewest ==
    \A t \in Tenants :
        /\ IsPrefix(log[t], pushed[t])
        /\ Len(log[t]) >= MaxEvents \/ log[t] = pushed[t]
        /\ Len(log[t]) <= MaxEvents + faults + Cardinality({r \in Requests : At(r, "trim")})

=============================================================================

------------------------------- MODULE Session -------------------------------
(***************************************************************************)
(* The API key in the frontend: the store of each tab (auth-store.ts) and  *)
(* what it persists (lib/auth/storage.ts) in the tab's sessionStorage or   *)
(* in the localStorage all tabs share.  A tab runs one function at a time; *)
(* the functions of two tabs interleave at every access to localStorage,   *)
(* and any access may throw (storage that is full or blocked).             *)
(***************************************************************************)
CONSTANTS
    Tabs,
    Keys,   \* API keys
    None    \* no key

ConstantsOK == None \notin Keys /\ None # "local"

VARIABLES
    localKey, localScope,   \* KEY and SCOPE_KEY in localStorage
    session,    \* session[t]: KEY in t's sessionStorage
    held,       \* held[t]: the key in t's store and in its request header
    status,     \* status[t]: AuthStatus
    pc,         \* pc[t]: where t is in a function of storage.ts
    arg,        \* arg[t]: the key and scope that function works on
    own,        \* own[t]: keys given to t or set where t looks, since t last signed
                \* out or was opened, and those that a sign-out failed to remove
    alone       \* alone[t]: since t last wrote or read, no other tab has
                \* written and none of its own accesses has thrown

vars == <<localKey, localScope, session, held, status, pc, arg, own, alone>>

Scopes == {"session", "local"}
Found(k) == IF k = None THEN {} ELSE {k}
NoArg == [key |-> None, scope |-> "session"]

Init ==
    /\ localKey = None /\ localScope = None
    /\ session = [t \in Tabs |-> None] /\ held = [t \in Tabs |-> None]
    /\ status = [t \in Tabs |-> "loading"] /\ pc = [t \in Tabs |-> "idle"]
    /\ arg = [t \in Tabs |-> NoArg] /\ own = [t \in Tabs |-> {}]
    /\ alone = [t \in Tabs |-> TRUE]

-----------------------------------------------------------------------------
Goto(t, l) == pc' = [pc EXCEPT ![t] = l]
Disturbs(t) == alone' = [u \in Tabs |-> u = t /\ alone[t]]

RemoveKey(t, scope) ==
    IF scope = "local"
      THEN localKey' = None /\ Disturbs(t) /\ UNCHANGED session
      ELSE session' = [session EXCEPT ![t] = None] /\ UNCHANGED <<localKey, alone>>

\* The store keeps state and header together.
Hold(t, k) ==
    /\ held' = [held EXCEPT ![t] = k]
    /\ status' = [status EXCEPT ![t] = IF k = None THEN "anonymous" ELSE "authenticated"]

\* hydrate: loadApiKey reads the scope, then the key.
Hydrate(t) ==
    /\ pc[t] = "idle" /\ status[t] = "loading" /\ Goto(t, "load")
    /\ arg' = [arg EXCEPT ![t].scope = IF localScope = "local" THEN "local" ELSE "session"]
    /\ alone' = [alone EXCEPT ![t] = TRUE]
    /\ UNCHANGED <<localKey, localScope, session, held, status, own>>

ReadKey(t) ==
    /\ pc[t] = "load" /\ Goto(t, "idle")
    /\ Hold(t, IF arg[t].scope = "local" THEN localKey ELSE session[t])
    /\ arg' = [arg EXCEPT ![t] = NoArg]
    /\ UNCHANGED <<localKey, localScope, session, own, alone>>

\* signIn, with saveApiKey's three accesses.
SignIn(t, k, scope) ==
    /\ pc[t] = "idle" /\ status[t] # "loading" /\ Goto(t, "clearOther")
    /\ arg' = [arg EXCEPT ![t] = [key |-> k, scope |-> scope]]
    /\ alone' = [alone EXCEPT ![t] = TRUE]
    /\ UNCHANGED <<localKey, localScope, session, held, status, own>>

ClearOther(t) ==
    /\ pc[t] = "clearOther" /\ Goto(t, "setKey")
    /\ RemoveKey(t, IF arg[t].scope = "local" THEN "session" ELSE "local")
    /\ UNCHANGED <<localScope, held, status, arg, own>>

SetKey(t) ==
    /\ pc[t] = "setKey" /\ Goto(t, "setScope")
    /\ IF arg[t].scope = "local"
         THEN /\ localKey' = arg[t].key /\ Disturbs(t) /\ UNCHANGED session
              /\ own' = [u \in Tabs |-> own[u] \cup {arg[t].key}]
         ELSE /\ session' = [session EXCEPT ![t] = arg[t].key] /\ UNCHANGED <<localKey, alone>>
              /\ own' = [own EXCEPT ![t] = @ \cup {arg[t].key}]
    /\ UNCHANGED <<localScope, held, status, arg>>

\* Mutant: written only when it is not the default.
SetScope_LocalOnly(t) ==
    /\ pc[t] = "setScope" /\ Goto(t, "idle")
    /\ localScope' = (IF arg[t].scope = "local" THEN "local" ELSE localScope) /\ Disturbs(t)
    /\ Hold(t, arg[t].key) /\ arg' = [arg EXCEPT ![t] = NoArg]
    /\ UNCHANGED <<localKey, session, own>>

SetScope(t) ==
    /\ pc[t] = "setScope" /\ Goto(t, "idle")
    /\ localScope' = arg[t].scope /\ Disturbs(t)
    /\ Hold(t, arg[t].key) /\ arg' = [arg EXCEPT ![t] = NoArg]
    /\ UNCHANGED <<localKey, session, own>>

\* signOut, with clearApiKey's three accesses.
SignOut(t) ==
    /\ pc[t] = "idle" /\ status[t] = "authenticated" /\ Goto(t, "clearSession")
    /\ own' = [own EXCEPT ![t] = {}] /\ alone' = [alone EXCEPT ![t] = TRUE]
    /\ UNCHANGED <<localKey, localScope, session, held, status, arg>>

ClearSession(t) ==
    /\ pc[t] = "clearSession" /\ Goto(t, "clearLocal")
    /\ RemoveKey(t, "session")
    /\ UNCHANGED <<localScope, held, status, arg, own>>

ClearLocal(t) ==
    /\ pc[t] = "clearLocal" /\ Goto(t, "clearScope")
    /\ RemoveKey(t, "local")
    /\ UNCHANGED <<localScope, held, status, arg, own>>

ClearScope(t) ==
    /\ pc[t] = "clearScope" /\ Goto(t, "idle")
    /\ localScope' = None /\ Disturbs(t) /\ Hold(t, None)
    /\ UNCHANGED <<localKey, session, arg, own>>

\* An access throws: the function ends there, and the store goes on as if it
\* had not.  loadApiKey answers that there is no key.
Ends(t, k) ==
    /\ Goto(t, "idle") /\ Hold(t, k)
    /\ arg' = [arg EXCEPT ![t] = NoArg] /\ alone' = [alone EXCEPT ![t] = FALSE]
    /\ UNCHANGED <<localKey, localScope, session>>

LoadThrows(t) ==
    /\ pc[t] = "load" /\ Ends(t, None)
    /\ UNCHANGED own

\* The key is in use all the same.
SaveThrows(t) ==
    /\ pc[t] \in {"clearOther", "setKey", "setScope"} /\ Ends(t, arg[t].key)
    /\ own' = [own EXCEPT ![t] = @ \cup {arg[t].key}]

\* What was not removed stays.
ClearThrows(t) ==
    /\ pc[t] \in {"clearSession", "clearLocal", "clearScope"} /\ Ends(t, None)
    /\ own' = [own EXCEPT ![t] = @ \cup Found(session[t]) \cup Found(localKey)]

\* The store is made anew; a new tab has an empty sessionStorage.
Reload(t) ==
    /\ pc[t] = "idle" /\ status[t] # "loading"
    /\ status' = [status EXCEPT ![t] = "loading"] /\ held' = [held EXCEPT ![t] = None]
    /\ UNCHANGED <<localKey, localScope, session, pc, arg, own, alone>>

Reopen(t) ==
    /\ pc[t] = "idle"
    /\ status' = [status EXCEPT ![t] = "loading"] /\ held' = [held EXCEPT ![t] = None]
    /\ session' = [session EXCEPT ![t] = None] /\ own' = [own EXCEPT ![t] = Found(localKey)]
    /\ UNCHANGED <<localKey, localScope, pc, arg, alone>>

Next ==
    \E t \in Tabs :
      \/ Hydrate(t) \/ ReadKey(t)
      \/ \E k \in Keys, scope \in Scopes : SignIn(t, k, scope)
      \/ ClearOther(t) \/ SetKey(t) \/ SetScope(t)
      \/ SignOut(t) \/ ClearSession(t) \/ ClearLocal(t) \/ ClearScope(t)
      \/ LoadThrows(t) \/ SaveThrows(t) \/ ClearThrows(t)
      \/ Reload(t) \/ Reopen(t)

Spec == Init /\ [][Next]_vars

-----------------------------------------------------------------------------
TypeOK ==
    /\ localKey \in Keys \cup {None} /\ localScope \in Scopes \cup {None}
    /\ session \in [Tabs -> Keys \cup {None}] /\ held \in [Tabs -> Keys \cup {None}]
    /\ status \in [Tabs -> {"loading", "anonymous", "authenticated"}]
    /\ pc \in [Tabs -> {"idle", "load", "clearOther", "setKey", "setScope",
                        "clearSession", "clearLocal", "clearScope"}]
    /\ arg \in [Tabs -> [key : Keys \cup {None}, scope : Scopes]]
    /\ own \in [Tabs -> SUBSET Keys] /\ alone \in [Tabs -> BOOLEAN]

\* What hydrate would find now.
Persisted(t) == IF localScope = "local" THEN localKey ELSE session[t]

\* A tab acts with no key but those it was given, or that were remembered for
\* all tabs, since it last signed out or was opened, whatever other tabs were
\* writing meanwhile; or one whose removal had failed.
KeysForgotten ==
    \A t \in Tabs : pc[t] = "idle" => Found(held[t]) \cup Found(Persisted(t)) \subseteq own[t]

\* As long as no other tab writes and no access throws, a reload restores the
\* session as it is.
ReloadKeepsSession ==
    \A t \in Tabs : pc[t] = "idle" /\ status[t] # "loading" /\ alone[t] => Persisted(t) = held[t]

-----------------------------------------------------------------------------
\* What a tab holds, will hold or will find is its own, except for what a
\* sign-out under way has yet to remove.
OwnInv ==
    /\ \A t \in Tabs : pc[t] # "clearSession" => Found(session[t]) \subseteq own[t]
    /\ \A t \in Tabs : pc[t] \notin {"clearSession", "clearLocal"} => Found(localKey) \subseteq own[t]
    /\ \A t \in Tabs : pc[t] \notin {"clearSession", "clearLocal", "clearScope"} =>
         Found(held[t]) \subseteq own[t]
    /\ \A t \in Tabs : pc[t] = "setScope" => arg[t].key \in own[t]
    /\ \A t \in Tabs : pc[t] \in {"clearOther", "setKey"} => arg[t].key \in Keys

\* What an undisturbed tab has done so far in a function of storage.ts.
AloneInv ==
    /\ ReloadKeepsSession
    /\ \A t \in Tabs : pc[t] = "load" /\ alone[t] =>
         arg[t].scope = IF localScope = "local" THEN "local" ELSE "session"
    /\ \A t \in Tabs : pc[t] = "setScope" /\ alone[t] =>
         arg[t].key = IF arg[t].scope = "local" THEN localKey ELSE session[t]
    /\ \A t \in Tabs : pc[t] \in {"clearLocal", "clearScope"} => session[t] = None

\* The steps of tab t.
Step(t) ==
    \/ Hydrate(t) \/ ReadKey(t)
    \/ \E k \in Keys, scope \in Scopes : SignIn(t, k, scope)
    \/ ClearOther(t) \/ SetKey(t) \/ SetScope(t)
    \/ SignOut(t) \/ ClearSession(t) \/ ClearLocal(t) \/ ClearScope(t)
    \/ LoadThrows(t) \/ SaveThrows(t) \/ ClearThrows(t)
    \/ Reload(t) \/ Reopen(t)

=============================================================================

---------------------------- MODULE ModelRegistry ----------------------------
(***************************************************************************)
(* ModelRegistry: the versions of each type of model and which of them is  *)
(* active.  Every method is one step: it does not await.  A service keeps  *)
(* the name of the model that was active when the service was built.       *)
(***************************************************************************)
EXTENDS Naturals

CONSTANTS
    Types,
    Versions,
    First,     \* _INITIAL_VERSION
    Services,  \* the services that ask for a model when they are built
    None

\* What the values of the constants must satisfy.
ConstantsOK == First \in Versions /\ None \notin Versions

VARIABLES
    models,  \* _models: the status of each registered version
    built    \* the version each service was built with

vars == <<models, built>>

Init ==
    /\ models = [t \in Types |-> [v \in Versions |-> IF v = First THEN "active" ELSE "absent"]]
    /\ built = [s \in Services |-> None]

Registered(t) == {v \in Versions : models[t][v] # "absent"}
Active(t) == {v \in Versions : models[t][v] = "active"}

\* _deactivate_all
Deactivated(t) == [v \in Versions |-> IF models[t][v] = "active" THEN "inactive" ELSE models[t][v]]

-----------------------------------------------------------------------------
(* A call that is refused, with 404 or 409, changes nothing.               *)

\* Mutant: a version that is registered as active leaves the others alone.
Register_KeepsOthers(t, v, status) ==
    /\ v \notin Registered(t)
    /\ models' = [models EXCEPT ![t][v] = status]
    /\ UNCHANGED built

\* 409 for a version that is there already.
Register(t, v, status) ==
    /\ v \notin Registered(t)
    /\ models' = [models EXCEPT ![t] =
           [(IF status = "active" THEN Deactivated(t) ELSE @) EXCEPT ![v] = status]]
    /\ UNCHANGED built

\* 404 for a version that is not registered.
Activate(t, v) ==
    /\ v \in Registered(t)
    /\ models' = [models EXCEPT ![t] = [Deactivated(t) EXCEPT ![v] = "active"]]
    /\ UNCHANGED built

Deactivate(t, v) ==
    /\ v \in Registered(t)
    /\ models' = [models EXCEPT ![t][v] = "inactive"]
    /\ UNCHANGED built

\* get_active_model, in the constructor of a service; 404 when there is none.
Build(s, t) ==
    /\ built[s] = None
    /\ \E v \in Active(t) : built' = [built EXCEPT ![s] = v]
    /\ UNCHANGED models

-----------------------------------------------------------------------------
Next ==
    \E t \in Types :
      \/ \E v \in Versions :
           \/ Activate(t, v)
           \/ Deactivate(t, v)
           \/ \E status \in {"active", "inactive"} : Register(t, v, status)
      \/ \E s \in Services : Build(s, t)

Spec == Init /\ [][Next]_vars

TypeOK ==
    /\ models \in [Types -> [Versions -> {"absent", "inactive", "active"}]]
    /\ built \in [Services -> Versions \cup {None}]

\* However registrations, activations and deactivations follow each other, no
\* type has two active models ("at most one ACTIVE version exists per type at
\* any time", model_registry.py).
OneActive == \A t \in Types : \A v, w \in Active(t) : v = w

-----------------------------------------------------------------------------
\* What every call keeps.
RegistryInv == TypeOK /\ OneActive

=============================================================================

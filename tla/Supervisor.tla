------------------------------ MODULE Supervisor ------------------------------
(***************************************************************************)
(* start_all.py: one container runs the API, the worker and on demand a    *)
(* Redis server as children of a supervisor, which takes all down when one *)
(* exits or a signal arrives, and kills what does not stop in time.        *)
(***************************************************************************)
EXTENDS Naturals, Sequences, SequencesExt

CONSTANTS
    Children,  \* in the order in which they are started
    Stubborn   \* those that may not stop in GRACEFUL_SHUTDOWN_SECONDS

VARIABLES
    started,   \* how many children were started
    handling,  \* are the signal handlers installed?
    child,     \* each child: "absent", "up", "stopping", "ok" or "error"
    down,      \* shutting_down
    waiting,   \* how many children the supervisor has waited for
    exit       \* its exit status

vars == <<started, handling, child, down, waiting, exit>>

Set == ToSet(Children)

\* What the values of the constants must satisfy.
ConstantsOK == Children \in Seq(Set) /\ IsInjective(Children) /\ Stubborn \subseteq Set

Alive == {c \in Set : child[c] \in {"up", "stopping"}}
Ended == {"ok", "error"}

Init ==
    /\ started = 0
    /\ handling = FALSE
    /\ child = [c \in Set |-> "absent"]
    /\ down = FALSE
    /\ waiting = 0
    /\ exit = "none"

Spawn ==
    /\ exit = "none" /\ started < Len(Children)
    /\ started' = started + 1
    /\ child' = [child EXCEPT ![Children[started + 1]] = "up"]
    /\ UNCHANGED <<handling, down, waiting, exit>>

InstallHandlers ==
    /\ exit = "none" /\ ~handling /\ started = Len(Children)
    /\ handling' = TRUE
    /\ UNCHANGED <<started, child, down, waiting, exit>>

\* Popen raises; the children that were started are left alone.
SpawnFails ==
    /\ exit = "none" /\ started < Len(Children)
    /\ exit' = "died"
    /\ UNCHANGED <<started, handling, child, down, waiting>>

\* SIGTERM to every child that is still up.
Terminated == [c \in Set |-> IF child[c] = "up" THEN "stopping" ELSE child[c]]

\* SIGTERM or SIGINT, _forward_termination; only the first one counts.
\* Before the handlers are there, it ends the supervisor and nothing else.
Signal ==
    /\ exit = "none"
    /\ IF handling
         THEN /\ ~down /\ down' = TRUE /\ child' = Terminated
              /\ UNCHANGED exit
         ELSE exit' = "died" /\ UNCHANGED <<down, child>>
    /\ UNCHANGED <<started, handling, waiting>>

\* The supervision loop finds a child that exited.
Poll ==
    /\ handling /\ ~down /\ exit = "none"
    /\ \E c \in Set : child[c] \in Ended
    /\ down' = TRUE
    /\ child' = Terminated
    /\ UNCHANGED <<started, handling, waiting, exit>>

\* A child ends by itself, or after SIGTERM.
ChildEnds(c) ==
    /\ child[c] \in {"up", "stopping"} /\ ~(child[c] = "stopping" /\ c \in Stubborn)
    /\ \E status \in Ended : child' = [child EXCEPT ![c] = status]
    /\ UNCHANGED <<started, handling, down, waiting, exit>>

\* Mutant: the children are waited for without a deadline.
Wait_Forever ==
    /\ down /\ waiting < Len(Children) /\ child[Children[waiting + 1]] \in Ended
    /\ waiting' = waiting + 1
    /\ UNCHANGED <<started, handling, down, exit, child>>

\* The children are waited for in turn; the deadline is one for all, and
\* SIGKILL shows as an error.
Wait ==
    /\ down /\ waiting < Len(Children)
    /\ LET awaited == Children[waiting + 1] IN
       \/ child[awaited] \in Ended /\ UNCHANGED child
       \/ child[awaited] \notin Ended /\ child' = [child EXCEPT ![awaited] = "error"]
    /\ waiting' = waiting + 1
    /\ UNCHANGED <<started, handling, down, exit>>

Exit ==
    /\ exit = "none" /\ down /\ waiting = Len(Children)
    /\ exit' = IF \E c \in Set : child[c] = "error" THEN "1" ELSE "0"
    /\ UNCHANGED <<started, handling, child, down, waiting>>

-----------------------------------------------------------------------------
Next ==
    \/ Spawn
    \/ SpawnFails
    \/ InstallHandlers
    \/ Signal
    \/ Poll
    \/ Wait
    \/ Exit
    \/ \E c \in Set : ChildEnds(c)

Spec == Init /\ [][Next]_vars

\* What the supervisor itself does; it runs, and its waits time out.
Supervise == Spawn \/ InstallHandlers \/ Poll \/ Wait \/ Exit

Fairness == WF_vars(Supervise)

FairSpec == Spec /\ Fairness

-----------------------------------------------------------------------------
TypeOK ==
    /\ started \in 0..Len(Children) /\ waiting \in 0..Len(Children)
    /\ child \in [Set -> {"absent", "up", "stopping"} \cup Ended]
    /\ {handling, down} \subseteq BOOLEAN
    /\ exit \in {"none", "died", "0", "1"}

\* The supervisor leaves no child behind and reports success only when every
\* child did: "a crash-loop is visible to the platform" (start_all.py:160).
\* The exceptions are a child that cannot be started and a signal before the
\* handlers are installed.
LeavesNothing ==
    exit \in {"0", "1"} => Alive = {} /\ (exit = "0" <=> \A c \in Set : child[c] = "ok")

\* When a child is gone or a signal came, the whole service ends, however
\* long a child takes.
TakesAllDown == (\E c \in Set : child[c] \in Ended) \/ down ~> exit # "none"

-----------------------------------------------------------------------------
\* Children are started one by one before the handlers are there, shutdown
\* begins only after that, and those waited for are gone.
ServiceInv ==
    /\ TypeOK
    /\ handling => started = Len(Children)
    /\ down => handling
    /\ waiting > 0 => down
    /\ \A i \in 1..waiting : child[Children[i]] \in Ended
    /\ exit \in {"0", "1"} =>
         down /\ waiting = Len(Children) /\ (exit = "0" <=> \A c \in Set : child[c] # "error")

=============================================================================

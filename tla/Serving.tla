------------------------------- MODULE Serving -------------------------------
(***************************************************************************)
(* Recommendations as the worker precomputes them and the API serves them: *)
(* an attempt indexes its product and warms the product's cache entry,     *)
(* GET /products/{id}/recommendations reads the entry or computes live.    *)
(* Nothing invalidates an entry; it expires.  Ranking is left to module    *)
(* Recommendation: here a result is the set of products it was chosen      *)
(* from.                                                                   *)
(***************************************************************************)
EXTENDS Naturals

CONSTANTS
    Products,
    Attempts,     \* worker attempts, of which a product may have several
    ProductOf,    \* the product of each attempt
    Readers,      \* requests under way at once
    None,
    TTL,          \* cache_ttl_seconds, in ticks
    WarmTime,     \* how long a warm-up takes at most
    LastTick      \* the clock stops here

\* What the values of the constants must satisfy.
ConstantsOK ==
    /\ ProductOf \in [Attempts -> Products]
    /\ TTL \in Nat \ {0}
    /\ WarmTime \in Nat
    /\ LastTick \in Nat

VARIABLES
    time,
    indexed,   \* when each product was indexed, None before
    cache,     \* recommendation_cache:{id}: its result and when it was set
    work,      \* where each attempt is
    found,     \* the result its warm-up computed, and when
    ask,       \* what each request asks for: product and kind
    pc,        \* where each request is
    answer     \* the result it gives

vars == <<time, indexed, cache, work, found, ask, pc, answer>>

\* "default": type "similar" with no top_k; "custom": any other request.
Kinds == {"default", "custom"}

Init ==
    /\ time = 0
    /\ indexed = [p \in Products |-> None]
    /\ cache = [p \in Products |-> None]
    /\ work = [a \in Attempts |-> "index"]
    /\ found = [a \in Attempts |-> None]
    /\ ask = [r \in Readers |-> None]
    /\ pc = [r \in Readers |-> "done"]
    /\ answer = [r \in Readers |-> None]

Known == {p \in Products : indexed[p] # None}

\* RecommendationEngineService.recommend; hybrid search leaves out the
\* product itself.
Recommend(p, kind) == [kind |-> kind, recs |-> Known \ {p}, at |-> time]

-----------------------------------------------------------------------------
Index(a) ==
    /\ work[a] = "index"
    /\ indexed' = [indexed EXCEPT ![ProductOf[a]] = IF @ = None THEN time ELSE @]
    /\ work' = [work EXCEPT ![a] = "warm"]
    /\ UNCHANGED <<time, cache, found, ask, pc, answer>>

WarmCompute(a) ==
    /\ work[a] = "warm"
    /\ found' = [found EXCEPT ![a] = Recommend(ProductOf[a], "default")]
    /\ work' = [work EXCEPT ![a] = "set"]
    /\ UNCHANGED <<time, indexed, cache, ask, pc, answer>>

\* Mutant: the entry is set without its expiry.
WarmSet_NoExpiry(a) ==
    /\ work[a] = "set"
    /\ cache' = [cache EXCEPT ![ProductOf[a]] =
                    [result |-> found[a], until |-> LastTick + TTL]]
    /\ work' = [work EXCEPT ![a] = "done"]
    /\ found' = [found EXCEPT ![a] = None]
    /\ UNCHANGED <<time, indexed, ask, pc, answer>>

WarmSet(a) ==
    /\ work[a] = "set"
    /\ cache' = [cache EXCEPT ![ProductOf[a]] = [result |-> found[a], until |-> time + TTL]]
    /\ work' = [work EXCEPT ![a] = "done"]
    /\ found' = [found EXCEPT ![a] = None]
    /\ UNCHANGED <<time, indexed, ask, pc, answer>>

\* Whatever fails in the warm-up is swallowed.
WarmFails(a) ==
    /\ work[a] \in {"warm", "set"}
    /\ work' = [work EXCEPT ![a] = "done"]
    /\ found' = [found EXCEPT ![a] = None]
    /\ UNCHANGED <<time, indexed, cache, ask, pc, answer>>

Request(r, p, kind) ==
    /\ pc[r] = "done"
    /\ ask' = [ask EXCEPT ![r] = <<p, kind>>]
    /\ pc' = [pc EXCEPT ![r] = "look"]
    /\ UNCHANGED <<time, indexed, cache, work, found, answer>>

\* Only a default request looks into the cache.
Look(r) ==
    /\ pc[r] = "look"
    /\ LET p == ask[r][1] IN
       IF ask[r][2] = "default" /\ cache[p] # None
         THEN /\ answer' = [answer EXCEPT ![r] = cache[p].result]
              /\ pc' = [pc EXCEPT ![r] = "answered"]
         ELSE UNCHANGED answer /\ pc' = [pc EXCEPT ![r] = "compute"]
    /\ UNCHANGED <<time, indexed, cache, work, found, ask>>

\* Live; a product that is not indexed is a 404, an answer without a result.
Compute(r) ==
    /\ pc[r] = "compute"
    /\ IF ask[r][1] \in Known
         THEN answer' = [answer EXCEPT ![r] = Recommend(ask[r][1], ask[r][2])]
         ELSE UNCHANGED answer
    /\ pc' = [pc EXCEPT ![r] = "answered"]
    /\ UNCHANGED <<time, indexed, cache, work, found, ask>>

Respond(r) ==
    /\ pc[r] = "answered"
    /\ pc' = [pc EXCEPT ![r] = "done"]
    /\ ask' = [ask EXCEPT ![r] = None]
    /\ answer' = [answer EXCEPT ![r] = None]
    /\ UNCHANGED <<time, indexed, cache, work, found>>

\* The clock; entries whose time is up are gone.  Requests are short, and a
\* warm-up takes at most WarmTime.
Tick ==
    /\ time < LastTick
    /\ \A r \in Readers : pc[r] = "done"
    /\ \A a \in Attempts : work[a] = "set" => time < found[a].at + WarmTime
    /\ time' = time + 1
    /\ cache' = [p \in Products |->
                    IF cache[p] # None /\ cache[p].until <= time + 1 THEN None ELSE cache[p]]
    /\ UNCHANGED <<indexed, work, found, ask, pc, answer>>

-----------------------------------------------------------------------------
Next ==
    \/ Tick
    \/ \E a \in Attempts : Index(a) \/ WarmCompute(a) \/ WarmSet(a) \/ WarmFails(a)
    \/ \E r \in Readers :
         \/ Look(r)
         \/ Compute(r)
         \/ Respond(r)
         \/ \E p \in Products, kind \in Kinds : Request(r, p, kind)

Spec == Init /\ [][Next]_vars

-----------------------------------------------------------------------------
TypeOK ==
    /\ time \in 0..LastTick
    /\ indexed \in [Products -> 0..LastTick \cup {None}]
    /\ \A p \in Products : cache[p] # None =>
           cache[p].result.recs \subseteq Products /\ cache[p].until \in Nat
    /\ work \in [Attempts -> {"index", "warm", "set", "done"}]
    /\ \A r \in Readers : pc[r] # "done" => ask[r] \in Products \X Kinds
    /\ pc \in [Readers -> {"done", "look", "compute", "answered"}]

\* Every answer is a possible result for what was asked: of the kind asked
\* for, without the product itself, and only products that can be resolved.
AnswersFit ==
    \A r \in Readers : answer[r] # None =>
        /\ answer[r].kind = ask[r][2]
        /\ ask[r][1] \notin answer[r].recs
        /\ answer[r].recs \subseteq Known

\* Staleness is bounded although nothing invalidates the cache and a slow
\* attempt may overwrite a newer entry: an answer misses no product that was
\* indexed longer ago than one TTL and one warm-up.
BoundedStaleness ==
    \A r \in Readers : pc[r] = "answered" /\ answer[r] # None =>
        \A p \in Known \ {ask[r][1]} :
            indexed[p] + TTL + WarmTime <= time => p \in answer[r].recs

-----------------------------------------------------------------------------
\* The results that are cached and answered.
Results == [kind : Kinds, recs : SUBSET Products, at : Nat]

\* What was computed for product p: without p, only products that are known,
\* and all those that were indexed before.
Fits(x, p) ==
    /\ x \in Results /\ p \notin x.recs /\ x.recs \subseteq Known /\ x.at <= time
    /\ \A q \in Known \ {p} : indexed[q] < x.at => q \in x.recs

\* Types with the fields of a result.
ServTyped ==
    /\ time \in 0..LastTick
    /\ indexed \in [Products -> 0..LastTick \cup {None}]
    /\ cache \in [Products -> [result : Results, until : Nat] \cup {None}]
    /\ found \in [Attempts -> Results \cup {None}]
    /\ work \in [Attempts -> {"index", "warm", "set", "done"}]
    /\ pc \in [Readers -> {"done", "look", "compute", "answered"}]
    /\ ask \in [Readers -> (Products \X Kinds) \cup {None}]
    /\ answer \in [Readers -> Results \cup {None}]

\* What is cached, about to be cached or answered fits the product and is not
\* older than its place allows.
ServInv ==
    /\ ServTyped
    /\ \A p \in Known : indexed[p] <= time
    /\ \A a \in Attempts : work[a] = "set" =>
         /\ Fits(found[a], ProductOf[a]) /\ found[a].kind = "default"
         /\ time <= found[a].at + WarmTime
    /\ \A p \in Products : cache[p] # None =>
         /\ Fits(cache[p].result, p) /\ cache[p].result.kind = "default"
         /\ time < cache[p].until /\ cache[p].until <= cache[p].result.at + WarmTime + TTL
    /\ \A r \in Readers : pc[r] # "done" => ask[r] \in Products \X Kinds
    /\ \A r \in Readers : pc[r] # "answered" => answer[r] = None
    /\ \A r \in Readers : answer[r] # None =>
         /\ Fits(answer[r], ask[r][1]) /\ answer[r].kind = ask[r][2]
         /\ time < answer[r].at + WarmTime + TTL

=============================================================================

------------------------------- MODULE Cascade -------------------------------
(***************************************************************************)
(* A primary model with secondary classifiers: CascadeRouter counts the    *)
(* detections that trigger a classifier, registers the result with the     *)
(* ResultMerger, and sends one crop per detection to the secondary         *)
(* workers; AttributePublisher brings their answers back.  The merger      *)
(* publishes a result when all its answers are there, or when a worker     *)
(* looks for expired entries after routing another frame.                  *)
(*                                                                         *)
(* Entries are found again by stream id and capture time.                  *)
(***************************************************************************)
EXTENDS Integers, FiniteSets

CONSTANTS
    Results,    \* primary results, one per frame (or tile of a frame)
    KeyOf,      \* result -> stream_id ":" frame_ts
    Primaries,  \* threads of the primary worker group
    MaxCrops    \* bound: detections that trigger a classifier

VARIABLES
    crops,      \* result -> crops counted for it, -1 before it is routed
    pending,    \* pending_: key -> [result, got, late] for the keys present
    busy,       \* threads that are routing a result
    routing,    \* thread -> crops it has still to send
    asked,      \* crops with the secondary workers: [result, idx]
    published   \* [result, got, late] handed to the publisher

cascadeVars == <<crops, pending, busy, routing, asked, published>>

\* The crops of result r when n detections trigger.
CropsOf(r, n) == {[result |-> r, idx |-> i] : i \in 1..n}

CascadeInit ==
    /\ crops = [r \in Results |-> -1]
    /\ pending = <<>>
    /\ busy = {}
    /\ routing = [w \in Primaries |-> {}]
    /\ asked = {}
    /\ published = {}

-----------------------------------------------------------------------------
\* m without the keys in K.
Without(m, K) == [k \in DOMAIN m \ K |-> m[k]]

\* ResultMerger::registerPrimary.  A result without crops is published at
\* once; emplace leaves an entry of the same key in place.
registerPrimary(r, n) ==
    LET entry == [result |-> r, got |-> {}, late |-> FALSE] IN
    IF n = 0
    THEN published' = published \cup {entry} /\ UNCHANGED pending
    ELSE /\ pending' = [k \in DOMAIN pending \cup {KeyOf[r]} |->
                           IF k \in DOMAIN pending THEN pending[k] ELSE entry]
         /\ UNCHANGED published

\* CascadeRouter::route up to the dispatch: everything is counted and
\* registered before any crop is sent.
Route(w, r, n) ==
    /\ w \notin busy
    /\ crops[r] = -1
    /\ busy' = busy \cup {w}
    /\ crops' = [crops EXCEPT ![r] = n]
    /\ registerPrimary(r, n)
    /\ routing' = [routing EXCEPT ![w] = CropsOf(r, n)]
    /\ UNCHANGED asked

\* The dispatch loop sends the next crop to a secondary group.
Dispatch(w) ==
    /\ \E c \in routing[w] :
         /\ \A d \in routing[w] : c.idx <= d.idx
         /\ routing' = [routing EXCEPT ![w] = @ \ {c}]
         /\ asked' = asked \cup {c}
    /\ UNCHANGED <<crops, pending, busy, published>>

\* Mutant: expired entries are published and kept.
FlushKeepsEntries(w) ==
    /\ w \in busy /\ routing[w] = {}
    /\ busy' = busy \ {w}
    /\ published' = published \cup {pending[k] : k \in {q \in DOMAIN pending : pending[q].late}}
    /\ UNCHANGED <<crops, pending, routing, asked>>

\* After its frame the thread calls flushExpired: every overdue entry is
\* published with what it has.
FlushExpired(w) ==
    LET overdue == {k \in DOMAIN pending : pending[k].late} IN
    /\ w \in busy /\ routing[w] = {}
    /\ busy' = busy \ {w}
    /\ published' = published \cup {pending[k] : k \in overdue}
    /\ pending' = Without(pending, overdue)
    /\ UNCHANGED <<crops, routing, asked>>

\* AttributePublisher::publish and ResultMerger::addAttribute: an answer
\* whose entry is gone is dropped; the last one expected publishes.
AddAttribute(c) ==
    LET k == KeyOf[c.result] IN
    /\ c \in asked
    /\ asked' = asked \ {c}
    /\ IF k \notin DOMAIN pending THEN UNCHANGED <<pending, published>>
       ELSE LET e == [pending[k] EXCEPT !.got = @ \cup {c}] IN
            IF Cardinality(e.got) >= crops[e.result]
            THEN published' = published \cup {e} /\ pending' = Without(pending, {k})
            ELSE pending' = [pending EXCEPT ![k] = e] /\ UNCHANGED published
    /\ UNCHANGED <<crops, busy, routing>>

\* A crop is dropped by a full queue, a fault or an exception of a worker.
LoseCrop(c) ==
    /\ c \in asked
    /\ asked' = asked \ {c}
    /\ UNCHANGED <<crops, pending, busy, routing, published>>

\* max_wait_ms passes for an entry.
DeadlinePasses(k) ==
    /\ ~pending[k].late
    /\ pending' = [pending EXCEPT ![k].late = TRUE]
    /\ UNCHANGED <<crops, busy, routing, asked, published>>

CascadeNext ==
    \/ \E w \in Primaries :
         \/ \E r \in Results, n \in 0..MaxCrops : Route(w, r, n)
         \/ Dispatch(w) \/ FlushExpired(w)
    \/ \E c \in asked : AddAttribute(c) \/ LoseCrop(c)
    \/ \E k \in DOMAIN pending : DeadlinePasses(k)

-----------------------------------------------------------------------------
\* A routed result waits or has been published, never both and never
\* neither; it goes out with answers to its own crops only, and with all of
\* them unless its deadline had passed: through answers that come late, out
\* of order or not at all, and results routed by several threads.
MergeIsExact ==
    LET waiting == {pending[k] : k \in DOMAIN pending}
        routed  == {r \in Results : crops[r] >= 0}
    IN  /\ {e.result : e \in waiting \cup published} = routed
        /\ {e.result : e \in waiting} \cap {e.result : e \in published} = {}
        /\ \A e \in published :
             /\ e.got \subseteq CropsOf(e.result, crops[e.result])
             /\ e.late \/ Cardinality(e.got) = crops[e.result]
=============================================================================

----------------------------- MODULE RateLimiter -----------------------------
(***************************************************************************)
(* The rate limit of the routers: enforce_request_rate_limit and            *)
(* rate_limiter of app/shared/rate_limit.py over the counter                *)
(* rate_limit:{key} of app/shared/session/repository.py.                    *)
(*                                                                         *)
(* One action is one Valkey command (INCR, EXPIRE, TTL) with the code up to *)
(* the next await.  Time advances in ticks of a second; the past is kept by *)
(* age, so that no clock grows.                                             *)
(***************************************************************************)
EXTENDS Naturals, FiniteSets

CONSTANTS
    Subject,       \* the rate-limit keys: scope and account or address
    Caller,        \* slots for requests in flight
    MaxRequests,   \* _MAX_REQUESTS, or max_requests of the factory
    Window,        \* _WINDOW_SECONDS, or window_seconds, in ticks
    Crashes,       \* whether a request may die between two commands
    Prompt,        \* whether INCR and EXPIRE fall in the same tick
    Unset

ASSUME LimitAssumption ==
    /\ MaxRequests \in Nat \ {0}
    /\ Window \in Nat \ {0}
    /\ Crashes \in BOOLEAN
    /\ Prompt \in BOOLEAN
    /\ Unset \notin Subject
    /\ Unset \notin Nat
    /\ Unset \notin [n : Nat, ttl : Nat \cup {Unset}]

VARIABLES
    counter,   \* counter[k]: [n, ttl], Unset when the key does not exist
    call,      \* the request of each slot
    admitted,  \* history: admitted[k][a]: requests admitted a ticks ago
    orphaned   \* history: the keys whose EXPIRE was lost

limiterVars == <<counter, call, admitted, orphaned>>

Age == 0 .. Window - 1

\* Counts above the limit are all alike: they stop at Cap.
Cap == MaxRequests + 1

Capped(n) == IF n > Cap THEN Cap ELSE n

Stage == {"idle", "incr", "expire", "ttl", "reply"}
CallState == [pc : Stage, key : Subject \cup {Unset}, status : {"none", "200", "429"},
              retry : 0 .. Window]

LimiterTypeOK ==
    /\ counter \in [Subject -> [n : 1 .. Cap, ttl : 1 .. Window \cup {Unset}] \cup {Unset}]
    /\ call \in [Caller -> CallState]
    /\ admitted \in [Subject -> [Age -> 0 .. 2 * MaxRequests]]
    /\ orphaned \subseteq Subject

CallAt(pc, key, status, retry) ==
    [pc |-> pc, key |-> key, status |-> status, retry |-> retry]

NoCall == CallAt("idle", Unset, "none", 0)

LimiterInit ==
    /\ counter = [k \in Subject |-> Unset]
    /\ call = [o \in Caller |-> NoCall]
    /\ admitted = [k \in Subject |-> [a \in Age |-> 0]]
    /\ orphaned = {}

Admit(o) ==
    /\ call' = [call EXCEPT ![o] = CallAt("reply", call[o].key, "200", 0)]
    /\ admitted' = [admitted EXCEPT ![call[o].key][0] = @ + 1]

Proceed(o, pc) ==
    /\ call' = [call EXCEPT ![o] = CallAt(pc, call[o].key, "none", 0)]
    /\ UNCHANGED admitted

\* A request reaches the dependency; build_rate_limit_key gives its key.
Arrive(o) ==
    /\ call[o].pc = "idle"
    /\ \E k \in Subject : call' = [call EXCEPT ![o] = CallAt("incr", k, "none", 0)]
    /\ UNCHANGED <<counter, admitted, orphaned>>

\* INCR keeps the TTL of the key; a new key has none.
Incremented(k) ==
    IF counter[k] = Unset THEN [n |-> 1, ttl |-> Unset]
    ELSE [n |-> Capped(counter[k].n + 1), ttl |-> counter[k].ttl]

Count(k) ==
    /\ counter' = [counter EXCEPT ![k] = Incremented(k)]
    /\ UNCHANGED orphaned

\* A limit that lets one request too many through.
Incr_OffByOne(o) ==
    LET k == call[o].key
        n == Incremented(k).n
    IN  /\ call[o].pc = "incr"
        /\ Count(k)
        /\ \/ n = 1 /\ Proceed(o, "expire")
           \/ n > 1 /\ n <= MaxRequests + 1 /\ Admit(o)

\* An EXPIRE after every INCR, which moves the window along.
Incr_ExpireEachTime(o) ==
    LET k == call[o].key
        n == Incremented(k).n
    IN  /\ call[o].pc = "incr"
        /\ Count(k)
        /\ Proceed(o, "expire")

\* increment_rate_limit up to its EXPIRE, and the comparison with the limit.
\* MaxRequests is at least 1, so the first request is always admitted.
Incr(o) ==
    LET k == call[o].key
        n == Incremented(k).n
    IN  /\ call[o].pc = "incr"
        /\ Count(k)
        /\ \/ n = 1 /\ Proceed(o, "expire")
           \/ n > 1 /\ n <= MaxRequests /\ Admit(o)
           \/ n > MaxRequests /\ Proceed(o, "ttl")

\* The TTL given in the wrong unit.
Expire_Longer(o) ==
    LET k == call[o].key
    IN  /\ call[o].pc = "expire"
        /\ counter' = [counter EXCEPT ![k] = IF @ = Unset THEN Unset
                                             ELSE [n |-> @.n, ttl |-> Window + 1]]
        /\ Admit(o)
        /\ UNCHANGED orphaned

\* EXPIRE of the first request; it does nothing to a key that is gone.
Expire(o) ==
    LET k == call[o].key
    IN  /\ call[o].pc = "expire"
        /\ counter' = [counter EXCEPT ![k] = IF @ = Unset THEN Unset
                                             ELSE [n |-> @.n, ttl |-> Window]]
        /\ Admit(o)
        /\ UNCHANGED orphaned

\* TTL is negative when the key is gone or has no TTL: get_rate_limit_ttl
\* makes it 0 and the exception says at least 1.
Deny(o) ==
    LET c == counter[call[o].key]
    IN  /\ call[o].pc = "ttl"
        /\ call' = [call EXCEPT ![o] = CallAt("reply", call[o].key, "429",
                    IF c = Unset THEN 1 ELSE IF c.ttl = Unset THEN 1 ELSE c.ttl)]
        /\ UNCHANGED <<counter, admitted, orphaned>>

Respond(o) ==
    /\ call[o].pc = "reply"
    /\ call' = [call EXCEPT ![o] = NoCall]
    /\ UNCHANGED <<counter, admitted, orphaned>>

\* The worker dies, or the command raises and the request ends with a 500.
Crash(o) ==
    /\ Crashes
    /\ call[o].pc \in {"incr", "expire", "ttl"}
    /\ call' = [call EXCEPT ![o] = NoCall]
    /\ orphaned' = IF call[o].pc = "expire" THEN orphaned \cup {call[o].key} ELSE orphaned
    /\ UNCHANGED <<counter, admitted>>

\* A second passes: the past grows older, and keys with a TTL come closer to
\* their end.
Older(past) == [a \in Age |-> IF a = 0 THEN 0 ELSE past[a - 1]]

Aged(c) ==
    IF c = Unset THEN Unset
    ELSE IF c.ttl = Unset THEN c
    ELSE IF c.ttl = 1 THEN Unset
    ELSE [n |-> c.n, ttl |-> c.ttl - 1]

Tick ==
    /\ Prompt => \A o \in Caller : call[o].pc # "expire"
    /\ counter' = [k \in Subject |-> Aged(counter[k])]
    /\ admitted' = [k \in Subject |-> Older(admitted[k])]
    /\ UNCHANGED <<call, orphaned>>

Handle(o) == Incr(o) \/ Expire(o) \/ Deny(o) \/ Respond(o)

LimiterNext ==
    \/ \E o \in Caller : Arrive(o) \/ Handle(o) \/ Crash(o)
    \/ Tick

LimiterSpec == LimiterInit /\ [][LimiterNext]_limiterVars

\* Time passes and the event loop runs every handler it has started.
Fairness == WF_limiterVars(Tick) /\ \A o \in Caller : WF_limiterVars(Handle(o))

FairSpec == LimiterSpec /\ Fairness

-----------------------------------------------------------------------------
(* Properties *)

\* The requests of the last d ticks, each with its age and its number among those
\* of that age.
Recent(past, d) == UNION {{a} \X (1 .. past[a]) : a \in {b \in Age : b < d}}

Total(past) == Cardinality(Recent(past, Window))

\* The windows are fixed, so two of them may touch: within any Window seconds
\* fewer than twice MaxRequests requests get through, whatever the requests in
\* flight, the delays and the crashes (increment_rate_limit).
LessThanTwice == \A k \in Subject : Total(admitted[k]) < 2 * MaxRequests

Limited(k) == counter[k] # Unset /\ counter[k].n > MaxRequests

\* A subject over the limit is let in again, even if it never stops asking:
\* only the first request of a window sets its end (increment_rate_limit,
\* "if count == 1").  A counter that lost its EXPIRE has no end.
Unblocks ==
    \A k \in Subject : Limited(k) ~> (~Limited(k) \/ k \in orphaned)
=============================================================================

------------------------------ MODULE Telemetry ------------------------------
(***************************************************************************)
(* Device telemetry: the MQTT bridge each worker process starts            *)
(* (app/services/mqtt_bridge.py, started and cancelled by lifespan in      *)
(* app/main.py), the endpoint that takes a point over HTTP, and the        *)
(* collection both write (app/domain/telemetry/repository.py) and a range  *)
(* query reads.                                                            *)
(*                                                                         *)
(* The broker is external: a subscription is QoS 0 over a clean session,   *)
(* so a message reaches the workers that are subscribed when it is         *)
(* published, once each, and nobody else.  The device a topic names is     *)
(* abstracted away; the payload to the way the loop treats it.             *)
(***************************************************************************)
EXTENDS Integers, Sequences, FiniteSets

CONSTANTS
    Worker,    \* the uvicorn processes
    Message,   \* the payloads the devices send; each is sent once
    SortOf,    \* SortOf[m]: how the loop treats m, see Sort
    At,        \* At[w]: the half second w takes its points in
    Bound,     \* the half seconds a query names as a bound
    FirstDelay, MaxDelay,   \* 5 and 60 seconds
    None

\* "good" is a JSON object; "garbage" is skipped by one of the two continues:
\* the topic has no UUID, or the payload is no JSON; "poison" is JSON that is
\* no object, or whose _service_id is no string, so that an exception other
\* than the expected ones is raised.
Sort == {"good", "garbage", "poison"}

ASSUME TelemetryAssumption ==
    /\ SortOf \in [Message -> Sort]
    /\ At \in [Worker -> Nat]
    /\ Bound \subseteq Nat
    /\ FirstDelay \in Nat \ {0}
    /\ MaxDelay \in Nat
    /\ FirstDelay <= MaxDelay
    /\ None \notin Message

VARIABLES
    app,    \* app[w]: the life of the process, driven by lifespan, see Life
    mongo,  \* mongo[w]: whether the process has an open Motor client
    link,   \* link[w]: where the bridge task is, see Link
    online, \* online[w]: whether the connection of the bridge is alive
    delay,  \* delay[w]: reconnect_delay
    inbox,  \* inbox[w]: the queue of aiomqtt's client
    hand,   \* hand[w]: the point being inserted
    reach,  \* reach[w]: whether the broker can be reached from w
    sent,   \* the messages that have been published or posted
    points  \* the collection; id is the ObjectId of the document

bridge == <<link, online, delay, inbox, hand>>

vars == <<app, mongo, link, online, delay, inbox, hand, reach, sent, points>>

\* "waiting" is a shutdown that awaits a task that goes on.
Life == {"off", "running", "stopping", "waiting"}

\* "joined" is connected and not subscribed yet; "backoff" and "paused" are
\* the sleeps of the handler of MqttError and of any other exception.
Link == {"off", "connecting", "joined", "subscribed", "storing", "backoff",
         "paused", "ended"}

Point == [id : Nat, message : Message, by : Worker \cup {None}, at : Nat]

-----------------------------------------------------------------------------
(* The retry schedule.                                                     *)

Smaller(m, n) == IF m <= n THEN m ELSE n

\* The cap forgotten.
NextDelay_Uncapped(d) == 2 * d

NextDelay(d) == Smaller(2 * d, MaxDelay)

Doubles(w) == IF link[w] = "backoff" THEN NextDelay(delay[w]) ELSE delay[w]

-----------------------------------------------------------------------------
(* The range query.  insert stores the instant as pydantic prints it, in   *)
(* UTC, without the fraction when it is zero and with a Z; the bounds are   *)
(* printed by isoformat, in their own offset and with that offset.  Mongo  *)
(* compares the two texts: the wall-clock second, then the characters      *)
(* that follow it, where "+" < "." < "Z".                                  *)

Second(t) == t \div 2

Whole(t) == t % 2 = 0

\* A point stamped with a local time.
Stamp_LocalTime(t) == 4 * (Second(t) + 1) + 2

Stamp(t) == 4 * Second(t) + (IF Whole(t) THEN 3 ELSE 2)

Isoformat(t, offset) == 4 * (Second(t) + offset) + (IF Whole(t) THEN 0 ELSE 1)

InRange(t, since, until, offset) ==
    /\ Stamp(t) >= Isoformat(since, offset)
    /\ Stamp(t) <= Isoformat(until, offset)

get_telemetry(since, until, offset) ==
    {p \in points : InRange(p.at, since, until, offset)}

-----------------------------------------------------------------------------
(* The life of a worker process.                                           *)

Init ==
    /\ app = [w \in Worker |-> "off"]
    /\ mongo = [w \in Worker |-> FALSE]
    /\ link = [w \in Worker |-> "off"]
    /\ online = [w \in Worker |-> FALSE]
    /\ delay = [w \in Worker |-> FirstDelay]
    /\ inbox = [w \in Worker |-> <<>>]
    /\ hand = [w \in Worker |-> None]
    /\ reach = [w \in Worker |-> TRUE]
    /\ sent = {}
    /\ points = {}

\* The bridge of w goes to the state l with the connection closed: leaving
\* the async with drops the queue of the client with it.
Disconnected(w, l) ==
    /\ link' = [link EXCEPT ![w] = l]
    /\ online' = [online EXCEPT ![w] = FALSE]
    /\ inbox' = [inbox EXCEPT ![w] = <<>>]
    /\ hand' = [hand EXCEPT ![w] = None]

Insert(m, by, at) ==
    points' = points \cup
        {[id |-> Cardinality(points) + 1, message |-> m, by |-> by, at |-> at]}

\* insert_one of the point in hand may still take effect when the task that
\* awaits it is cancelled or its process dies.
InFlight(w) ==
    \/ UNCHANGED points
    \/ hand[w] # None /\ Insert(hand[w], w, At[w])

\* ensure_indexes makes the client, and fails quietly when MongoDB is down.
Start(w) ==
    /\ app[w] = "off"
    /\ app' = [app EXCEPT ![w] = "running"]
    /\ mongo' = [mongo EXCEPT ![w] = TRUE]
    /\ link' = [link EXCEPT ![w] = "connecting"]
    /\ delay' = [delay EXCEPT ![w] = FirstDelay]
    /\ UNCHANGED <<online, inbox, hand, reach, sent, points>>

Stop(w) ==
    /\ app[w] = "running"
    /\ app' = [app EXCEPT ![w] = "stopping"]
    /\ UNCHANGED <<mongo, bridge, reach, sent, points>>

\* The CancelledError ends the task wherever it waits: caught in the loop, or,
\* out of one of the two sleeps, by lifespan.
Cancelled(w) ==
    /\ app[w] = "stopping"
    /\ link[w] # "ended"
    /\ Disconnected(w, "ended")
    /\ InFlight(w)
    /\ UNCHANGED <<app, mongo, delay, reach, sent>>

\* The connection was lost: leaving the async with raises the MqttError of that
\* in place of the CancelledError, and the loop goes on.  lifespan awaits the
\* task, which nothing cancels again.
Swallowed(w) ==
    /\ app[w] = "stopping"
    /\ link[w] \in {"joined", "subscribed", "storing"}
    /\ ~online[w]
    /\ app' = [app EXCEPT ![w] = "waiting"]
    /\ Disconnected(w, "backoff")
    /\ InFlight(w)
    /\ UNCHANGED <<mongo, delay, reach, sent>>

\* lifespan awaits the task before it closes the client.
Awaited(w) == link[w] = "ended"

CloseMongo(w) ==
    /\ app[w] = "stopping"
    /\ Awaited(w)
    /\ app' = [app EXCEPT ![w] = "off"]
    /\ mongo' = [mongo EXCEPT ![w] = FALSE]
    /\ UNCHANGED <<bridge, reach, sent, points>>

Crash(w) ==
    /\ app[w] # "off"
    /\ app' = [app EXCEPT ![w] = "off"]
    /\ mongo' = [mongo EXCEPT ![w] = FALSE]
    /\ Disconnected(w, "off")
    /\ InFlight(w)
    /\ UNCHANGED <<delay, reach, sent>>

-----------------------------------------------------------------------------
(* The loop of run_bridge.                                                 *)

Running(w, l) == app[w] \in {"running", "waiting"} /\ link[w] = l

Connect(w) ==
    /\ Running(w, "connecting")
    /\ reach[w]
    /\ link' = [link EXCEPT ![w] = "joined"]
    /\ online' = [online EXCEPT ![w] = TRUE]
    /\ delay' = [delay EXCEPT ![w] = FirstDelay]
    /\ UNCHANGED <<app, mongo, inbox, hand, reach, sent, points>>

Subscribe(w) ==
    /\ Running(w, "joined")
    /\ online[w]
    /\ link' = [link EXCEPT ![w] = "subscribed"]
    /\ UNCHANGED <<app, mongo, online, delay, inbox, hand, reach, sent, points>>

\* MqttError: no connection, no subscription, or the connection was lost and
\* the queue is not read any further.
Broken(w) ==
    \/ Running(w, "connecting") /\ ~reach[w]
    \/ Running(w, "joined") /\ ~online[w]
    \/ Running(w, "subscribed") /\ ~online[w]

MqttError(w) ==
    /\ Broken(w)
    /\ Disconnected(w, "backoff")
    /\ UNCHANGED <<app, mongo, delay, reach, sent, points>>

\* The exception ends the task.
Unexpected_Ends(w) == "ended"

\* Where the task goes on an exception that is no MqttError.
Unexpected(w) == "paused"

\* One message of the queue, up to the insertion.
Receive(w) ==
    /\ Running(w, "subscribed")
    /\ inbox[w] # <<>>
    /\ LET m == Head(inbox[w]) IN
         CASE SortOf[m] = "good" ->
                /\ link' = [link EXCEPT ![w] = "storing"]
                /\ hand' = [hand EXCEPT ![w] = m]
                /\ inbox' = [inbox EXCEPT ![w] = Tail(@)]
                /\ UNCHANGED online
           [] SortOf[m] = "garbage" ->
                /\ inbox' = [inbox EXCEPT ![w] = Tail(@)]
                /\ UNCHANGED <<link, online, hand>>
           [] SortOf[m] = "poison" -> Disconnected(w, Unexpected(w))
    /\ UNCHANGED <<app, mongo, delay, reach, sent, points>>

\* insert_one returns.
Stored(w) ==
    /\ Running(w, "storing")
    /\ Insert(hand[w], w, At[w])
    /\ link' = [link EXCEPT ![w] = "subscribed"]
    /\ hand' = [hand EXCEPT ![w] = None]
    /\ UNCHANGED <<app, mongo, online, delay, inbox, reach, sent>>

\* A failed insertion tried again.
InsertFails_Retried(w) ==
    /\ Running(w, "storing")
    /\ InFlight(w)
    /\ UNCHANGED <<app, mongo, bridge, reach, sent>>

\* insert_one raises, with or without effect.
InsertFails(w) ==
    /\ Running(w, "storing")
    /\ InFlight(w)
    /\ Disconnected(w, Unexpected(w))
    /\ UNCHANGED <<app, mongo, delay, reach, sent>>

\* The sleep is over; only the one after an MqttError doubles the delay.
Wake(w) ==
    /\ Running(w, "backoff") \/ Running(w, "paused")
    /\ delay' = [delay EXCEPT ![w] = Doubles(w)]
    /\ link' = [link EXCEPT ![w] = "connecting"]
    /\ UNCHANGED <<app, mongo, online, inbox, hand, reach, sent, points>>

-----------------------------------------------------------------------------
(* The broker, the network and the devices.                                *)

Unreachable(w) ==
    /\ reach[w]
    /\ reach' = [reach EXCEPT ![w] = FALSE]
    /\ online' = [online EXCEPT ![w] = FALSE]
    /\ UNCHANGED <<app, mongo, link, delay, inbox, hand, sent, points>>

Reachable(w) ==
    /\ ~reach[w]
    /\ reach' = [reach EXCEPT ![w] = TRUE]
    /\ UNCHANGED <<app, mongo, bridge, sent, points>>

Subscribed(w) == online[w] /\ link[w] \in {"subscribed", "storing"}

Publish(m) ==
    /\ m \notin sent
    /\ sent' = sent \cup {m}
    /\ inbox' = [w \in Worker |-> IF Subscribed(w) THEN Append(inbox[w], m) ELSE inbox[w]]
    /\ UNCHANGED <<app, mongo, link, online, delay, hand, reach, points>>

\* POST /telemetry/{device_id}: the body is an object, or a 422.
Ingest(w, m) ==
    /\ app[w] = "running"
    /\ m \notin sent
    /\ SortOf[m] = "good"
    /\ sent' = sent \cup {m}
    /\ UNCHANGED points \/ Insert(m, None, At[w])
    /\ UNCHANGED <<app, mongo, bridge, reach>>

-----------------------------------------------------------------------------
Work(w) ==
    \/ Connect(w) \/ Subscribe(w) \/ MqttError(w) \/ Receive(w)
    \/ Stored(w) \/ InsertFails(w) \/ Wake(w)

Shutdown(w) == Cancelled(w) \/ Swallowed(w) \/ CloseMongo(w)

Next ==
    \/ \E w \in Worker : \/ Start(w) \/ Stop(w) \/ Shutdown(w) \/ Crash(w)
                         \/ Work(w) \/ Unreachable(w) \/ Reachable(w)
    \/ \E m \in Message : Publish(m) \/ \E w \in Worker : Ingest(w, m)

Spec == Init /\ [][Next]_vars

\* The event loop runs a task that is ready, and a sleep ends.
FairSpec == Spec /\ \A w \in Worker : WF_vars(Work(w))

-----------------------------------------------------------------------------
(* Properties.                                                             *)

\* The variables have their types: the delay stays on its schedule, and
\* documents have ids of their own.
TypeOK ==
    /\ app \in [Worker -> Life]
    /\ mongo \in [Worker -> BOOLEAN]
    /\ link \in [Worker -> Link]
    /\ online \in [Worker -> BOOLEAN]
    /\ delay \in [Worker -> FirstDelay .. MaxDelay]
    /\ inbox \in [Worker -> Seq(Message)]
    /\ hand \in [Worker -> Message \cup {None}]
    /\ reach \in [Worker -> BOOLEAN]
    /\ sent \subseteq Message
    /\ points \subseteq Point

\* Through lost connections, failed insertions, cancellations and restarts a
\* worker stores a message at most once: nothing it retries was already done.
\* (Two workers that are subscribed store it twice: they do not know of each
\* other.)
OncePerWorker ==
    \A p, q \in points : p.message = q.message /\ p.by = q.by => p.id = q.id

\* A query whose bounds are written in UTC returns every point of a second
\* strictly between those of the bounds, and none of a second outside: the
\* comparison of the texts is one of the instants, up to the fractions.
RangeInUTC ==
    \A since, until \in Bound :
        LET found == get_telemetry(since, until, 0) IN
        /\ \A p \in points :
             Second(since) < Second(p.at) /\ Second(p.at) < Second(until) => p \in found
        /\ \A p \in found :
             Second(since) <= Second(p.at) /\ Second(p.at) <= Second(until)

\* A worker that keeps running and from some time on reaches the broker gets
\* back to its subscription every time, whatever was published or failed.
Resumes ==
    \A w \in Worker :
        <>[](app[w] = "running" /\ reach[w]) => []<>(link[w] = "subscribed")
=============================================================================

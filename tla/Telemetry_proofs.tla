------------------------- MODULE Telemetry_proofs -------------------------
(***************************************************************************)
(* Theorems about Telemetry for every set of workers and of messages, every *)
(* retry schedule, every instant a worker takes a point in, and every bound. *)
(***************************************************************************)
EXTENDS Telemetry, TLAPS, FiniteSetTheorems, SequenceTheorems

\* Documents have ids of their own: the next one is larger than all of them.
Numbered ==
    /\ IsFiniteSet(points)
    /\ \A p \in points : p.id <= Cardinality(points)
    /\ \A p, q \in points : p.id = q.id => p = q

\* A worker has stored a message in one document.
OneDocument == \A p, q \in points : p.message = q.message /\ p.by = q.by => p = q

Stock ==
    /\ points \subseteq Point
    /\ Numbered
    /\ OneDocument
    /\ \A p \in points : p.message \in sent

\* A message on its way to the collection: the worker has not stored it.
Owed(w, m) ==
    /\ m \in sent
    /\ \A p \in points : p.by = w => p.message # m

Due(w) ==
    /\ \A i \in DOMAIN inbox[w] : Owed(w, inbox[w][i])
    /\ \A i \in DOMAIN inbox[w] : inbox[w][i] # hand[w]
    /\ \A i, j \in DOMAIN inbox[w] : inbox[w][i] = inbox[w][j] => i = j
    /\ hand[w] # None => Owed(w, hand[w])
    /\ link[w] = "storing" => hand[w] # None

Inductive ==
    /\ TypeOK
    /\ Stock
    /\ \A w \in Worker : Due(w)

-----------------------------------------------------------------------------
(* The collection *)

\* What a step may add to the collection: documents of one writer and message.
Adds(by, m) == \A p \in points' : p \in points \/ (p.by = by /\ p.message = m)

LEMMA InsertKeeps ==
    ASSUME Inductive, NEW m \in Message, NEW by \in Worker \cup {None}, NEW at \in Nat,
           Insert(m, by, at), sent \subseteq sent', m \in sent',
           \A p \in points : p.by = by => p.message # m
    PROVE  Stock' /\ Adds(by, m)
<1> DEFINE new == [id |-> Cardinality(points) + 1, message |-> m, by |-> by, at |-> at]
<1>1. points \subseteq Point /\ Numbered /\ OneDocument /\ \A p \in points : p.message \in sent
  BY DEF Inductive, Stock
<1>2. Cardinality(points) \in Nat
  BY <1>1, FS_CardinalityType DEF Numbered
<1>3. points' = points \cup {new}
  BY DEF Insert
<1>4. /\ new \in Point /\ new.id = Cardinality(points) + 1
      /\ new.message = m /\ new.by = by
  BY <1>2 DEF Point
<1> HIDE DEF new
<1>5. \A p \in points : p.id \in Nat /\ p.id < new.id
  BY <1>1, <1>2, <1>4 DEF Numbered, Point
<1>6. new \notin points
  BY <1>4, <1>5, <1>2
<1>7. IsFiniteSet(points') /\ Cardinality(points') = Cardinality(points) + 1
  BY <1>1, <1>3, <1>6, FS_AddElement DEF Numbered
<1>8. Numbered'
  <2>1. \A p \in points' : p.id <= Cardinality(points) + 1
    BY <1>2, <1>3, <1>4, <1>5
  <2>2. \A p, q \in points' : p.id = q.id => p = q
    <3>1. \A p \in points : p.id # new.id
      BY <1>2, <1>4, <1>5
    <3> QED BY <1>1, <1>3, <3>1 DEF Numbered
  <2> QED BY <1>7, <2>1, <2>2 DEF Numbered
<1>9. OneDocument'
  BY <1>1, <1>3, <1>4 DEF OneDocument
<1>10. Adds(by, m)
  BY <1>3, <1>4 DEF Adds
<1> QED BY <1>1, <1>3, <1>4, <1>8, <1>9, <1>10 DEF Stock

LEMMA NothingInserted ==
    ASSUME Inductive, points' = points, sent \subseteq sent'
    PROVE  Stock'
BY DEF Inductive, Stock, Numbered, OneDocument

LEMMA HandKeeps ==
    ASSUME Inductive, NEW w \in Worker, hand[w] # None, Insert(hand[w], w, At[w]), sent' = sent
    PROVE  Stock' /\ \A p \in points' : p \in points \/ p.by = w
<1>1. hand[w] \in Message /\ At[w] \in Nat
  BY TelemetryAssumption DEF Inductive, TypeOK
<1>2. Owed(w, hand[w])
  BY DEF Inductive, Due
<1>3. PICK m \in Message : m = hand[w]
  BY <1>1
<1>4. Stock' /\ Adds(w, m)
  BY <1>1, <1>2, <1>3, InsertKeeps DEF Owed
<1> QED BY <1>4 DEF Adds

LEMMA InFlightKeeps ==
    ASSUME Inductive, NEW w \in Worker, InFlight(w), sent' = sent
    PROVE  Stock' /\ \A p \in points' : p \in points \/ p.by = w
BY HandKeeps, NothingInserted DEF InFlight

-----------------------------------------------------------------------------
(* Messages on their way *)

\* A bridge that a step does not advance still owes what it owed.
LEMMA OthersDue ==
    ASSUME NEW v \in Worker, Due(v), inbox'[v] = inbox[v], hand'[v] = hand[v],
           link'[v] = link[v] \/ link'[v] # "storing", sent \subseteq sent',
           \A p \in points' : p \in points \/ p.by # v \/ p.message \notin sent
    PROVE  Due(v)'
<1>1. ASSUME NEW m, Owed(v, m)
      PROVE  Owed(v, m)'
  BY <1>1 DEF Owed
<1>2. \A i \in DOMAIN inbox[v] : Owed(v, inbox[v][i])'
  BY <1>1 DEF Due, Owed
<1>3. hand[v] # None => Owed(v, hand[v])'
  BY <1>1 DEF Due, Owed
<1> QED BY <1>2, <1>3 DEF Due, Owed

\* Leaving the connection drops the queue and the point in hand.
LEMMA DroppedDue ==
    ASSUME TypeOK, NEW w \in Worker, NEW l \in Link, Disconnected(w, l), l # "storing"
    PROVE  /\ link' \in [Worker -> Link] /\ online' \in [Worker -> BOOLEAN]
           /\ inbox' \in [Worker -> Seq(Message)] /\ hand' \in [Worker -> Message \cup {None}]
           /\ \A v \in Worker : v # w =>
                  link'[v] = link[v] /\ inbox'[v] = inbox[v] /\ hand'[v] = hand[v]
           /\ Due(w)'
<1>1. link'[w] = l /\ inbox'[w] = <<>> /\ hand'[w] = None
  BY DEF TypeOK, Disconnected
<1>2. Due(w)'
  BY <1>1 DEF Due
<1>3. \A v \in Worker : v # w =>
          link'[v] = link[v] /\ inbox'[v] = inbox[v] /\ hand'[v] = hand[v]
  BY DEF TypeOK, Disconnected
<1>4. <<>> \in Seq(Message)
  BY EmptySeq
<1> QED BY <1>2, <1>3, <1>4 DEF TypeOK, Disconnected

\* A step that ends with the bridge of w disconnected.
LEMMA DropStep ==
    ASSUME Inductive, NEW w \in Worker, NEW l \in Link, Disconnected(w, l), l # "storing",
           InFlight(w), app' \in [Worker -> Life],
           mongo' \in [Worker -> BOOLEAN], UNCHANGED <<delay, reach, sent>>
    PROVE  Inductive'
<1>1. TypeOK /\ \A v \in Worker : Due(v)
  BY DEF Inductive
<1>2. Stock' /\ \A p \in points' : p \in points \/ p.by = w
  BY InFlightKeeps
<1>3. TypeOK'
  BY <1>1, <1>2, DroppedDue DEF TypeOK, Stock
<1>4. Due(w)'
  BY <1>1, DroppedDue
<1>5. ASSUME NEW v \in Worker, v # w
      PROVE  Due(v)'
  BY <1>1, <1>2, <1>5, DroppedDue, OthersDue
<1> QED BY <1>2, <1>3, <1>4, <1>5 DEF Inductive

\* A step that leaves the messages where they are.
LEMMA IdleStep ==
    ASSUME Inductive, TypeOK', UNCHANGED <<inbox, hand, sent, points>>,
           \A v \in Worker : link'[v] = link[v] \/ link'[v] # "storing"
    PROVE  Inductive'
<1>1. Stock'
  BY NothingInserted
<1>2. \A v \in Worker : Due(v)'
  BY OthersDue DEF Inductive
<1> QED BY <1>1, <1>2 DEF Inductive

-----------------------------------------------------------------------------
(* Steps *)

\* The retry delay stays on its schedule.
LEMMA DelayIsBounded ==
    ASSUME NEW d \in FirstDelay .. MaxDelay
    PROVE  NextDelay(d) \in FirstDelay .. MaxDelay
BY TelemetryAssumption DEF NextDelay, Smaller

LEMMA LifeStep ==
    ASSUME Inductive, NEW w \in Worker,
           Start(w) \/ Stop(w) \/ CloseMongo(w) \/ Unreachable(w) \/ Reachable(w)
    PROVE  Inductive'
<1>1. TypeOK
  BY DEF Inductive
<1>2. CASE Start(w)
  <2>1. FirstDelay \in FirstDelay .. MaxDelay
    BY TelemetryAssumption
  <2>2. TypeOK'
    BY <1>1, <1>2, <2>1 DEF Start, TypeOK, Link, Life
  <2>3. \A v \in Worker : link'[v] = link[v] \/ link'[v] # "storing"
    BY <1>1, <1>2 DEF Start, TypeOK
  <2> QED BY <1>2, <2>2, <2>3, IdleStep DEF Start
<1>3. CASE Stop(w) \/ CloseMongo(w)
  <2>1. UNCHANGED <<link, online, delay, inbox, hand, reach, sent, points>>
    BY <1>3 DEF Stop, CloseMongo, bridge
  <2>2. /\ app' \in [Worker -> Life]
        /\ mongo' \in [Worker -> BOOLEAN]
    BY <1>1, <1>3 DEF Stop, CloseMongo, TypeOK, Life
  <2>3. TypeOK'
    BY <1>1, <2>1, <2>2 DEF TypeOK
  <2> QED BY <2>1, <2>3, IdleStep
<1>4. CASE Unreachable(w) \/ Reachable(w)
  <2>1. UNCHANGED <<app, mongo, link, delay, inbox, hand, sent, points>>
    BY <1>4 DEF Unreachable, Reachable, bridge
  <2>2. online' \in [Worker -> BOOLEAN] /\ reach' \in [Worker -> BOOLEAN]
    BY <1>1, <1>4 DEF Unreachable, Reachable, bridge, TypeOK
  <2>3. TypeOK'
    BY <1>1, <2>1, <2>2 DEF TypeOK
  <2> QED BY <2>1, <2>3, IdleStep
<1> QED BY <1>2, <1>3, <1>4

LEMMA ConnectionStep ==
    ASSUME Inductive, NEW w \in Worker, Connect(w) \/ Subscribe(w) \/ Wake(w)
    PROVE  Inductive'
<1>1. TypeOK
  BY DEF Inductive
<1>2. UNCHANGED <<app, mongo, inbox, hand, reach, sent, points>>
  BY DEF Connect, Subscribe, Wake
<1>3. link' \in [Worker -> Link] /\ online' \in [Worker -> BOOLEAN]
  BY <1>1 DEF Connect, Subscribe, Wake, TypeOK, Link
<1>4. delay' \in [Worker -> FirstDelay .. MaxDelay]
  <2>1. CASE Wake(w)
    <3>1. delay[w] \in FirstDelay .. MaxDelay
      BY <1>1 DEF TypeOK
    <3>2. Doubles(w) \in FirstDelay .. MaxDelay
      BY <3>1, DelayIsBounded DEF Doubles
    <3> QED BY <1>1, <2>1, <3>2 DEF Wake, TypeOK
  <2>2. CASE Connect(w)
    <3>1. FirstDelay \in FirstDelay .. MaxDelay
      BY TelemetryAssumption
    <3> QED BY <1>1, <2>2, <3>1 DEF Connect, TypeOK
  <2>3. CASE Subscribe(w)
    BY <1>1, <2>3 DEF Subscribe, TypeOK
  <2> QED BY <2>1, <2>2, <2>3
<1>5. TypeOK'
  BY <1>1, <1>2, <1>3, <1>4 DEF TypeOK
<1>6. \A v \in Worker : link'[v] = link[v] \/ link'[v] # "storing"
  BY <1>1 DEF Connect, Subscribe, Wake, TypeOK
<1> QED BY <1>2, <1>5, <1>6, IdleStep

\* Cancellation, crash, a lost connection and a failed insertion: the point in
\* hand may be stored, and is in no hand any more.
LEMMA FailureStep ==
    ASSUME Inductive, NEW w \in Worker,
           Cancelled(w) \/ Swallowed(w) \/ Crash(w) \/ MqttError(w) \/ InsertFails(w)
    PROVE  Inductive'
<1>1. TypeOK
  BY DEF Inductive
<1>2. CASE Cancelled(w)
  BY <1>1, <1>2, DropStep DEF Cancelled, TypeOK, Link
<1>3. CASE Crash(w)
  <2>1. /\ app' \in [Worker -> Life]
        /\ mongo' \in [Worker -> BOOLEAN]
    BY <1>1, <1>3 DEF Crash, TypeOK, Life
  <2> QED BY <1>3, <2>1, DropStep DEF Crash, Link
<1>4. CASE MqttError(w)
  BY <1>1, <1>4, DropStep DEF MqttError, InFlight, TypeOK, Link
<1>5. CASE InsertFails(w)
  BY <1>1, <1>5, DropStep DEF InsertFails, Unexpected, TypeOK, Link
<1>6. CASE Swallowed(w)
  <2>1. app' \in [Worker -> Life] /\ mongo' \in [Worker -> BOOLEAN]
    BY <1>1, <1>6 DEF Swallowed, TypeOK, Life
  <2> QED BY <1>6, <2>1, DropStep DEF Swallowed, Link
<1> QED BY <1>2, <1>3, <1>4, <1>5, <1>6

\* The head of the queue is in the hand and nowhere else in the queue.
LEMMA ReceiveStep ==
    ASSUME Inductive, NEW w \in Worker, Receive(w)
    PROVE  Inductive'
<1> DEFINE m == Head(inbox[w])
<1>1. TypeOK /\ Due(w) /\ \A v \in Worker : Due(v)
  BY DEF Inductive
<1>2. /\ inbox[w] # <<>> /\ inbox[w] \in Seq(Message)
      /\ link[w] = "subscribed" /\ UNCHANGED <<app, mongo, delay, reach, sent, points>>
  BY <1>1 DEF Receive, Running, TypeOK
<1>3. /\ Tail(inbox[w]) \in Seq(Message)
      /\ Len(Tail(inbox[w])) = Len(inbox[w]) - 1
      /\ \A i \in 1 .. Len(inbox[w]) - 1 : Tail(inbox[w])[i] = inbox[w][i + 1]
  BY <1>2, HeadTailProperties
<1>4. m = inbox[w][1] /\ 1 \in DOMAIN inbox[w] /\ m \in Message
  BY <1>2
<1>5. DOMAIN inbox[w] = 1 .. Len(inbox[w]) /\ Len(inbox[w]) \in Nat
  BY <1>2
<1>6. DOMAIN Tail(inbox[w]) = 1 .. Len(inbox[w]) - 1
  BY <1>3
<1>7. \A i \in DOMAIN Tail(inbox[w]) :
          /\ i + 1 \in DOMAIN inbox[w] /\ i + 1 # 1
          /\ Tail(inbox[w])[i] = inbox[w][i + 1]
  BY <1>3, <1>5, <1>6
<1>8. /\ \A i \in DOMAIN Tail(inbox[w]) :
             /\ Owed(w, Tail(inbox[w])[i])
             /\ Tail(inbox[w])[i] # hand[w]
             /\ Tail(inbox[w])[i] # m
      /\ \A i, j \in DOMAIN Tail(inbox[w]) : Tail(inbox[w])[i] = Tail(inbox[w])[j] => i = j
  <2>1. \A i, j \in DOMAIN inbox[w] : inbox[w][i] = inbox[w][j] => i = j
    BY <1>1 DEF Due
  <2>2. \A i \in DOMAIN inbox[w] : Owed(w, inbox[w][i]) /\ inbox[w][i] # hand[w]
    BY <1>1 DEF Due
  <2>3. \A i, j \in DOMAIN Tail(inbox[w]) : i + 1 = j + 1 => i = j
    BY <1>5, <1>6
  <2> QED BY <1>4, <1>7, <2>1, <2>2, <2>3
<1>9. Owed(w, m) /\ m # None
  BY <1>1, <1>4, TelemetryAssumption DEF Due
<1>10. CASE Disconnected(w, Unexpected(w))
  BY <1>1, <1>2, <1>10, DropStep DEF InFlight, Unexpected, TypeOK, Link
<1>11. CASE /\ inbox' = [inbox EXCEPT ![w] = Tail(@)] /\ UNCHANGED online
            /\ \/ /\ link' = [link EXCEPT ![w] = "storing"]
                  /\ hand' = [hand EXCEPT ![w] = m]
               \/ UNCHANGED <<link, hand>>
  <2>1. inbox'[w] = Tail(inbox[w])
    BY <1>1, <1>11 DEF TypeOK
  <2>2. \/ link'[w] = "storing" /\ hand'[w] = m
        \/ link'[w] = link[w] /\ hand'[w] = hand[w]
    BY <1>1, <1>11 DEF TypeOK
  <2>3. /\ inbox' \in [Worker -> Seq(Message)] /\ link' \in [Worker -> Link]
        /\ hand' \in [Worker -> Message \cup {None}]
    <3>1. inbox' \in [Worker -> Seq(Message)]
      BY <1>1, <1>3, <1>11 DEF TypeOK
    <3>2. link' \in [Worker -> Link]
      BY <1>1, <1>11 DEF TypeOK, Link
    <3>3. hand' \in [Worker -> Message \cup {None}]
      BY <1>1, <1>4, <1>11 DEF TypeOK
    <3> QED BY <3>1, <3>2, <3>3
  <2>4. TypeOK'
    BY <1>1, <1>2, <1>11, <2>3 DEF TypeOK
  <2>5. Stock'
    BY <1>2, NothingInserted
  <2>6. ASSUME NEW v \in Worker, v # w
        PROVE  Due(v)'
    <3>1. inbox'[v] = inbox[v] /\ hand'[v] = hand[v] /\ link'[v] = link[v]
      BY <1>1, <1>11, <2>6 DEF TypeOK
    <3> QED BY <1>1, <1>2, <3>1, OthersDue
  <2>7. Due(w)'
    <3>1. ASSUME NEW k, Owed(w, k)
          PROVE  Owed(w, k)'
      BY <1>2, <3>1 DEF Owed
    <3>2. \A i \in DOMAIN inbox'[w] : Owed(w, inbox[w][i])'
      BY <1>2, <1>8, <2>1 DEF Owed
    <3>3. \A i \in DOMAIN inbox'[w] : inbox'[w][i] # hand'[w]
      BY <1>8, <2>1, <2>2
    <3>4. \A i, j \in DOMAIN inbox'[w] : inbox'[w][i] = inbox'[w][j] => i = j
      BY <1>8, <2>1
    <3>5. hand'[w] # None => Owed(w, hand[w])'
      <4>1. hand'[w] = m => Owed(w, hand[w])'
        BY <1>2, <1>9 DEF Owed
      <4>2. hand'[w] = hand[w] /\ hand'[w] # None => Owed(w, hand[w])'
        BY <1>1, <1>2 DEF Owed, Due
      <4> QED BY <2>2, <4>1, <4>2
    <3>6. link'[w] = "storing" => hand'[w] # None
      BY <1>2, <1>9, <2>2
    <3> QED BY <3>2, <3>3, <3>4, <3>5, <3>6 DEF Due
  <2> QED BY <2>4, <2>5, <2>6, <2>7 DEF Inductive
<1>12. SortOf[m] \in Sort
  BY <1>4, TelemetryAssumption
<1> QED BY <1>10, <1>11, <1>12 DEF Receive, Sort

LEMMA StoredStep ==
    ASSUME Inductive, NEW w \in Worker, Stored(w)
    PROVE  Inductive'
<1>1. TypeOK /\ \A v \in Worker : Due(v)
  BY DEF Inductive
<1>2. /\ link[w] = "storing" /\ Insert(hand[w], w, At[w])
      /\ UNCHANGED <<app, mongo, online, delay, inbox, reach, sent>>
  BY DEF Stored, Running
<1>3. hand[w] # None
  BY <1>1, <1>2 DEF Due
<1>4. Stock' /\ \A p \in points' : p \in points \/ p.by = w
  BY <1>2, <1>3, HandKeeps
<1>5. link'[w] = "subscribed" /\ hand'[w] = None
  BY <1>1 DEF Stored, TypeOK
<1>6. \A v \in Worker : v # w => link'[v] = link[v] /\ hand'[v] = hand[v]
  BY <1>1 DEF Stored, TypeOK
<1>7. TypeOK'
  <2>1. link' \in [Worker -> Link] /\ hand' \in [Worker -> Message \cup {None}]
    BY <1>1 DEF Stored, TypeOK, Link
  <2> QED BY <1>1, <1>2, <1>4, <2>1 DEF TypeOK, Stock
<1>8. ASSUME NEW v \in Worker, v # w
      PROVE  Due(v)'
  BY <1>1, <1>2, <1>4, <1>6, <1>8, OthersDue
<1>9. Due(w)'
  <2>1. PICK m \in Message : m = hand[w]
    BY <1>1, <1>3 DEF TypeOK
  <2>2. \A p \in points' : p \in points \/ p.message = m
    BY <1>2, <2>1 DEF Insert
  <2>3. \A i \in DOMAIN inbox[w] : Owed(w, inbox[w][i]) /\ inbox[w][i] # m
    BY <1>1, <2>1 DEF Due
  <2>4. \A i \in DOMAIN inbox[w] : Owed(w, inbox[w][i])'
    BY <1>2, <2>2, <2>3 DEF Owed
  <2>5. \A i \in DOMAIN inbox[w] : inbox[w][i] # None
    BY <1>1, TelemetryAssumption DEF TypeOK
  <2>6. \A i, j \in DOMAIN inbox[w] : inbox[w][i] = inbox[w][j] => i = j
    BY <1>1 DEF Due
  <2> QED BY <1>2, <1>5, <2>4, <2>5, <2>6 DEF Due
<1> QED BY <1>4, <1>7, <1>8, <1>9 DEF Inductive

\* A message that is published is new: no queue, hand or document has it.
LEMMA PublishStep ==
    ASSUME Inductive, NEW m \in Message, Publish(m)
    PROVE  Inductive'
<1>1. TypeOK /\ Stock /\ \A v \in Worker : Due(v)
  BY DEF Inductive
<1>2. /\ m \notin sent /\ sent' = sent \cup {m}
      /\ UNCHANGED <<app, mongo, link, online, delay, hand, reach, points>>
  BY DEF Publish
<1>3. ASSUME NEW v \in Worker
      PROVE  inbox'[v] = Append(inbox[v], m) \/ inbox'[v] = inbox[v]
  BY DEF Publish
<1>4. \A v \in Worker : Append(inbox[v], m) \in Seq(Message)
  BY <1>1, AppendProperties DEF TypeOK
<1>5. inbox' \in [Worker -> Seq(Message)]
  BY <1>1, <1>4 DEF Publish, TypeOK
<1>6. TypeOK'
  BY <1>1, <1>2, <1>5 DEF TypeOK
<1>7. Stock'
  BY <1>2, NothingInserted
<1>8. ASSUME NEW v \in Worker
      PROVE  Due(v)'
  <2>1. CASE inbox'[v] = inbox[v]
    BY <1>1, <1>2, <2>1, OthersDue
  <2>2. CASE inbox'[v] = Append(inbox[v], m)
    <3>1. inbox[v] \in Seq(Message) /\ Len(inbox[v]) \in Nat
      BY <1>1 DEF TypeOK
    <3>2. /\ Len(inbox'[v]) = Len(inbox[v]) + 1
          /\ \A i \in 1 .. Len(inbox[v]) : inbox'[v][i] = inbox[v][i]
          /\ inbox'[v][Len(inbox[v]) + 1] = m
      BY <2>2, <3>1, AppendProperties
    <3>3. /\ DOMAIN inbox[v] = 1 .. Len(inbox[v])
          /\ DOMAIN inbox'[v] = 1 .. Len(inbox[v]) + 1
      BY <1>5, <3>1, <3>2
    <3>4. \A i \in DOMAIN inbox'[v] :
              \/ i \in DOMAIN inbox[v] /\ inbox'[v][i] = inbox[v][i]
              \/ i = Len(inbox[v]) + 1 /\ inbox'[v][i] = m
      BY <3>1, <3>2, <3>3
    <3>5. \A i \in DOMAIN inbox[v] :
              Owed(v, inbox[v][i]) /\ inbox[v][i] # hand[v] /\ inbox[v][i] # m
      BY <1>1, <1>2 DEF Due, Owed
    <3>6. \A k : Owed(v, k) \/ k = m => k \in sent' /\ \A p \in points' : p.by = v => p.message # k
      BY <1>1, <1>2 DEF Owed, Stock
    <3>7. \A i \in DOMAIN inbox'[v] : Owed(v, inbox[v][i])'
      BY <3>4, <3>5, <3>6 DEF Owed
    <3>8. hand[v] # None => Owed(v, hand[v]) /\ hand[v] # m
      BY <1>1, <1>2 DEF Due, Owed
    <3>9. m # None
      BY TelemetryAssumption
    <3>10. \A i \in DOMAIN inbox'[v] : inbox'[v][i] # hand'[v]
      BY <1>2, <3>4, <3>5, <3>8, <3>9
    <3>11. \A i, j \in DOMAIN inbox'[v] : inbox'[v][i] = inbox'[v][j] => i = j
      BY <1>1, <3>4, <3>5 DEF Due
    <3>12. hand'[v] # None => Owed(v, hand[v])'
      BY <1>2, <3>6, <3>8 DEF Owed
    <3>13. link'[v] = "storing" => hand'[v] # None
      BY <1>1, <1>2 DEF Due
    <3> QED BY <3>7, <3>10, <3>11, <3>12, <3>13 DEF Due
  <2> QED BY <1>3, <2>1, <2>2
<1> QED BY <1>6, <1>7, <1>8 DEF Inductive

LEMMA IngestStep ==
    ASSUME Inductive, NEW w \in Worker, NEW m \in Message, Ingest(w, m)
    PROVE  Inductive'
<1>1. TypeOK /\ Stock /\ \A v \in Worker : Due(v)
  BY DEF Inductive
<1>2. /\ m \notin sent /\ sent' = sent \cup {m}
      /\ UNCHANGED <<app, mongo, link, online, delay, inbox, hand, reach>>
  BY DEF Ingest, bridge
<1>3. Stock' /\ \A p \in points' : p \in points \/ p.message = m
  <2>1. CASE UNCHANGED points
    BY <1>2, <2>1, NothingInserted
  <2>2. CASE Insert(m, None, At[w])
    <3>1. At[w] \in Nat
      BY TelemetryAssumption
    <3>2. \A p \in points : p.message # m
      BY <1>1, <1>2 DEF Stock
    <3> QED BY <1>2, <2>2, <3>1, <3>2, InsertKeeps DEF Adds
  <2> QED BY <2>1, <2>2 DEF Ingest
<1>4. TypeOK'
  BY <1>1, <1>2, <1>3 DEF TypeOK, Stock
<1>5. \A v \in Worker : Due(v)'
  BY <1>1, <1>2, <1>3, OthersDue
<1> QED BY <1>3, <1>4, <1>5 DEF Inductive

-----------------------------------------------------------------------------
(* The theorems *)

LEMMA Beginning ==
    ASSUME Init
    PROVE  Inductive
<1>1. points = {} /\ IsFiniteSet(points)
  BY FS_EmptySet DEF Init
<1>2. Stock
  BY <1>1 DEF Stock, Numbered, OneDocument
<1>3. \A w \in Worker : Due(w)
  BY DEF Init, Due
<1>4. TypeOK
  <2>1. FirstDelay \in FirstDelay .. MaxDelay
    BY TelemetryAssumption
  <2>2. <<>> \in Seq(Message)
    BY EmptySeq
  <2> QED BY <2>1, <2>2 DEF Init, TypeOK, Link, Life
<1> QED BY <1>2, <1>3, <1>4 DEF Inductive

LEMMA Step ==
    ASSUME Inductive, [Next]_vars
    PROVE  Inductive'
<1>1. ASSUME NEW w \in Worker,
             Start(w) \/ Stop(w) \/ Shutdown(w) \/ Crash(w) \/ Unreachable(w) \/ Reachable(w)
      PROVE  Inductive'
  BY <1>1, LifeStep, FailureStep DEF Shutdown
<1>2. ASSUME NEW w \in Worker, Work(w)
      PROVE  Inductive'
  BY <1>2, ConnectionStep, FailureStep, ReceiveStep, StoredStep DEF Work
<1>3. ASSUME NEW m \in Message, Publish(m) \/ \E w \in Worker : Ingest(w, m)
      PROVE  Inductive'
  BY <1>3, PublishStep, IngestStep
<1>4. CASE UNCHANGED vars
  <2>1. UNCHANGED <<app, mongo, link, online, delay, inbox, hand, reach, sent, points>>
    BY <1>4 DEF vars
  <2>2. TypeOK'
    BY <2>1 DEF Inductive, TypeOK
  <2> QED BY <2>1, <2>2, IdleStep
<1> QED BY <1>1, <1>2, <1>3, <1>4 DEF Next

LEMMA AlwaysInductive == Spec => []Inductive
<1>1. Init => Inductive
  BY Beginning
<1>2. Inductive /\ [Next]_vars => Inductive'
  BY Step
<1> QED BY <1>1, <1>2, PTL DEF Spec

\* The variables have their types; in particular the retry delay of every
\* bridge stays between the first delay and the cap (reconnect_delay).
THEOREM TypeCorrect == Spec => []TypeOK
<1>1. Inductive => TypeOK
  BY DEF Inductive
<1> QED BY <1>1, AlwaysInductive, PTL

\* A worker never stores a message in two documents, whatever is lost, fails,
\* is cancelled or started again (run_bridge, lifespan).
THEOREM WorkersStoreOnce == Spec => []OncePerWorker
<1>1. Inductive => OncePerWorker
  BY DEF Inductive, Stock, OneDocument, OncePerWorker
<1> QED BY <1>1, AlwaysInductive, PTL

\* The order of the printed texts is the order of the seconds they print.
LEMMA TextsFollowSeconds ==
    ASSUME NEW t \in Nat, NEW b \in Nat
    PROVE  /\ Second(b) < Second(t) => Stamp(t) >= Isoformat(b, 0)
           /\ Second(t) < Second(b) => Stamp(t) <= Isoformat(b, 0)
           /\ Stamp(t) >= Isoformat(b, 0) => Second(b) <= Second(t)
           /\ Stamp(t) <= Isoformat(b, 0) => Second(t) <= Second(b)
<1>1. Second(t) \in Nat /\ Second(b) \in Nat
  BY DEF Second
<1>2. Stamp(t) \in 4 * Second(t) + 2 .. 4 * Second(t) + 3
  <2>1. Whole(t) \in BOOLEAN
    BY DEF Whole
  <2> QED BY <1>1, <2>1 DEF Stamp
<1>3. Isoformat(b, 0) \in 4 * Second(b) .. 4 * Second(b) + 1
  <2>1. Whole(b) \in BOOLEAN
    BY DEF Whole
  <2> QED BY <1>1, <2>1 DEF Isoformat
<1> DEFINE s == Second(t)
           r == Second(b)
           x == Stamp(t)
           y == Isoformat(b, 0)
<1>4. s \in Nat /\ r \in Nat /\ x \in 4 * s + 2 .. 4 * s + 3 /\ y \in 4 * r .. 4 * r + 1
  BY <1>1, <1>2, <1>3
<1> HIDE DEF s, r, x, y
<1>5. /\ r < s => x >= y
      /\ s < r => x <= y
      /\ x >= y => r <= s
      /\ x <= y => s <= r
  BY <1>4
<1> QED BY <1>5 DEF s, r, x, y

\* A query with bounds in UTC finds every point of the seconds between them and
\* none of a second outside, for all points and bounds (get_telemetry).
THEOREM QueriesInUTC == Spec => []RangeInUTC
<1>1. ASSUME Inductive, NEW since \in Bound, NEW until \in Bound, NEW p \in points
      PROVE  /\ Second(since) < Second(p.at) /\ Second(p.at) < Second(until)
                    => p \in get_telemetry(since, until, 0)
             /\ p \in get_telemetry(since, until, 0)
                    => Second(since) <= Second(p.at) /\ Second(p.at) <= Second(until)
  <2>1. p.at \in Nat
    BY <1>1 DEF Inductive, TypeOK, Point
  <2>2. since \in Nat /\ until \in Nat
    BY TelemetryAssumption
  <2> QED BY <2>1, <2>2, TextsFollowSeconds DEF get_telemetry, InRange
<1>2. Inductive => RangeInUTC
  BY <1>1 DEF RangeInUTC, get_telemetry
<1> QED BY <1>2, AlwaysInductive, PTL
=============================================================================

------------------------ MODULE Subscription_proofs ------------------------
(***************************************************************************)
(* Theorems about Subscription for every set of links, plans, periods,      *)
(* payments and requests in flight, and every horizon.                      *)
(***************************************************************************)
EXTENDS Subscription, TLAPS, FiniteSetTheorems

Made == {p \in Payment : payment[p] # None}

Paid(l) == PaymentsOf(l) # {}

\* A payment for the link has not ended.
Current(l) == \E p \in PaymentsOf(l) : payment[p].expires >= now

\* The link was paid for, and every payment has ended.
Over(l) == Paid(l) /\ ~Current(l)

\* No payment for the link has ended.
Unended(l) == \A p \in PaymentsOf(l) : payment[p].expires >= now

\* Which fields of a request are set at each point of its code.
Shape(q) ==
    /\ q.pc \in {"pay", "commit"} => q.link \in Link /\ q.plan \in Plan
    /\ q.pc = "deactivate" => q.link \in Link
    /\ q.pc = "list" => q.link = None
    /\ q.pc = "commit" => q.expires >= now

\* Only finitely many payments were made, so a link with payments has a last one.
Base ==
    /\ TypeOK
    /\ IsFiniteSet(Made)
    /\ \A o \in Slot : Shape(op[o])

Sound(l) ==
    /\ link[l] = "active" => Paid(l)
    /\ Current(l) => link[l] = "active"

\* The commit of a payment leaves an active link unwritten only if it saw it
\* active, which a link without payments is not; so it meets no ended payment.
CommitIsFirst(q, l) == q.pc = "commit" /\ q.link = l => Unended(l) /\ l \notin q.seen

DeactivatesEnded(q, l) == q.pc = "deactivate" /\ q.link = l => Over(l)

\* What a listing leaves active behind it is paid for: the links it checked or
\* found missing, and those it holds as inactive ...
BehindListing(q, l) ==
    q.pc \in {"list", "deactivate"} =>
        /\ l \in q.seen => Paid(l)
        /\ l \in q.scope \ q.todo /\ l # q.link /\ link[l] = "active" => Current(l)
        /\ l \in q.cached \ q.seen /\ link[l] = "active" => Current(l)

\* ... and a row it holds as active after its check is current.
HeldIsCurrent(q, l) ==
    /\ q.pc = "list" /\ l \in (q.cached \cap q.seen) \ q.todo => Current(l)
    /\ q.pc = "answer" /\ l \in q.seen => Current(l)

Good(q, l) ==
    /\ CommitIsFirst(q, l)
    /\ DeactivatesEnded(q, l)
    /\ BehindListing(q, l)
    /\ HeldIsCurrent(q, l)

Settled ==
    \A l \in Link \ moved : Sound(l) /\ \A o \in Slot : Good(op[o], l)

Inductive == Base /\ Settled

-----------------------------------------------------------------------------
(* The last payment of a link *)

Later(l, p) == {r \in PaymentsOf(l) : payment[r].expires > payment[p].expires}

LEMMA LastPayment ==
    ASSUME Base, NEW l \in Link, Paid(l)
    PROVE  \E p \in PaymentsOf(l) :
               \A r \in PaymentsOf(l) : payment[p].expires >= payment[r].expires
<1> DEFINE Laters == {Later(l, p) : p \in PaymentsOf(l)}
           R == StrictSubsetOrdering(Made)
<1>1. \A p \in PaymentsOf(l) : payment[p].expires \in Nat
  BY DEF Base, TypeOK, PaymentRow, PaymentsOf
<1>2. IsWellFoundedOn(R, FiniteSubsetsOf(Made))
  BY FS_StrictSubsetOrderingWellFounded
<1>3. Laters \subseteq FiniteSubsetsOf(Made)
  BY FS_FiniteSubsetsOfFinite DEF Base, Later, PaymentsOf, Made
<1>4. Laters # {}
  BY DEF Paid
<1>5. \E X \in Laters : \A Y \in Laters : ~ (<<Y, X>> \in R)
  <2> HIDE DEF Laters, R
  <2> QED BY <1>2, <1>3, <1>4, WFMin
<1>6. PICK p \in PaymentsOf(l) :
          \A r \in PaymentsOf(l) : ~ (<<Later(l, r), Later(l, p)>> \in R)
  BY <1>5
<1>7. ASSUME NEW r \in PaymentsOf(l), payment[r].expires > payment[p].expires
      PROVE  FALSE
  <2>1. Later(l, r) \subseteq Later(l, p)
    BY <1>1, <1>7 DEF Later
  <2>2. r \in Later(l, p) /\ r \notin Later(l, r)
    BY <1>1, <1>7 DEF Later
  <2>3. Later(l, p) \subseteq Made
    BY DEF Later, PaymentsOf, Made
  <2>4. <<Later(l, r), Later(l, p)>> \in R
    BY <2>1, <2>2, <2>3 DEF StrictSubsetOrdering
  <2> QED BY <2>4, <1>6
<1> QED BY <1>1, <1>6, <1>7

\* check_and_update_expired compares the last expiry only; that decides whether
\* every payment of the link has ended.
LEMMA ExpiredIsOver ==
    ASSUME Base, NEW l \in Link
    PROVE  Expired(l) <=> Over(l)
<1>1. Paid(l) <=> Expiries(l) # {}
  BY DEF Paid, Expiries
<1>2. CASE ~Paid(l)
  BY <1>1, <1>2 DEF Expired, Over
<1>3. CASE Paid(l)
  <2>1. \E x \in Expiries(l) : \A y \in Expiries(l) : x >= y
    BY <1>3, LastPayment DEF Expiries
  <2>2. Last(l) \in Expiries(l) /\ \A y \in Expiries(l) : Last(l) >= y
    BY <2>1 DEF Last, Max
  <2>3. \A y \in Expiries(l) : y \in Nat
    BY DEF Base, TypeOK, PaymentRow, PaymentsOf, Expiries
  <2>4. now \in Nat
    BY DEF Base, TypeOK
  <2>5. Expired(l) <=> \A y \in Expiries(l) : y < now
    BY <2>2, <2>3, <2>4, <1>1, <1>3 DEF Expired
  <2>6. Current(l) <=> \E y \in Expiries(l) : y >= now
    BY DEF Current, Expiries
  <2> QED BY <2>3, <2>4, <2>5, <2>6, <1>3 DEF Over
<1> QED BY <1>2, <1>3

-----------------------------------------------------------------------------
(* Types *)

LEMMA PayingType ==
    ASSUME NEW pc \in Pc, NEW l \in Link \cup {None}, NEW t \in Plan \cup {None},
           NEW d \in Nat, NEW seen \in SUBSET Link
    PROVE  Paying(pc, l, t, d, seen) \in Operation
BY DEF Paying, Operation

LEMMA ListingType ==
    ASSUME NEW pc \in Pc, NEW l \in Link \cup {None}, NEW scope \in SUBSET Link,
           NEW todo \in SUBSET Link, NEW cached \in SUBSET Link, NEW seen \in SUBSET Link
    PROVE  Listing(pc, l, scope, todo, cached, seen) \in Operation
BY DEF Listing, Operation

LEMMA IdleType == Idle \in Operation /\ Shape(Idle)
<1>1. Idle.pc = "idle"
  BY DEF Idle, Paying
<1> QED BY <1>1, PayingType DEF Idle, Pc, Shape

\* A step that leaves the tables as they are and moves one request to a request.
LEMMA RequestStep ==
    ASSUME Base, NEW o \in Slot, NEW q \in Operation, Shape(q), Set(o, q),
           UNCHANGED <<now, link, plan, payment, moved>>
    PROVE  Base'
<1>1. op' \in [Slot -> Operation] /\ \A r \in Slot : Shape(op'[r])
  <2>1. \A r \in Slot : op'[r] = IF r = o THEN q ELSE op[r]
    BY DEF Set, Base, TypeOK
  <2> QED BY <2>1 DEF Set, Base, TypeOK
<1>2. \A r \in Slot : Shape(op[r])'
  BY <1>1 DEF Shape
<1>3. TypeOK'
  BY <1>1 DEF Base, TypeOK
<1>4. IsFiniteSet(Made)'
  BY DEF Base, Made
<1> QED BY <1>2, <1>3, <1>4 DEF Base

\* A step that leaves the clock and the requests as they are.
LEMMA TableStep ==
    ASSUME Base, TypeOK', IsFiniteSet(Made)', UNCHANGED <<now, op>>
    PROVE  Base'
<1>1. \A o \in Slot : Shape(op[o])'
  BY DEF Base, Shape
<1> QED BY <1>1 DEF Base

LEMMA BaseLinks ==
    ASSUME Base, NEW l \in Link, Assign(l) \/ Unassign(l)
    PROVE  Base'
<1>1. UNCHANGED <<now, plan, payment, op, moved>>
  BY DEF Assign, Unassign
<1>2. IsFiniteSet(Made)'
  BY <1>1 DEF Base, Made
<1>3. CASE Assign(l)
  <2>1. \A k \in Link : link'[k] # link[k] => link'[k] # "none"
    BY <1>3 DEF Assign, Base, TypeOK
  <2>2. link' \in [Link -> UserService \cup {"none"}]
    BY <1>3 DEF Assign, Base, TypeOK, UserService
  <2>3. \A p \in Payment : payment[p] # None => payment[p].link \in Link
    BY DEF Base, TypeOK, PaymentRow
  <2>4. TypeOK'
    BY <1>1, <2>1, <2>2, <2>3 DEF Base, TypeOK
  <2> QED BY <1>1, <1>2, <2>4, TableStep
<1>4. CASE Unassign(l)
  <2>1. \A p \in Payment : payment[p] # None => payment[p].link \in Link \ {l}
    BY <1>4 DEF Unassign, PaymentsOf, Base, TypeOK, PaymentRow
  <2>2. \A k \in Link \ {l} : link'[k] = link[k]
    BY <1>4 DEF Unassign, Base, TypeOK
  <2>3. link' \in [Link -> UserService \cup {"none"}]
    BY <1>4 DEF Unassign, Base, TypeOK
  <2>4. TypeOK'
    BY <1>1, <2>1, <2>2, <2>3 DEF Base, TypeOK
  <2> QED BY <1>1, <1>2, <2>4, TableStep
<1> QED BY <1>3, <1>4

LEMMA BasePlans ==
    ASSUME Base, NEW t \in Plan, SetPlan(t) \/ DeletePlan(t)
    PROVE  Base'
<1>1. UNCHANGED <<now, link, payment, op, moved>>
  BY DEF SetPlan, DeletePlan
<1>2. IsFiniteSet(Made)'
  BY <1>1 DEF Base, Made
<1>3. \A p \in Payment : payment[p] # None => payment[p].plan \in Plan
  BY DEF Base, TypeOK, PaymentRow
<1>4. plan' \in [Plan -> SubscriptionType \cup {None}]
  BY DEF SetPlan, DeletePlan, SubscriptionType, Base, TypeOK
<1>5. \A p \in Payment : payment[p] # None => plan'[payment[p].plan] # None
  <2>1. CASE SetPlan(t)
    <3>1. PICK d \in Period : plan' = [plan EXCEPT ![t] = d]
      BY <2>1 DEF SetPlan
    <3>2. d # None
      BY ConstantsAssumption
    <3> QED BY <3>1, <3>2, <1>3 DEF Base, TypeOK
  <2>2. CASE DeletePlan(t)
    BY <2>2, <1>3 DEF DeletePlan, Base, TypeOK
  <2> QED BY <2>1, <2>2
<1>6. TypeOK'
  BY <1>1, <1>4, <1>5 DEF Base, TypeOK
<1> QED BY <1>1, <1>2, <1>6, TableStep

LEMMA RowsAreNotNone == \A r \in PaymentRow : r # None
BY ConstantsAssumption DEF PaymentRow

LEMMA BaseMove ==
    ASSUME Base, NEW p \in Payment, Move(p)
    PROVE  Base'
<1>1. PICK l \in Link, t \in Plan :
          /\ Exists(l)
          /\ plan[t] # None
          /\ payment' = [payment EXCEPT ![p] = [link |-> l, plan |-> t, expires |-> @.expires]]
          /\ moved' = IF l = payment[p].link THEN moved ELSE moved \cup {l, payment[p].link}
  BY DEF Move
<1>2. payment[p] \in PaymentRow /\ payment[p].expires \in Nat /\ payment[p].link \in Link
  BY DEF Move, Base, TypeOK, PaymentRow
<1>3. UNCHANGED <<now, link, plan, op>>
  BY DEF Move
<1> DEFINE row == [link |-> l, plan |-> t, expires |-> payment[p].expires]
<1>4. row \in PaymentRow /\ row # None
  BY <1>2, RowsAreNotNone DEF PaymentRow
<1>5. \A r \in Payment : payment'[r] = IF r = p THEN row ELSE payment[r]
  BY <1>1 DEF Base, TypeOK
<1>6. payment' \in [Payment -> PaymentRow \cup {None}]
  BY <1>1, <1>4 DEF Base, TypeOK
<1>7. moved' \subseteq Link
  BY <1>1, <1>2 DEF Base, TypeOK
<1>8. Made' = Made
  BY <1>4, <1>5 DEF Made, Move
<1>9. TypeOK'
  <2>1. ASSUME NEW r \in Payment, payment'[r] # None
        PROVE  link'[payment'[r].link] # "none" /\ plan'[payment'[r].plan] # None
    BY <1>1, <1>3, <1>5, <2>1 DEF Base, TypeOK, Exists
  <2> QED BY <1>3, <1>6, <1>7, <2>1 DEF Base, TypeOK
<1> QED BY <1>3, <1>8, <1>9, TableStep DEF Base

LEMMA BaseCommit ==
    ASSUME Base, NEW o \in Slot, Commit(o)
    PROVE  Base'
<1>1. /\ op[o].pc = "commit" /\ op[o].link \in Link /\ op[o].plan \in Plan
      /\ op[o].expires \in Nat
  BY DEF Commit, Base, TypeOK, Shape, Operation
<1>2. Set(o, Idle) /\ UNCHANGED <<now, plan, moved>>
  BY DEF Commit, Done
<1>3. CASE UNCHANGED <<link, payment>>
  BY <1>2, <1>3, IdleType, RequestStep
<1>4. CASE /\ Exists(op[o].link) /\ plan[op[o].plan] # None
           /\ \E p \in Payment :
                /\ payment[p] = None
                /\ payment' = [payment EXCEPT ![p] =
                     [link |-> op[o].link, plan |-> op[o].plan, expires |-> op[o].expires]]
           /\ link' = IF op[o].link \in op[o].seen THEN link
                      ELSE [link EXCEPT ![op[o].link] = "active"]
  <2> DEFINE row == [link |-> op[o].link, plan |-> op[o].plan, expires |-> op[o].expires]
  <2>1. PICK p \in Payment : payment[p] = None /\ payment' = [payment EXCEPT ![p] = row]
    BY <1>4
  <2>2. row \in PaymentRow /\ row # None
    BY <1>1, RowsAreNotNone DEF PaymentRow
  <2>3. \A r \in Payment : payment'[r] = IF r = p THEN row ELSE payment[r]
    BY <2>1 DEF Base, TypeOK
  <2>4. payment' \in [Payment -> PaymentRow \cup {None}]
    BY <2>1, <2>2 DEF Base, TypeOK
  <2>5. \A k \in Link : link[k] # "none" => link'[k] # "none"
    BY <1>1, <1>4 DEF Base, TypeOK
  <2>6. link' \in [Link -> UserService \cup {"none"}]
    BY <1>4 DEF Base, TypeOK, UserService
  <2>7. Made' = Made \cup {p}
    BY <2>2, <2>3 DEF Made
  <2>8. IsFiniteSet(Made')
    BY <2>7, FS_AddElement DEF Base
  <2>9. \A r \in Slot : op'[r] = IF r = o THEN Idle ELSE op[r]
    BY <1>2 DEF Set, Base, TypeOK
  <2>10. op' \in [Slot -> Operation] /\ \A r \in Slot : Shape(op'[r])
    BY <1>2, <2>9, IdleType DEF Set, Base, TypeOK
  <2>11. \A r \in Slot : Shape(op[r])'
    BY <2>10, <1>2 DEF Shape
  <2>12. \A r \in Payment : payment'[r] # None =>
            link'[payment'[r].link] # "none" /\ plan'[payment'[r].plan] # None
    <3>1. \A r \in Payment : payment[r] # None => payment[r].link \in Link
      BY DEF Base, TypeOK, PaymentRow
    <3>2. link'[row.link] # "none" /\ plan'[row.plan] # None
      BY <1>1, <1>2, <1>4, <2>5 DEF Exists
    <3> QED BY <1>2, <2>3, <2>5, <3>1, <3>2 DEF Base, TypeOK
  <2>13. TypeOK'
    BY <1>2, <2>4, <2>6, <2>10, <2>12 DEF Base, TypeOK
  <2> QED BY <2>8, <2>11, <2>13 DEF Base
<1> QED BY <1>3, <1>4 DEF Commit

-----------------------------------------------------------------------------
(* Requests that leave the tables as they are *)

LEMMA RequestSettles ==
    ASSUME Inductive, NEW o \in Slot, NEW q \in Operation, Shape(q), Set(o, q),
           UNCHANGED <<now, link, plan, payment, moved>>,
           \A l \in Link \ moved : Good(q, l)
    PROVE  Inductive'
<1>1. Base'
  BY RequestStep DEF Inductive
<1>2. \A r \in Slot : op'[r] = IF r = o THEN q ELSE op[r]
  BY DEF Set, Inductive, Base, TypeOK
<1>3. ASSUME NEW l \in Link \ moved
      PROVE  Sound(l)' /\ \A r \in Slot : Good(op[r], l)'
  <2>1. PaymentsOf(l)' = PaymentsOf(l)
    BY DEF PaymentsOf
  <2>2. /\ Paid(l)' <=> Paid(l)
        /\ Current(l)' <=> Current(l)
        /\ Over(l)' <=> Over(l)
        /\ Unended(l)' <=> Unended(l)
    BY <2>1 DEF Paid, Current, Over, Unended
  <2>3. Sound(l) /\ \A r \in Slot : Good(op[r], l)
    BY DEF Inductive, Settled
  <2>4. Sound(l)'
    BY <2>2, <2>3 DEF Sound
  <2>5. ASSUME NEW r \in Slot
        PROVE  Good(op[r], l)'
    <3>1. Good(op'[r], l)
      BY <1>2, <2>3
    <3> QED BY <3>1, <2>2 DEF Good, CommitIsFirst, DeactivatesEnded, BehindListing,
                             HeldIsCurrent
  <2> QED BY <2>4, <2>5
<1>4. Settled'
  BY <1>3 DEF Settled
<1> QED BY <1>1, <1>4 DEF Inductive

LEMMA QuietIsGood ==
    ASSUME NEW q, NEW l, q.pc \in {"idle", "pay", "failed"}
    PROVE  Good(q, l)
BY DEF Good, CommitIsFirst, DeactivatesEnded, BehindListing, HeldIsCurrent

LEMMA QuietStep ==
    ASSUME Inductive, NEW o \in Slot, NEW q \in Operation, Set(o, q),
           q.pc \in {"idle", "failed"} \/ (q.pc = "pay" /\ q.link \in Link /\ q.plan \in Plan),
           UNCHANGED <<now, link, plan, payment, moved>>
    PROVE  Inductive'
<1>1. Shape(q)
  BY DEF Shape
<1>2. \A l \in Link \ moved : Good(q, l)
  BY QuietIsGood
<1> QED BY <1>1, <1>2, RequestSettles

LEMMA DoneStep ==
    ASSUME Inductive, NEW o \in Slot, Done(o), UNCHANGED <<now, link, plan, payment, moved>>
    PROVE  Inductive'
BY IdleType, QuietStep DEF Done, Idle, Paying

LEMMA PayStep ==
    ASSUME Inductive, NEW o \in Slot, Pay(o)
    PROVE  Inductive'
<1>1. PICK l \in Link, t \in Plan : Set(o, Paying("pay", l, t, 0, {}))
  BY DEF Pay
<1>2. Paying("pay", l, t, 0, {}) \in Operation
  BY PayingType DEF Pc
<1> QED BY <1>1, <1>2, QuietStep DEF Pay, Paying

LEMMA CalculateStep ==
    ASSUME Inductive, NEW o \in Slot, Calculate(o)
    PROVE  Inductive'
<1> DEFINE l == op[o].link
           t == op[o].plan
           seen == IF link[l] = "active" THEN {l} ELSE {}
           q == Paying("commit", l, t, now + plan[t], seen)
<1>1. l \in Link /\ t \in Plan
  BY DEF Calculate, Inductive, Base, Shape
<1>2. UNCHANGED <<now, link, plan, payment, moved>>
  BY DEF Calculate
<1>3. CASE Done(o)
  BY <1>2, <1>3, DoneStep
<1>4. CASE Set(o, Paying("failed", l, t, 0, {}))
  <2>1. Paying("failed", l, t, 0, {}) \in Operation
    BY <1>1, PayingType DEF Pc
  <2> QED BY <1>2, <1>4, <2>1, QuietStep DEF Paying
<1>5. CASE PaymentsOf(l) = {} /\ plan[t] \notin {None, 0} /\ Set(o, q)
  <2>1. plan[t] \in Nat /\ now \in Nat
    <3>1. plan[t] \in Period \cup {None}
      BY <1>1 DEF Inductive, Base, TypeOK, SubscriptionType
    <3>2. now \in Nat
      BY DEF Inductive, Base, TypeOK
    <3> QED BY <1>5, <3>1, <3>2, ConstantsAssumption
  <2>2. q \in Operation
    BY <1>1, <2>1, PayingType DEF Pc
  <2>3. /\ q.pc = "commit" /\ q.link = l /\ q.plan = t
        /\ q.expires = now + plan[t] /\ q.seen = seen
    BY DEF Paying
  <2>4. Shape(q)
    BY <1>1, <2>1, <2>3 DEF Shape
  <2>5. ASSUME NEW k \in Link \ moved
        PROVE  Good(q, k)
    <3>1. Sound(k)
      BY DEF Inductive, Settled
    <3>2. CommitIsFirst(q, k)
      BY <1>5, <2>3, <3>1 DEF CommitIsFirst, Sound, Paid, Unended
    <3> QED BY <2>3, <3>2 DEF Good, DeactivatesEnded, BehindListing, HeldIsCurrent
  <2> HIDE DEF q
  <2> QED BY <1>2, <1>5, <2>2, <2>4, <2>5, RequestSettles
<1> QED BY <1>3, <1>4, <1>5 DEF Calculate

LEMMA ListStep ==
    ASSUME Inductive, NEW o \in Slot, List(o)
    PROVE  Inductive'
<1>1. PICK S \in Scopes :
          LET rows == {l \in S : Exists(l)}
          IN  Set(o, Listing("list", None, S, rows, rows, {l \in rows : link[l] = "active"}))
  BY DEF List
<1> DEFINE rows == {l \in S : Exists(l)}
           active == {l \in rows : link[l] = "active"}
           q == Listing("list", None, S, rows, rows, active)
<1>2. S \subseteq Link
  BY ConstantsAssumption
<1>3. q \in Operation
  BY <1>2, ListingType DEF Pc
<1>4. /\ q.pc = "list" /\ q.link = None
      /\ q.scope = S /\ q.todo = rows /\ q.cached = rows /\ q.seen = active
  BY DEF Listing
<1>5. Shape(q)
  BY <1>4 DEF Shape
<1>6. ASSUME NEW l \in Link \ moved
      PROVE  Good(q, l)
  <2>1. Sound(l)
    BY DEF Inductive, Settled
  <2>2. BehindListing(q, l)
    BY <1>4, <2>1 DEF BehindListing, Sound, Exists
  <2> QED BY <1>4, <2>2 DEF Good, CommitIsFirst, DeactivatesEnded, HeldIsCurrent
<1>7. Set(o, q)
  BY <1>1
<1> HIDE DEF q
<1> QED BY <1>3, <1>5, <1>6, <1>7, RequestSettles DEF List

\* One round of the loop: a link left behind is not active, or its row was seen
\* active and its last payment has not ended.
LEMMA CheckedSettles ==
    ASSUME Inductive, NEW o \in Slot, op[o].pc = "list", NEW l \in op[o].todo,
           Checked(o, l, op[o].todo \ {l}),
           UNCHANGED <<now, link, plan, payment, moved>>
    PROVE  Inductive'
<1> DEFINE due == Expired(l) /\ SeenActive(o, l)
           todo == op[o].todo \ {l}
           q == Listing(IF due THEN "deactivate" ELSE "list", IF due THEN l ELSE None,
                        op[o].scope, todo, op[o].cached \cup {l}, Holding(o, l))
<1>1. /\ op[o].scope \subseteq Link /\ op[o].todo \subseteq Link
      /\ op[o].cached \subseteq Link /\ op[o].seen \subseteq Link /\ op[o].link = None
  BY DEF Inductive, Base, TypeOK, Operation, Shape
<1>2. Holding(o, l) \subseteq Link
  BY <1>1 DEF Holding
<1>3. q \in Operation
  BY <1>1, <1>2, ListingType DEF Pc
<1>4. /\ q.pc = IF due THEN "deactivate" ELSE "list"
      /\ q.link = IF due THEN l ELSE None
      /\ q.scope = op[o].scope /\ q.todo = todo
      /\ q.cached = op[o].cached \cup {l} /\ q.seen = Holding(o, l)
  BY DEF Listing
<1>5. Shape(q)
  BY <1>1, <1>4 DEF Shape
<1>6. Set(o, q)
  BY DEF Checked
<1>7. ASSUME NEW k \in Link \ moved
      PROVE  Good(q, k)
  <2>1. Sound(k) /\ Good(op[o], k)
    BY DEF Inductive, Settled
  <2>2. /\ k \in op[o].seen => Paid(k)
        /\ k \in op[o].scope \ op[o].todo /\ k # None /\ link[k] = "active" => Current(k)
        /\ k \in op[o].cached \ op[o].seen /\ link[k] = "active" => Current(k)
        /\ k \in (op[o].cached \cap op[o].seen) \ op[o].todo => Current(k)
    BY <2>1, <1>1 DEF Good, BehindListing, HeldIsCurrent
  <2>3. k # None
    BY ConstantsAssumption
  <2>4. CASE k # l
    <3>1. k \in Holding(o, l) <=> k \in op[o].seen
      BY <2>4 DEF Holding
    <3> QED BY <1>4, <2>2, <2>3, <2>4, <3>1
            DEF Good, CommitIsFirst, DeactivatesEnded, BehindListing, HeldIsCurrent
  <2>5. CASE k = l
    <3>1. k \in Holding(o, l) <=> SeenActive(o, l)
      BY <2>5 DEF Holding
    <3>2. SeenActive(o, l) => Paid(k)
      BY <2>1, <2>2, <2>5 DEF SeenActive, Sound
    <3>3. ~SeenActive(o, l) /\ link[k] = "active" => Current(k)
      BY <2>2, <2>5 DEF SeenActive
    <3>4. Expired(k) <=> Over(k)
      BY ExpiredIsOver DEF Inductive
    <3>5. SeenActive(o, l) /\ ~due => Current(k)
      BY <2>5, <3>2, <3>4 DEF Over
    <3>6. link[k] = "active" /\ ~due => Current(k)
      BY <3>3, <3>5
    <3>7. CASE due
      BY <1>4, <2>5, <3>1, <3>2, <3>4, <3>7
         DEF Good, CommitIsFirst, DeactivatesEnded, BehindListing, HeldIsCurrent
    <3>8. CASE ~due
      <4>1. q.pc = "list" /\ q.link = None
        BY <1>4, <3>8
      <4>2. k \in q.seen <=> SeenActive(o, l)
        BY <1>4, <3>1
      <4> HIDE DEF q, due
      <4> QED BY <4>1, <4>2, <3>2, <3>3, <3>5, <3>6, <3>8
              DEF Good, CommitIsFirst, DeactivatesEnded, BehindListing, HeldIsCurrent
    <3> QED BY <3>7, <3>8
  <2> QED BY <2>4, <2>5
<1> HIDE DEF q
<1> QED BY <1>3, <1>5, <1>6, <1>7, RequestSettles

LEMMA CheckStep ==
    ASSUME Inductive, NEW o \in Slot, Check(o)
    PROVE  Inductive'
BY CheckedSettles, DoneStep DEF Check

LEMMA AnswerStep ==
    ASSUME Inductive, NEW o \in Slot, Answer(o)
    PROVE  Inductive'
<1> DEFINE rows == {l \in op[o].scope : Exists(l)}
           shown == {l \in rows : SeenActive(o, l)}
           q == Listing("answer", None, op[o].scope, {}, rows, shown)
<1>1. op[o].pc = "list" /\ op[o].todo = {} /\ op[o].scope \subseteq Link /\ op[o].link = None
  BY DEF Answer, Inductive, Base, TypeOK, Operation, Shape
<1>2. q \in Operation
  BY <1>1, ListingType DEF Pc
<1>3. q.pc = "answer" /\ q.seen = shown
  BY DEF Listing
<1>4. Shape(q)
  BY <1>3 DEF Shape
<1>5. ASSUME NEW l \in Link \ moved
      PROVE  Good(q, l)
  <2>1. Good(op[o], l)
    BY DEF Inductive, Settled
  <2>2. l # None
    BY ConstantsAssumption
  <2>3. l \in op[o].scope /\ SeenActive(o, l) => Current(l)
    BY <1>1, <2>1, <2>2 DEF SeenActive, Good, BehindListing, HeldIsCurrent
  <2> QED BY <1>3, <2>3 DEF Good, CommitIsFirst, DeactivatesEnded, BehindListing,
                           HeldIsCurrent
<1>6. Set(o, q)
  BY DEF Answer
<1> HIDE DEF q
<1> QED BY <1>2, <1>4, <1>5, <1>6, RequestSettles DEF Answer

-----------------------------------------------------------------------------
(* Steps that change the tables *)

\* What a step may do to a link while requests look at it: nothing on the same
\* day takes a payment from it or ends one, and who makes it active paid for it.
World(l) ==
    /\ Current(l) => Current(l)'
    /\ Paid(l) => Paid(l)'
    /\ Over(l) => Over(l)'
    /\ link'[l] = "active" => link[l] = "active" \/ Current(l)'

\* A request that the step does not advance keeps what it relies on.
LEMMA WorldKeeps ==
    ASSUME NEW l, NEW o, World(l), Unended(l) => Unended(l)', op'[o] = op[o], Good(op[o], l)
    PROVE  Good(op[o], l)'
BY DEF World, Good, CommitIsFirst, DeactivatesEnded, BehindListing, HeldIsCurrent

SamePayments(l) ==
    /\ PaymentsOf(l)' = PaymentsOf(l)
    /\ \A p \in PaymentsOf(l) : payment'[p].expires = payment[p].expires

LEMMA SamePaymentsKeep ==
    ASSUME NEW l, SamePayments(l), now' = now
    PROVE  /\ Current(l)' <=> Current(l)
           /\ Paid(l)' <=> Paid(l)
           /\ Over(l)' <=> Over(l)
           /\ Unended(l)' <=> Unended(l)
BY DEF SamePayments, Current, Paid, Over, Unended

\* A step that keeps the payments, makes no link active and, if it makes one
\* inactive, one that is not paid for, disturbs no request.
LEMMA CalmStep ==
    ASSUME Inductive, Base', now' = now, moved \subseteq moved',
           \A l \in Link \ moved' :
               /\ SamePayments(l)
               /\ link'[l] = "active" => link[l] = "active"
               /\ link[l] = "active" /\ Current(l) => link'[l] = "active"
               /\ \A o \in Slot : op'[o] = op[o] \/ Good(op[o], l)'
    PROVE  Inductive'
<1>1. ASSUME NEW l \in Link \ moved'
      PROVE  Sound(l)' /\ \A r \in Slot : Good(op[r], l)'
  <2>1. Sound(l) /\ \A r \in Slot : Good(op[r], l)
    BY DEF Inductive, Settled
  <2>2. /\ Current(l)' <=> Current(l)
        /\ Paid(l)' <=> Paid(l)
        /\ Over(l)' <=> Over(l)
        /\ Unended(l)' <=> Unended(l)
    BY SamePaymentsKeep
  <2>3. Sound(l)'
    BY <2>1, <2>2 DEF Sound
  <2>4. World(l)
    BY <2>2 DEF World
  <2>5. ASSUME NEW r \in Slot, op'[r] = op[r]
        PROVE  Good(op[r], l)'
    BY <2>1, <2>2, <2>4, <2>5, WorldKeeps
  <2> QED BY <2>3, <2>5
<1> QED BY <1>1 DEF Inductive, Settled

LEMMA LinkStep ==
    ASSUME Inductive, NEW l \in Link, Assign(l) \/ Unassign(l)
    PROVE  Inductive'
<1>1. Base'
  BY BaseLinks DEF Inductive
<1>2. UNCHANGED <<now, plan, payment, op, moved>>
  BY DEF Assign, Unassign
<1>3. ASSUME NEW k \in Link
      PROVE  /\ SamePayments(k)
             /\ link'[k] = "active" => link[k] = "active"
             /\ link[k] = "active" /\ Current(k) => link'[k] = "active"
  <2>1. SamePayments(k)
    BY <1>2 DEF SamePayments, PaymentsOf
  <2>2. k # l => link'[k] = link[k]
    BY DEF Assign, Unassign, Inductive, Base, TypeOK
  <2>3. CASE Assign(l)
    BY <2>1, <2>2, <2>3 DEF Assign, Inductive, Base, TypeOK
  <2>4. CASE Unassign(l)
    BY <2>1, <2>2, <2>4 DEF Unassign, Current, Inductive, Base, TypeOK
  <2> QED BY <2>3, <2>4
<1> QED BY <1>1, <1>2, <1>3, CalmStep

LEMMA PlanStep ==
    ASSUME Inductive, NEW t \in Plan, SetPlan(t) \/ DeletePlan(t)
    PROVE  Inductive'
<1>1. Base'
  BY BasePlans DEF Inductive
<1>2. UNCHANGED <<now, link, payment, op, moved>>
  BY DEF SetPlan, DeletePlan
<1>3. \A l \in Link : SamePayments(l)
  BY <1>2 DEF SamePayments, PaymentsOf
<1> QED BY <1>1, <1>2, <1>3, CalmStep

\* A payment that is moved leaves no trace at a link it does not touch.
LEMMA MoveStep ==
    ASSUME Inductive, NEW p \in Payment, Move(p)
    PROVE  Inductive'
<1>1. Base'
  BY BaseMove DEF Inductive
<1>2. PICK l \in Link, t \in Plan :
          /\ payment' = [payment EXCEPT ![p] = [link |-> l, plan |-> t, expires |-> @.expires]]
          /\ moved' = IF l = payment[p].link THEN moved ELSE moved \cup {l, payment[p].link}
  BY DEF Move
<1>3. payment[p] # None /\ UNCHANGED <<now, link, plan, op>>
  BY DEF Move
<1> DEFINE row == [link |-> l, plan |-> t, expires |-> payment[p].expires]
<1>4. \A r \in Payment : payment'[r] = IF r = p THEN row ELSE payment[r]
  BY <1>2 DEF Inductive, Base, TypeOK
<1>5. row # None
  <2>1. payment[p].expires \in Nat
    BY <1>3 DEF Inductive, Base, TypeOK, PaymentRow
  <2> QED BY <2>1, RowsAreNotNone DEF PaymentRow
<1>6. ASSUME NEW k \in Link \ moved'
      PROVE  SamePayments(k)
  <2>1. (l = k) <=> (payment[p].link = k)
    BY <1>2, <1>6
  <2>2. row.link = l /\ row.expires = payment[p].expires
    OBVIOUS
  <2> HIDE DEF row
  <2>3. PaymentsOf(k)' = PaymentsOf(k)
    BY <1>3, <1>4, <1>5, <2>1, <2>2 DEF PaymentsOf
  <2>4. \A r \in PaymentsOf(k) : payment'[r].expires = payment[r].expires
    BY <1>4, <2>2 DEF PaymentsOf
  <2> QED BY <2>3, <2>4 DEF SamePayments
<1>7. moved \subseteq moved'
  BY <1>2
<1> QED BY <1>1, <1>3, <1>6, <1>7, CalmStep

\* A link is deactivated only when its payments have ended, and the listing
\* goes on with no rows in hand.
LEMMA DeactivateStep ==
    ASSUME Inductive, NEW o \in Slot, Deactivate(o)
    PROVE  Inductive'
<1> DEFINE k == op[o].link
           q == Listing("list", None, op[o].scope, op[o].todo, {}, {})
<1>1. op[o].pc = "deactivate" /\ UNCHANGED <<now, plan, payment, moved>>
  BY DEF Deactivate
<1>2. k \in Link /\ op[o].scope \subseteq Link /\ op[o].todo \subseteq Link
  BY <1>1 DEF Inductive, Base, TypeOK, Operation, Shape
<1>3. CASE Done(o) /\ UNCHANGED link
  BY <1>1, <1>3, DoneStep
<1>4. CASE /\ Exists(k)
           /\ link' = [link EXCEPT ![k] = "inactive"]
           /\ Set(o, q)
  <2>1. q \in Operation
    BY <1>2, ListingType DEF Pc
  <2>2. /\ q.pc = "list" /\ q.link = None /\ q.scope = op[o].scope /\ q.todo = op[o].todo
        /\ q.cached = {} /\ q.seen = {}
    BY DEF Listing
  <2>3. \A r \in Slot : op'[r] = IF r = o THEN q ELSE op[r]
    BY <1>4 DEF Set, Inductive, Base, TypeOK
  <2>4. \A l \in Link : link'[l] = IF l = k THEN "inactive" ELSE link[l]
    BY <1>4 DEF Inductive, Base, TypeOK
  <2> HIDE DEF q
  <2>5. Base'
    <3>1. op' \in [Slot -> Operation]
      BY <1>4, <2>1 DEF Set, Inductive, Base, TypeOK
    <3>2. \A r \in Slot : Shape(op'[r])
      BY <2>2, <2>3 DEF Shape, Inductive, Base
    <3>3. \A r \in Slot : Shape(op[r])'
      BY <3>2, <1>1 DEF Shape
    <3>4. link' \in [Link -> UserService \cup {"none"}]
      BY <1>4 DEF Inductive, Base, TypeOK, UserService
    <3>5. \A p \in Payment : payment[p] # None => link'[payment[p].link] # "none"
      BY <2>4 DEF Inductive, Base, TypeOK, PaymentRow
    <3>6. TypeOK'
      BY <1>1, <3>1, <3>4, <3>5 DEF Inductive, Base, TypeOK
    <3>7. IsFiniteSet(Made)'
      BY <1>1 DEF Inductive, Base, Made
    <3> QED BY <3>3, <3>6, <3>7 DEF Base
  <2>6. ASSUME NEW l \in Link \ moved
        PROVE  /\ SamePayments(l)
               /\ link'[l] = "active" => link[l] = "active"
               /\ link[l] = "active" /\ Current(l) => link'[l] = "active"
               /\ Good(op[o], l)'
    <3>1. Good(op[o], l)
      BY DEF Inductive, Settled
    <3>2. SamePayments(l)
      BY <1>1 DEF SamePayments, PaymentsOf
    <3>3. l = k => ~Current(l)
      BY <1>1, <3>1 DEF Good, DeactivatesEnded, Over
    <3>4. Current(l)' <=> Current(l)
      BY <1>1, <3>2, SamePaymentsKeep
    <3>5. l \in op[o].scope \ op[o].todo /\ link'[l] = "active" => Current(l)'
      BY <1>1, <2>4, <3>1, <3>4 DEF Good, BehindListing
    <3>6. op'[o] = q
      BY <2>3
    <3>7. Good(op[o], l)'
      BY <2>2, <3>5, <3>6 DEF Good, CommitIsFirst, DeactivatesEnded, BehindListing,
                              HeldIsCurrent
    <3> QED BY <2>4, <3>2, <3>3, <3>7
  <2> QED BY <1>1, <2>3, <2>5, <2>6, CalmStep
<1> QED BY <1>3, <1>4 DEF Deactivate

\* The link paid for is active and the payment has not ended; first payments
\* that overlap meet only each other.
LEMMA CommitStep ==
    ASSUME Inductive, NEW o \in Slot, Commit(o)
    PROVE  Inductive'
<1> DEFINE k == op[o].link
           row == [link |-> k, plan |-> op[o].plan, expires |-> op[o].expires]
<1>1. op[o].pc = "commit" /\ Done(o) /\ UNCHANGED <<now, plan, moved>>
  BY DEF Commit
<1>2. k \in Link /\ op[o].plan \in Plan /\ op[o].expires \in Nat /\ op[o].expires >= now
  BY <1>1 DEF Inductive, Base, TypeOK, Operation, Shape
<1>3. Base'
  BY BaseCommit DEF Inductive
<1>4. CASE UNCHANGED <<link, payment>>
  BY <1>1, <1>4, DoneStep
<1>5. CASE /\ \E p \in Payment :
                /\ payment[p] = None
                /\ payment' = [payment EXCEPT ![p] = row]
           /\ link' = IF k \in op[o].seen THEN link ELSE [link EXCEPT ![k] = "active"]
  <2>1. PICK p \in Payment : payment[p] = None /\ payment' = [payment EXCEPT ![p] = row]
    BY <1>5
  <2>2. \A r \in Payment : payment'[r] = IF r = p THEN row ELSE payment[r]
    BY <2>1 DEF Inductive, Base, TypeOK
  <2>3. row # None /\ row.link = k /\ row.expires = op[o].expires
    BY <1>2, RowsAreNotNone DEF PaymentRow
  <2> HIDE DEF row
  <2>4. \A r \in Slot : op'[r] = IF r = o THEN Idle ELSE op[r]
    BY <1>1 DEF Done, Set, Inductive, Base, TypeOK
  <2>5. ASSUME NEW l \in Link \ moved
        PROVE  Sound(l)' /\ \A r \in Slot : Good(op[r], l)'
    <3>1. Sound(l) /\ \A r \in Slot : Good(op[r], l)
      BY DEF Inductive, Settled
    <3>2. PaymentsOf(l)' = IF l = k THEN PaymentsOf(l) \cup {p} ELSE PaymentsOf(l)
      BY <2>1, <2>2, <2>3 DEF PaymentsOf
    <3>3. \A r \in PaymentsOf(l) : payment'[r].expires = payment[r].expires
      BY <2>1, <2>2 DEF PaymentsOf
    <3>4. payment'[p].expires >= now'
      BY <1>1, <1>2, <2>2, <2>3
    <3>5. /\ Paid(l) => Paid(l)'
          /\ Current(l) => Current(l)'
          /\ Unended(l) => Unended(l)'
      BY <1>1, <3>2, <3>3, <3>4 DEF Paid, Current, Unended
    <3>6. l = k => Current(l)' /\ Paid(l)'
      BY <3>2, <3>4 DEF Paid, Current
    <3>7. l = k => Unended(l) /\ l \notin op[o].seen
      BY <1>1, <3>1 DEF Good, CommitIsFirst
    <3>8. l # k => (Over(l) => Over(l)') /\ (Current(l)' => Current(l))
      BY <1>1, <3>2, <3>3 DEF Over, Paid, Current
    <3>9. ~(Over(l) /\ Unended(l))
      BY DEF Over, Paid, Current, Unended
    <3>10. link'[l] = IF l = k THEN "active" ELSE link[l]
      BY <1>2, <1>5, <3>7 DEF Inductive, Base, TypeOK
    <3>11. World(l)
      BY <3>5, <3>6, <3>7, <3>8, <3>9, <3>10 DEF World
    <3>12. Sound(l)'
      BY <3>1, <3>5, <3>6, <3>8, <3>10 DEF Sound
    <3>13. ASSUME NEW r \in Slot, r # o
           PROVE  Good(op[r], l)'
      BY <2>4, <3>1, <3>5, <3>11, <3>13, WorldKeeps
    <3>14. Good(op[o], l)'
      <4>1. op'[o] = Idle /\ Idle.pc = "idle"
        BY <2>4 DEF Idle, Paying
      <4> QED BY <4>1 DEF Good, CommitIsFirst, DeactivatesEnded, BehindListing,
                          HeldIsCurrent
    <3> QED BY <3>12, <3>13, <3>14
  <2> QED BY <1>1, <1>3, <2>5 DEF Inductive, Settled
<1> QED BY <1>4, <1>5 DEF Commit

\* A day ends with no request in flight.
LEMMA NextDayStep ==
    ASSUME Inductive, NextDay
    PROVE  Inductive'
<1>1. /\ now < Horizon /\ now' = now + 1 /\ UNCHANGED <<link, plan, payment, op, moved>>
      /\ \A o \in Slot : op[o].pc = "idle"
  BY DEF NextDay
<1>2. now \in Nat /\ now' \in 0 .. Horizon
  BY <1>1, ConstantsAssumption DEF Inductive, Base, TypeOK
<1>3. Base'
  <2>1. TypeOK'
    BY <1>1, <1>2 DEF Inductive, Base, TypeOK
  <2>2. IsFiniteSet(Made)'
    BY <1>1 DEF Inductive, Base, Made
  <2>3. \A o \in Slot : Shape(op[o])'
    BY <1>1 DEF Shape, Inductive, Base
  <2> QED BY <2>1, <2>2, <2>3 DEF Base
<1>4. ASSUME NEW l \in Link \ moved
      PROVE  Sound(l)' /\ \A o \in Slot : Good(op[o], l)'
  <2>1. Sound(l)
    BY DEF Inductive, Settled
  <2>2. PaymentsOf(l)' = PaymentsOf(l)
    BY <1>1 DEF PaymentsOf
  <2>3. \A p \in PaymentsOf(l) : payment[p].expires \in Nat
    BY DEF PaymentsOf, Inductive, Base, TypeOK, PaymentRow
  <2>4. Current(l)' => Current(l)
    BY <1>1, <1>2, <2>2, <2>3 DEF Current
  <2>5. Paid(l)' <=> Paid(l)
    BY <2>2 DEF Paid
  <2>6. Sound(l)'
    BY <1>1, <2>1, <2>4, <2>5 DEF Sound
  <2>7. \A o \in Slot : Good(op[o], l)'
    BY <1>1 DEF Good, CommitIsFirst, DeactivatesEnded, BehindListing, HeldIsCurrent
  <2> QED BY <2>6, <2>7
<1> QED BY <1>1, <1>3, <1>4 DEF Inductive, Settled

-----------------------------------------------------------------------------
(* The theorems *)

LEMMA Start ==
    ASSUME Init
    PROVE  Inductive
<1>1. Made = {} /\ \A l : PaymentsOf(l) = {}
  BY DEF Init, Made, PaymentsOf
<1>2. \A o \in Slot : op[o] = Idle
  BY DEF Init
<1>3. Idle.pc = "idle"
  BY DEF Idle, Paying
<1>4. Base
  <2>1. IsFiniteSet(Made)
    BY <1>1, FS_EmptySet
  <2>2. op \in [Slot -> Operation] /\ \A o \in Slot : Shape(op[o])
    BY <1>2, IdleType DEF Init
  <2>3. TypeOK
    BY <2>2, ConstantsAssumption DEF Init, TypeOK
  <2> QED BY <2>1, <2>2, <2>3 DEF Base
<1>5. ASSUME NEW l \in Link
      PROVE  Sound(l) /\ \A o \in Slot : Good(op[o], l)
  <2>1. Sound(l)
    BY <1>1 DEF Init, Sound, Current
  <2>2. \A o \in Slot : Good(op[o], l)
    BY <1>2, <1>3, QuietIsGood
  <2> QED BY <2>1, <2>2
<1> QED BY <1>4, <1>5 DEF Inductive, Settled

LEMMA UnchangedStep ==
    ASSUME Inductive, UNCHANGED vars
    PROVE  Inductive'
<1>1. UNCHANGED <<now, link, plan, payment, op, moved>>
  BY DEF vars
<1>2. TypeOK'
  BY <1>1 DEF Inductive, Base, TypeOK
<1>3. IsFiniteSet(Made)'
  BY <1>1 DEF Inductive, Base, Made
<1>4. Base'
  BY <1>1, <1>2, <1>3, TableStep DEF Inductive
<1>5. \A l \in Link : SamePayments(l)
  BY <1>1 DEF SamePayments, PaymentsOf
<1> QED BY <1>1, <1>4, <1>5, CalmStep

LEMMA EndStep ==
    ASSUME Inductive, NEW o \in Slot, End(o)
    PROVE  Inductive'
BY DoneStep DEF End

LEMMA Step ==
    ASSUME Inductive, [Next]_vars
    PROVE  Inductive'
<1>1. ASSUME NEW l \in Link, Assign(l) \/ Unassign(l)
      PROVE  Inductive'
  BY <1>1, LinkStep
<1>2. ASSUME NEW t \in Plan, SetPlan(t) \/ DeletePlan(t)
      PROVE  Inductive'
  BY <1>2, PlanStep
<1>3. ASSUME NEW p \in Payment, Move(p)
      PROVE  Inductive'
  BY <1>3, MoveStep
<1>4. ASSUME NEW o \in Slot, Pay(o) \/ Calculate(o) \/ Commit(o)
      PROVE  Inductive'
  BY <1>4, PayStep, CalculateStep, CommitStep
<1>5. ASSUME NEW o \in Slot, List(o) \/ Check(o) \/ Deactivate(o) \/ Answer(o) \/ End(o)
      PROVE  Inductive'
  BY <1>5, ListStep, CheckStep, DeactivateStep, AnswerStep, EndStep
<1>6. CASE NextDay
  BY <1>6, NextDayStep
<1>7. CASE UNCHANGED vars
  BY <1>7, UnchangedStep
<1> QED BY <1>1, <1>2, <1>3, <1>4, <1>5, <1>6, <1>7 DEF Next

LEMMA AlwaysInductive == Spec => []Inductive
<1>1. Init => Inductive
  BY Start
<1>2. Inductive /\ [Next]_vars => Inductive'
  BY Step
<1> QED BY <1>1, <1>2, PTL DEF Spec

\* Every row and every request has its type, and payments refer to links and
\* plans that exist, whatever is deleted or moved meanwhile.
THEOREM TypeCorrect == Spec => []TypeOK
<1>1. Inductive => TypeOK
  BY DEF Inductive, Base
<1> QED BY <1>1, AlwaysInductive, PTL

\* A link is active only while it has a payment, unless payments were moved
\* (create_entity, assign_user_to_service).
THEOREM ActiveLinksArePaid == Spec => []ActiveIsPaid
<1>1. Inductive => ActiveIsPaid
  BY DEF Inductive, Settled, Sound, Paid, ActiveIsPaid
<1> QED BY <1>1, AlwaysInductive, PTL

\* A link with a payment that has not ended is active, however first payments
\* and listings overlap (check_and_update_expired).
THEOREM PaidLinksAreActive == Spec => []PaidIsActive
<1>1. Inductive => PaidIsActive
  BY DEF Inductive, Settled, Sound, Current, PaidIsActive
<1> QED BY <1>1, AlwaysInductive, PTL

\* A listing never answers that a link whose payments have all ended is active,
\* although it reuses rows it read before (check_all_user_subscriptions).
THEOREM ListingsSettle == Spec => []ListingSettles
<1>1. ASSUME Inductive, NEW o \in Slot, op[o].pc = "answer", NEW l \in op[o].seen \ moved
      PROVE  \E p \in PaymentsOf(l) : payment[p].expires >= now
  <2>1. l \in Link \ moved
    BY <1>1 DEF Inductive, Base, TypeOK, Operation
  <2>2. Good(op[o], l)
    BY <1>1, <2>1 DEF Inductive, Settled
  <2> QED BY <1>1, <2>2 DEF Good, HeldIsCurrent, Current
<1>2. Inductive => ListingSettles
  BY <1>1 DEF ListingSettles
<1> QED BY <1>2, AlwaysInductive, PTL
=============================================================================

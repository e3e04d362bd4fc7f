---------------------------- MODULE Subscription ----------------------------
(***************************************************************************)
(* Subscriptions: app/domain/payment (service.py, controller.py) over the   *)
(* tables user_service, subscription_type, payment and payment_history.     *)
(*                                                                         *)
(* A link is a pair of a user and a service.  An action is one database     *)
(* transaction, or the part of it between two reads that other transactions *)
(* may separate.  Time advances in days; requests take none of it.          *)
(***************************************************************************)
EXTENDS Naturals, FiniteSets, FiniteSetsExt

CONSTANTS
    Link,
    Scopes,     \* the sets of links of one user, or of one service
    Plan,       \* rows of subscription_type
    Period,     \* BILLING_PERIODS in days; 0 for a name without a period
    Payment,    \* one per payment created, with its history entry
    Slot,       \* slots for payments and listings in flight
    Horizon,    \* the last day looked at
    None

ASSUME ConstantsAssumption ==
    /\ Scopes \subseteq SUBSET Link
    /\ Period \subseteq Nat
    /\ Horizon \in Nat
    /\ None \notin Link
    /\ None \notin Plan
    /\ None \notin Nat
    /\ None \notin [link : Link, plan : Plan, expires : Nat]

VARIABLES
    now,
    link,      \* link[l]: "none", "inactive", or "active"
    plan,      \* plan[t]: the period its name stands for, None without a row
    payment,   \* payment[p]: [link, plan, expires]
    op,        \* the request of each slot
    moved      \* history: the links a PATCH took a payment from or gave one to

vars == <<now, link, plan, payment, op, moved>>

Pc == {"idle", "pay", "commit", "failed", "list", "deactivate", "answer"}

\* Rows of user_service, subscription_type and payment.
UserService == {"inactive", "active"}
SubscriptionType == Period
PaymentRow == [link : Link, plan : Plan, expires : Nat]

\* A payment has a link, a plan and an expiry in hand; a listing the links it
\* has to look at, those whose row its session holds, and which of them that
\* row shows as active.
Operation == [pc : Pc, link : Link \cup {None}, plan : Plan \cup {None}, expires : Nat,
              scope : SUBSET Link, todo : SUBSET Link, cached : SUBSET Link,
              seen : SUBSET Link]

Paying(pc, l, t, expires, seen) ==
    [pc |-> pc, link |-> l, plan |-> t, expires |-> expires,
     scope |-> {}, todo |-> {}, cached |-> {}, seen |-> seen]

Listing(pc, l, scope, todo, cached, seen) ==
    [pc |-> pc, link |-> l, plan |-> None, expires |-> 0,
     scope |-> scope, todo |-> todo, cached |-> cached, seen |-> seen]

Idle == Paying("idle", None, None, 0, {})

\* Payments refer to links and plans that exist: foreign keys.
TypeOK ==
    /\ now \in 0 .. Horizon
    /\ link \in [Link -> UserService \cup {"none"}]
    /\ plan \in [Plan -> SubscriptionType \cup {None}]
    /\ payment \in [Payment -> PaymentRow \cup {None}]
    /\ \A p \in Payment : payment[p] # None => /\ link[payment[p].link] # "none"
                                               /\ plan[payment[p].plan] # None
    /\ op \in [Slot -> Operation]
    /\ moved \subseteq Link

Init ==
    /\ now = 0
    /\ link = [l \in Link |-> "none"]
    /\ plan = [t \in Plan |-> None]
    /\ payment = [p \in Payment |-> None]
    /\ op = [o \in Slot |-> Idle]
    /\ moved = {}

Exists(l) == link[l] # "none"

PaymentsOf(l) == {p \in Payment : payment[p] # None /\ payment[p].link = l}

Expiries(l) == {payment[p].expires : p \in PaymentsOf(l)}

\* SELECT ... ORDER BY expires_at.
Last_Ascending(l) == Min(Expiries(l))

\* SELECT ... ORDER BY expires_at DESC.
Last(l) == Max(Expiries(l))

Expired(l) == Expiries(l) # {} /\ Last(l) < now

Set(o, state) == op' = [op EXCEPT ![o] = state]

Done(o) == Set(o, Idle)

-----------------------------------------------------------------------------
(* Links and subscription types *)

Assign_Active(l) ==
    /\ link[l] = "none"
    /\ link' = [link EXCEPT ![l] = "active"]
    /\ UNCHANGED <<now, plan, payment, op, moved>>

\* assign_user_to_service; a link that exists is a 409, whether the SELECT or
\* the unique constraint finds it.
Assign(l) ==
    /\ link[l] = "none"
    /\ link' = [link EXCEPT ![l] = "inactive"]
    /\ UNCHANGED <<now, plan, payment, op, moved>>

\* Without foreign keys.
Unassign_Unchecked(l) ==
    /\ Exists(l)
    /\ link' = [link EXCEPT ![l] = "none"]
    /\ UNCHANGED <<now, plan, payment, op, moved>>

\* unassign_user_from_service; the DELETE fails when a payment refers to it.
Unassign(l) ==
    /\ Exists(l)
    /\ PaymentsOf(l) = {}
    /\ link' = [link EXCEPT ![l] = "none"]
    /\ UNCHANGED <<now, plan, payment, op, moved>>

\* create_subscription_type and update_subscription_type: the name, in lower
\* case, decides the period, so names that differ may have the same one.
SetPlan(t) ==
    /\ \E d \in Period : plan' = [plan EXCEPT ![t] = d]
    /\ UNCHANGED <<now, link, payment, op, moved>>

DeletePlan(t) ==
    /\ plan[t] # None
    /\ \A p \in Payment : payment[p] # None => payment[p].plan # t
    /\ plan' = [plan EXCEPT ![t] = None]
    /\ UNCHANGED <<now, link, payment, op, moved>>

-----------------------------------------------------------------------------
(* Payments.  DELETE /payments/{id} always fails, since every payment has a     *)
(* history entry that refers to it.                                            *)

Pay(o) ==
    /\ op[o].pc = "idle"
    /\ \E l \in Link, t \in Plan : Set(o, Paying("pay", l, t, 0, {}))
    /\ UNCHANGED <<now, link, plan, payment, moved>>

\* create_entity up to the flush.  The expiry of an earlier payment comes back
\* from the database without a time zone, and comparing it with now raises.
Calculate(o) ==
    LET l == op[o].link
        t == op[o].plan
    IN  /\ op[o].pc = "pay"
        /\ \/ /\ ~Exists(l) \/ plan[t] = None \/ plan[t] = 0
              /\ Done(o)
           \/ /\ Exists(l) /\ plan[t] \notin {None, 0}
              /\ PaymentsOf(l) # {}
              /\ Set(o, Paying("failed", l, t, 0, {}))
           \/ /\ Exists(l) /\ plan[t] \notin {None, 0}
              /\ PaymentsOf(l) = {}
              /\ Set(o, Paying("commit", l, t, now + plan[t],
                               IF link[l] = "active" THEN {l} ELSE {}))
        /\ UNCHANGED <<now, link, plan, payment, moved>>

\* Payment, history and activation in one commit.  The UPDATE of the link is
\* issued only if the row that was read was inactive; a link or a plan that is
\* gone makes the commit fail.
Commit(o) ==
    LET q == op[o]
    IN  /\ q.pc = "commit"
        /\ \/ /\ ~Exists(q.link) \/ plan[q.plan] = None
              /\ UNCHANGED <<link, payment>>
           \/ /\ Exists(q.link) /\ plan[q.plan] # None
              /\ \E p \in Payment :
                   /\ payment[p] = None
                   /\ payment' = [payment EXCEPT
                        ![p] = [link |-> q.link, plan |-> q.plan, expires |-> q.expires]]
              /\ link' = IF q.link \in q.seen THEN link
                         ELSE [link EXCEPT ![q.link] = "active"]
        /\ Done(o)
        /\ UNCHANGED <<now, plan, moved>>

\* PATCH /payments/{id} with the fields of PaymentCreate: link and plan change,
\* the expiry and both links' is_active do not.
Move(p) ==
    /\ payment[p] # None
    /\ \E l \in Link, t \in Plan :
         /\ Exists(l)
         /\ plan[t] # None
         /\ payment' = [payment EXCEPT ![p] = [link |-> l, plan |-> t, expires |-> @.expires]]
         /\ moved' = IF l = payment[p].link THEN moved ELSE moved \cup {l, payment[p].link}
    /\ UNCHANGED <<now, link, plan, op>>

-----------------------------------------------------------------------------
(* GET /user-services/user/{id} and /service/{id} *)

\* The SELECT that loads the rows.
List(o) ==
    /\ op[o].pc = "idle"
    /\ \E S \in Scopes :
         LET rows == {l \in S : Exists(l)}
         IN  Set(o, Listing("list", None, S, rows, rows,
                            {l \in rows : link[l] = "active"}))
    /\ UNCHANGED <<now, link, plan, payment, moved>>

\* A row the session does not hold is read again.
SeenActive(o, l) == IF l \in op[o].cached THEN l \in op[o].seen ELSE link[l] = "active"

Holding(o, l) ==
    IF SeenActive(o, l) THEN op[o].seen \cup {l} ELSE op[o].seen \ {l}

Checked(o, l, todo) ==
    LET due == Expired(l) /\ SeenActive(o, l)
    IN  Set(o, Listing(IF due THEN "deactivate" ELSE "list", IF due THEN l ELSE None,
                       op[o].scope, todo, op[o].cached \cup {l}, Holding(o, l)))

\* A check that ends the loop.
Check_Once(o) ==
    LET q == op[o]
    IN  /\ q.pc = "list"
        /\ \E l \in q.todo : Checked(o, l, {})
        /\ UNCHANGED <<now, link, plan, payment, moved>>

\* check_and_update_expired of one link: a row that is gone when it is read
\* again ends the request.
Check(o) ==
    LET q == op[o]
    IN  /\ q.pc = "list"
        /\ \E l \in q.todo :
             \/ l \notin q.cached /\ ~Exists(l) /\ Done(o)
             \/ /\ l \in q.cached \/ Exists(l)
                /\ Checked(o, l, q.todo \ {l})
        /\ UNCHANGED <<now, link, plan, payment, moved>>

\* The UPDATE and its commit, which expires every row of the session.
Deactivate(o) ==
    LET q == op[o]
    IN  /\ q.pc = "deactivate"
        /\ \/ ~Exists(q.link) /\ Done(o) /\ UNCHANGED link
           \/ /\ Exists(q.link)
              /\ link' = [link EXCEPT ![q.link] = "inactive"]
              /\ Set(o, Listing("list", None, q.scope, q.todo, {}, {}))
        /\ UNCHANGED <<now, plan, payment, moved>>

\* The SELECT of the answer leaves the rows that the session holds as they are.
Answer(o) ==
    LET q == op[o]
        rows == {l \in q.scope : Exists(l)}
    IN  /\ q.pc = "list"
        /\ q.todo = {}
        /\ Set(o, Listing("answer", None, q.scope, {}, rows,
                          {l \in rows : SeenActive(o, l)}))
        /\ UNCHANGED <<now, link, plan, payment, moved>>

\* The answer is sent; or the request fails, and its transaction with it.
End(o) ==
    /\ op[o].pc # "idle"
    /\ Done(o)
    /\ UNCHANGED <<now, link, plan, payment, moved>>

NextDay ==
    /\ now < Horizon
    /\ \A o \in Slot : op[o].pc = "idle"
    /\ now' = now + 1
    /\ UNCHANGED <<link, plan, payment, op, moved>>

Next ==
    \/ \E l \in Link : Assign(l) \/ Unassign(l)
    \/ \E t \in Plan : SetPlan(t) \/ DeletePlan(t)
    \/ \E p \in Payment : Move(p)
    \/ \E o \in Slot :
         \/ Pay(o) \/ Calculate(o) \/ Commit(o)
         \/ List(o) \/ Check(o) \/ Deactivate(o) \/ Answer(o) \/ End(o)
    \/ NextDay

Spec == Init /\ [][Next]_vars

-----------------------------------------------------------------------------
(* Properties *)

\* A link becomes active only with a payment and stays so only while it has one
\* (create_entity, assign_user_to_service), unless payments were moved: then
\* nothing deactivates the link they left.
ActiveIsPaid ==
    \A l \in Link \ moved : link[l] = "active" => PaymentsOf(l) # {}

\* What is paid for is served: a link with a payment that has not ended is
\* active, even when two first payments and any listings overlap
\* (check_and_update_expired looks at the last payment only).
PaidIsActive ==
    \A l \in Link \ moved :
        (\E p \in PaymentsOf(l) : payment[p].expires >= now) => link[l] = "active"

\* A listing never shows an active link whose payments have all ended, although
\* its answer reuses rows it read before (check_all_user_subscriptions).
ListingSettles ==
    \A o \in Slot : op[o].pc = "answer" =>
        \A l \in op[o].seen \ moved : \E p \in PaymentsOf(l) : payment[p].expires >= now
=============================================================================

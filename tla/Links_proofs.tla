---------------------------- MODULE Links_proofs ----------------------------
(***************************************************************************)
(* Theorems about Links for every set of accounts, devices, applications,   *)
(* services, roles, links, tickets and requests in flight.                  *)
(***************************************************************************)
EXTENDS Links, TLAPS

\* What the four association tables join.
Joinable(x, y) ==
    \/ x \in Manager \cup Application \cup Device /\ y \in Service
    \/ x \in User /\ y \in Role

Shape(q) == q.pc = "insert" => Joinable(q.of, q.to)

\* The row a removal found is the only one of its pair, unless the two were
\* linked again behind its back.
Removes(q) ==
    q.pc = "delete" /\ ~q.raced => \A l \in link : l.of = q.of /\ l.to = q.to => l.id = q.row

Inductive ==
    /\ TypeOK
    /\ \A o \in Slot : Shape(op[o]) /\ Removes(op[o])

-----------------------------------------------------------------------------
(* Requests *)

\* A request that a step leaves where it is, or sends from q to q', keeps the
\* tables; only its own shape and what it remembers matter.
LEMMA RequestStep ==
    ASSUME Inductive, NEW o \in Slot, NEW q \in Operation, Shape(q), Removes(q),
           op' = [op EXCEPT ![o] = q], UNCHANGED <<enforced, exists, role, link, ticket>>
    PROVE  Inductive'
<1>1. \A p \in Slot : op'[p] = IF p = o THEN q ELSE op[p]
  BY DEF Inductive, TypeOK
<1>2. op' \in [Slot -> Operation]
  BY DEF Inductive, TypeOK
<1>3. \A p \in Slot : Shape(op'[p]) /\ Removes(op'[p])
  BY <1>1 DEF Inductive
<1>4. \A p \in Slot : Shape(op[p])' /\ Removes(op[p])'
  BY <1>3 DEF Shape, Removes
<1>5. TypeOK'
  BY <1>2 DEF Inductive, TypeOK, ForeignKeys, TicketOf, Roles
<1> QED BY <1>4, <1>5 DEF Inductive

LEMMA DoneStep ==
    ASSUME Inductive, NEW o \in Slot, Done(o), UNCHANGED <<enforced, exists, role, link, ticket>>
    PROVE  Inductive'
<1>1. Idle \in Operation /\ Shape(Idle) /\ Removes(Idle)
  BY DEF Idle, Operation, Shape, Removes
<1> QED BY <1>1, RequestStep DEF Done

LEMMA AssignStep ==
    ASSUME Inductive, NEW o \in Slot, NEW X, NEW Y, Assign(o, X, Y),
           \A x \in X, y \in Y : Joinable(x, y)
    PROVE  Inductive'
<1>1. PICK x \in X \cap exists, y \in Y \cap (exists \cup Roles) :
          Begin(o, [Idle EXCEPT !.pc = "insert", !.of = x, !.to = y])
  BY DEF Assign
<1> DEFINE q == [Idle EXCEPT !.pc = "insert", !.of = x, !.to = y]
<1>2. Joinable(x, y) /\ x \in Thing /\ y \in Service \cup Role
  BY DEF Inductive, TypeOK, Joinable, Thing
<1>3. q \in Operation /\ q.pc = "insert" /\ q.of = x /\ q.to = y
  BY <1>2 DEF Idle, Operation
<1>4. Shape(q) /\ Removes(q)
  BY <1>2, <1>3 DEF Shape, Removes
<1> HIDE DEF q
<1> QED BY <1>1, <1>3, <1>4, RequestStep DEF Assign, Begin, q

LEMMA AssignsStep ==
    ASSUME Inductive, NEW o \in Slot,
           \/ AssignManager(o) \/ AssignApplication(o) \/ AssignDevice(o)
           \/ AssignUser(o) \/ AssignRoleToUser(o)
    PROVE  Inductive'
<1>1. \A X \in {Manager, Application, Device} : \A x \in X, y \in Service : Joinable(x, y)
  BY DEF Joinable
<1>2. \A x \in User, y \in Role : Joinable(x, y)
  BY DEF Joinable
<1>3. ASSUME NEW X \in {Manager, Application, Device}, Assign(o, X, Service)
      PROVE  Inductive'
  BY <1>1, <1>3, AssignStep
<1>4. Assign(o, User, Role) => Inductive'
  BY <1>2, AssignStep
<1> QED BY <1>3, <1>4
        DEF AssignManager, AssignApplication, AssignDevice, AssignUser, AssignRoleToUser

\* A removal finds the only row of the pair.
LEMMA UnassignStep ==
    ASSUME Inductive, NEW o \in Slot, NEW X, Unassign(o, X)
    PROVE  Inductive'
<1>1. PICK l \in link :
          Begin(o, [pc |-> "delete", of |-> l.of, to |-> l.to, row |-> l.id,
                    held |-> \E t \in ticket : TicketOf(t, l), raced |-> FALSE])
  BY DEF Unassign
<1> DEFINE held == \E t \in ticket : TicketOf(t, l)
           q == [pc |-> "delete", of |-> l.of, to |-> l.to, row |-> l.id,
                 held |-> held, raced |-> FALSE]
<1>2. l.of \in Thing /\ l.to \in Service \cup Role /\ l.id \in Row
  BY DEF Inductive, TypeOK, Link, ManagerService, ApplicationService, DeviceService, UserRole,
         Thing
<1>3. q \in Operation
  <2>1. held \in BOOLEAN
    OBVIOUS
  <2> HIDE DEF held
  <2> QED BY <1>2, <2>1 DEF Operation
<1>4. Shape(q) /\ Removes(q)
  BY DEF Inductive, TypeOK, Shape, Removes
<1> HIDE DEF q
<1> QED BY <1>1, <1>3, <1>4, RequestStep DEF Unassign, Begin, q

LEMMA RetrieveStep ==
    ASSUME Inductive, NEW o \in Slot, Retrieve(o)
    PROVE  Inductive'
<1>1. PICK x \in Thing \cup Role :
          Begin(o, [Idle EXCEPT !.pc = "drop", !.of = x])
  BY DEF Retrieve, Inductive, TypeOK, Roles
<1> DEFINE q == [Idle EXCEPT !.pc = "drop", !.of = x]
<1>2. q \in Operation /\ q.pc = "drop"
  BY DEF Idle, Operation
<1>3. Shape(q) /\ Removes(q)
  BY <1>2 DEF Shape, Removes
<1> HIDE DEF q
<1> QED BY <1>1, <1>2, <1>3, RequestStep DEF Retrieve, Begin, q

-----------------------------------------------------------------------------
(* Links *)

\* A new link joins two that were not linked; whoever is about to remove a row
\* of the pair is marked.
LEMMA InsertStep ==
    ASSUME Inductive, NEW o \in Slot, Insert(o)
    PROVE  Inductive'
<1> DEFINE x == op[o].of
           y == op[o].to
           fails == \/ Linked(x, y)
                    \/ enforced /\ (x \notin exists \/ y \notin exists \cup Roles)
<1>1. op[o].pc = "insert" /\ UNCHANGED <<enforced, exists, role, ticket>>
  BY DEF Insert
<1>2. CASE Done(o) /\ UNCHANGED link
  BY <1>1, <1>2, DoneStep
<1>3. CASE /\ ~fails
           /\ \E i \in Row \cap Unknown : link' = link \cup {[id |-> i, of |-> x, to |-> y]}
           /\ op' = [p \in Slot |-> IF p = o THEN Idle
                        ELSE [op[p] EXCEPT !.raced =
                                @ \/ (op[p].pc = "delete" /\ op[p].of = x /\ op[p].to = y)]]
  <2>1. PICK i \in Row \cap Unknown : link' = link \cup {[id |-> i, of |-> x, to |-> y]}
    BY <1>3
  <2> DEFINE new == [id |-> i, of |-> x, to |-> y]
  <2>2. Joinable(x, y)
    BY <1>1 DEF Inductive, Shape
  <2>3. new \in Link /\ new.id = i /\ new.of = x /\ new.to = y
    BY <2>2 DEF Joinable, Link, ManagerService, ApplicationService, DeviceService, UserRole
  <2>4. ~Linked(x, y)
    BY <1>3
  <2>5. \A l \in link : ~(l.of = x /\ l.to = y)
    BY <2>4 DEF Linked
  <2>6. link' = link \cup {new}
    BY <2>1
  <2> HIDE DEF new
  <2>8. ASSUME NEW p \in Slot
        PROVE  /\ op'[p] \in Operation /\ Shape(op'[p])
               /\ p # o => /\ op'[p].pc = op[p].pc /\ op'[p].of = op[p].of
                           /\ op'[p].to = op[p].to /\ op'[p].row = op[p].row
                           /\ ~op'[p].raced =>
                                  ~op[p].raced /\ ~(op[p].pc = "delete" /\ op[p].of = x /\ op[p].to = y)
    <3>1. op[p] \in Operation /\ Shape(op[p])
      BY DEF Inductive, TypeOK
    <3>2. CASE p = o
      BY <1>3, <3>2 DEF Idle, Operation, Shape
    <3>3. CASE p # o
      <4> DEFINE raced == op[p].raced \/ (op[p].pc = "delete" /\ op[p].of = x /\ op[p].to = y)
      <4>1. op'[p] = [op[p] EXCEPT !.raced = raced]
        BY <1>3, <3>3
      <4>2. raced \in BOOLEAN /\ (~raced => ~op[p].raced
                /\ ~(op[p].pc = "delete" /\ op[p].of = x /\ op[p].to = y))
        OBVIOUS
      <4> HIDE DEF raced
      <4>3. /\ op'[p] \in Operation /\ op'[p].raced = raced
            /\ op'[p].pc = op[p].pc /\ op'[p].of = op[p].of
            /\ op'[p].to = op[p].to /\ op'[p].row = op[p].row
        BY <3>1, <4>1, <4>2 DEF Operation
      <4>4. Shape(op'[p])
        BY <3>1, <4>3 DEF Shape
      <4> QED BY <4>2, <4>3, <4>4
    <3> QED BY <3>2, <3>3
  <2>9. op' \in [Slot -> Operation]
    <3>1. DOMAIN op' = Slot /\ op' = [p \in Slot |-> op'[p]]
      BY <1>3
    <3> QED BY <2>8, <3>1
  <2>10. ASSUME NEW p \in Slot
         PROVE  Shape(op[p])' /\ Removes(op[p])'
    <3>1. Removes(op[p])
      BY DEF Inductive
    <3>2. Shape(op[p])'
      BY <2>8 DEF Shape
    <3>3. p = o => op'[p].pc = "idle"
      BY <1>3 DEF Idle
    <3>4. Removes(op[p])'
      BY <2>3, <2>6, <2>8, <3>1, <3>3 DEF Removes
    <3> QED BY <3>2, <3>4
  <2>11. ASSUME enforced
         PROVE  ForeignKeys'
    <3>1. ForeignKeys /\ x \in exists /\ y \in exists \cup Roles
      BY <1>3, <2>11 DEF Inductive, TypeOK
    <3>2. \A l \in link' : l.of \in exists' /\ l.to \in exists' \cup Roles'
      BY <1>1, <2>3, <2>6, <3>1 DEF ForeignKeys, Roles
    <3> QED BY <1>1, <2>6, <3>1, <3>2 DEF ForeignKeys, TicketOf, Roles
  <2>12. TypeOK'
    <3>1. \A k, l \in link' : k.of = l.of /\ k.to = l.to => k = l
      BY <2>3, <2>5, <2>6 DEF Inductive, TypeOK
    <3>2. link' \subseteq Link
      BY <2>3, <2>6 DEF Inductive, TypeOK
    <3> QED BY <1>1, <2>9, <2>11, <3>1, <3>2 DEF Inductive, TypeOK
  <2> QED BY <2>10, <2>12 DEF Inductive
<1> QED BY <1>2, <1>3 DEF Insert

\* The row of a ticket is not deleted.
LEMMA DeleteStep ==
    ASSUME Inductive, NEW o \in Slot, Delete(o)
    PROVE  Inductive'
<1>1. Done(o) /\ UNCHANGED <<enforced, exists, role, ticket>>
  BY DEF Delete
<1>2. CASE link' = link
  BY <1>1, <1>2, DoneStep
<1>3. CASE ~Kept(o) /\ link' = {l \in link : l.id # op[o].row}
  <2>1. \A p \in Slot : op'[p] = IF p = o THEN Idle ELSE op[p]
    BY <1>1 DEF Done, Inductive, TypeOK
  <2>2. Idle \in Operation /\ Idle.pc = "idle"
    BY DEF Idle, Operation
  <2>3. op' \in [Slot -> Operation]
    BY <1>1, <2>2 DEF Done, Inductive, TypeOK
  <2>4. ASSUME enforced
        PROVE  ForeignKeys'
    <3>1. ForeignKeys /\ \A t \in ticket : t.link # op[o].row
      BY <1>3, <2>4 DEF Inductive, TypeOK, Kept, Referenced
    <3>2. \A l \in link' : l.of \in exists' /\ l.to \in exists' \cup Roles'
      BY <1>1, <1>3, <3>1 DEF ForeignKeys, Roles
    <3>3. \A r \in Roles' : role'[r] \in exists'
      BY <1>1, <3>1 DEF ForeignKeys, Roles
    <3>4. ASSUME NEW t \in ticket
          PROVE  \E l \in link' : TicketOf(t, l)
      <4>1. PICK l \in link : TicketOf(t, l)
        BY <3>1 DEF ForeignKeys
      <4>2. l \in link'
        BY <1>3, <3>1, <4>1 DEF TicketOf
      <4> QED BY <4>1, <4>2
    <3> QED BY <1>1, <3>1, <3>2, <3>3, <3>4 DEF ForeignKeys
  <2>7. TypeOK'
    BY <1>1, <1>3, <2>3, <2>4 DEF Inductive, TypeOK
  <2>8. ASSUME NEW p \in Slot
        PROVE  Shape(op[p])' /\ Removes(op[p])'
    <3>1. op'[p].pc = "idle" \/ op'[p] = op[p]
      BY <2>1, <2>2
    <3>2. Shape(op[p]) /\ Removes(op[p])
      BY DEF Inductive
    <3> QED BY <1>3, <3>1, <3>2 DEF Shape, Removes
  <2> QED BY <2>7, <2>8 DEF Inductive
<1> QED BY <1>2, <1>3 DEF Delete

-----------------------------------------------------------------------------
(* Rows and tickets *)

\* A row something refers to stays.
LEMMA DropStep ==
    ASSUME Inductive, NEW o \in Slot, Drop(o)
    PROVE  Inductive'
<1> DEFINE x == op[o].of
           fails == enforced /\ x \in Referenced
<1>1. Done(o) /\ UNCHANGED <<enforced, link, ticket>>
  BY DEF Drop
<1>2. /\ exists' = IF fails THEN exists ELSE exists \ {x}
      /\ role' = [r \in Role |-> IF r = x /\ ~fails THEN None ELSE role[r]]
  BY DEF Drop
<1>3. CASE fails
  <2>1. role' = role /\ exists' = exists
    BY <1>2, <1>3 DEF Inductive, TypeOK
  <2> QED BY <1>1, <2>1, DoneStep
<1>4. CASE ~fails
  <2>1. \A p \in Slot : op'[p] = IF p = o THEN Idle ELSE op[p]
    BY <1>1 DEF Done, Inductive, TypeOK
  <2>2. Idle \in Operation /\ Idle.pc = "idle"
    BY DEF Idle, Operation
  <2>3. op' \in [Slot -> Operation]
    BY <1>1, <2>2 DEF Done, Inductive, TypeOK
  <2>4. exists' = exists \ {x} /\ \A r \in Role : role'[r] = IF r = x THEN None ELSE role[r]
    BY <1>2, <1>4
  <2>5. role' \in [Role -> Service \cup {None}]
    BY <1>2, <1>4 DEF Inductive, TypeOK
  <2>6. Roles' = Roles \ {x} /\ \A r \in Roles' : role'[r] = role[r]
    BY <2>4 DEF Roles
  <2>7. ASSUME enforced
        PROVE  ForeignKeys'
    <3>1. ForeignKeys /\ x \notin Referenced
      BY <1>4, <2>7 DEF Inductive, TypeOK
    <3>2. \A l \in link : l.of # x /\ l.to # x
      BY <3>1 DEF Referenced
    <3>3. \A r \in Roles : role[r] # x
      BY <3>1 DEF Referenced
    <3>4. \A t \in ticket : t.service # x
      BY <3>1 DEF Referenced
    <3> QED BY <1>1, <2>4, <2>6, <3>1, <3>2, <3>3, <3>4 DEF ForeignKeys, TicketOf
  <2>8. TypeOK'
    BY <1>1, <2>3, <2>4, <2>5, <2>7 DEF Inductive, TypeOK
  <2>11. ASSUME NEW p \in Slot
         PROVE  Shape(op[p])' /\ Removes(op[p])'
    <3>1. op'[p].pc = "idle" \/ op'[p] = op[p]
      BY <2>1, <2>2
    <3>2. Shape(op[p]) /\ Removes(op[p])
      BY DEF Inductive
    <3> QED BY <1>1, <3>1, <3>2 DEF Shape, Removes
  <2> QED BY <2>8, <2>11 DEF Inductive
<1> QED BY <1>3, <1>4

\* A step that creates rows and leaves links, tickets and requests alone.
LEMMA CreateStep ==
    ASSUME Inductive,
           \/ \E x \in Thing : Create(x)
           \/ \E r \in Role : CreateRole(r)
    PROVE  Inductive'
<1>1. UNCHANGED <<enforced, link, ticket, op>>
  BY DEF Create, CreateRole
<1>2. /\ exists \subseteq exists' /\ exists' \subseteq Thing
      /\ \A r \in Role : role[r] # None => role'[r] # None
      /\ role' \in [Role -> Service \cup {None}]
      /\ enforced => \A r \in Role : role'[r] \in exists' \cup {role[r]}
  <2>1. CASE \E x \in Thing : Create(x)
    BY <2>1 DEF Create, Inductive, TypeOK
  <2>2. CASE \E r \in Role : CreateRole(r)
    <3>1. PICK r \in Role, s \in KeyOf(Service) :
              role' = [role EXCEPT ![r] = s] /\ UNCHANGED exists
      BY <2>2 DEF CreateRole
    <3>2. s \in Service /\ s # None /\ (enforced => s \in exists)
      BY ConstantsAssumption DEF KeyOf
    <3> QED BY <3>1, <3>2 DEF Inductive, TypeOK
  <2> QED BY <2>1, <2>2
<1>3. Roles \subseteq Roles'
  BY <1>2 DEF Roles
<1>4. ASSUME enforced
      PROVE  ForeignKeys'
  <2>1. ForeignKeys
    BY <1>4 DEF Inductive, TypeOK
  <2>2. \A r \in Roles' : role'[r] \in exists'
    BY <1>2, <1>4, <2>1 DEF ForeignKeys, Roles
  <2> QED BY <1>1, <1>2, <1>3, <2>1, <2>2 DEF ForeignKeys, TicketOf
<1>5. TypeOK'
  BY <1>1, <1>2, <1>4 DEF Inductive, TypeOK
<1>6. \A p \in Slot : Shape(op[p])' /\ Removes(op[p])'
  BY <1>1 DEF Inductive, Shape, Removes
<1> QED BY <1>5, <1>6 DEF Inductive

\* With foreign keys, a ticket that is opened has its service and its link.
Opened(t) ==
    enforced => /\ t.service # None => t.service \in exists
                /\ \E l \in link : TicketOf(t, l)

LEMMA TicketsStep ==
    ASSUME Inductive, UNCHANGED <<enforced, exists, role, link, op>>,
           ticket' \subseteq ServiceTicket \cup EcosystemTicket, \A t \in ticket' : Opened(t)
    PROVE  Inductive'
<1>1. TypeOK'
  BY DEF Inductive, TypeOK, ForeignKeys, TicketOf, Opened, Roles
<1>2. \A p \in Slot : Shape(op[p])' /\ Removes(op[p])'
  BY DEF Inductive, Shape, Removes
<1> QED BY <1>1, <1>2 DEF Inductive

LEMMA AreOpened == ASSUME Inductive PROVE \A t \in ticket : Opened(t)
BY DEF Inductive, TypeOK, ForeignKeys, Opened

LEMMA TicketStep ==
    ASSUME Inductive,
           \/ \E i \in Ticket : CreateServiceTicket(i) \/ CreateEcosystemTicket(i)
           \/ \E t \in ticket : DeleteTicket(t)
    PROVE  Inductive'
<1>1. UNCHANGED <<enforced, exists, role, link, op>>
  BY DEF CreateServiceTicket, CreateEcosystemTicket, DeleteTicket
<1>2. ticket \subseteq ServiceTicket \cup EcosystemTicket
  BY DEF Inductive, TypeOK
<1>3. \A l \in link : l.id \in Row
  BY DEF Inductive, TypeOK, Link, ManagerService, ApplicationService, DeviceService, UserRole
<1>4. CASE \E t \in ticket : DeleteTicket(t)
  <2>1. ticket' \subseteq ticket
    BY <1>4 DEF DeleteTicket
  <2> QED BY <1>1, <1>2, <2>1, AreOpened, TicketsStep
<1>5. ASSUME NEW i \in Ticket, CreateServiceTicket(i)
      PROVE  Inductive'
  <2>1. PICK l \in RowOf(User), s \in KeyOf(Service) :
            ticket' = ticket \cup {[id |-> i, link |-> l, service |-> s]}
    BY <1>5 DEF CreateServiceTicket
  <2> DEFINE new == [id |-> i, link |-> l, service |-> s]
  <2>2. l \in Row \cup {None} /\ s \in Service /\ s # None
    BY <1>3, ConstantsAssumption DEF RowOf, KeyOf
  <2>3. new \in ServiceTicket
    BY <2>2 DEF ServiceTicket
  <2>4. Opened(new)
    <3>1. ASSUME enforced
          PROVE  s \in exists /\ \E k \in link : k.id = l /\ k.of \in User
      BY <3>1 DEF RowOf, KeyOf
    <3> QED BY <2>2, <3>1 DEF Opened, TicketOf
  <2> HIDE DEF new
  <2> QED BY <1>1, <1>2, <2>1, <2>3, <2>4, AreOpened, TicketsStep DEF new
<1>6. ASSUME NEW i \in Ticket, CreateEcosystemTicket(i)
      PROVE  Inductive'
  <2>1. PICK l \in RowOf(Manager) :
            ticket' = ticket \cup {[id |-> i, link |-> l, service |-> None]}
    BY <1>6 DEF CreateEcosystemTicket
  <2> DEFINE new == [id |-> i, link |-> l, service |-> None]
  <2>2. l \in Row \cup {None}
    BY <1>3 DEF RowOf
  <2>3. new \in EcosystemTicket
    BY <2>2 DEF EcosystemTicket
  <2>4. Opened(new)
    <3>1. ASSUME enforced
          PROVE  \E k \in link : k.id = l /\ k.of \in Manager
      BY <3>1 DEF RowOf
    <3> QED BY <3>1 DEF Opened, TicketOf
  <2> HIDE DEF new
  <2> QED BY <1>1, <1>2, <2>1, <2>3, <2>4, AreOpened, TicketsStep DEF new
<1> QED BY <1>4, <1>5, <1>6

-----------------------------------------------------------------------------
(* The invariant *)

LEMMA Start ==
    ASSUME Init
    PROVE  Inductive
<1>1. \A o \in Slot : op[o] = Idle
  BY DEF Init
<1>2. Idle \in Operation /\ Idle.pc = "idle"
  BY DEF Idle, Operation
<1>3. op \in [Slot -> Operation]
  BY <1>2 DEF Init
<1>4. \A o \in Slot : Shape(op[o]) /\ Removes(op[o])
  BY <1>1, <1>2 DEF Shape, Removes
<1>5. Roles = {}
  BY DEF Init, Roles
<1>6. TypeOK
  BY <1>3, <1>5 DEF Init, TypeOK, ForeignKeys
<1> QED BY <1>4, <1>6 DEF Inductive

LEMMA Step ==
    ASSUME Inductive, [Next]_vars
    PROVE  Inductive'
<1>1. ASSUME NEW o \in Slot,
             \/ AssignManager(o) \/ AssignApplication(o) \/ AssignDevice(o)
             \/ AssignUser(o) \/ AssignRoleToUser(o)
      PROVE  Inductive'
  BY <1>1, AssignsStep
<1>2. ASSUME NEW o \in Slot,
             \/ UnassignManager(o) \/ UnassignApplication(o) \/ UnassignDevice(o)
             \/ RemoveUser(o) \/ RemoveRoleFromUser(o)
      PROVE  Inductive'
  BY <1>2, UnassignStep
     DEF UnassignManager, UnassignApplication, UnassignDevice, RemoveUser, RemoveRoleFromUser
<1>3. ASSUME NEW o \in Slot, Insert(o) \/ Delete(o) \/ Retrieve(o) \/ Drop(o)
      PROVE  Inductive'
  BY <1>3, InsertStep, DeleteStep, RetrieveStep, DropStep
<1>4. CASE (\E x \in Thing : Create(x)) \/ (\E r \in Role : CreateRole(r))
  BY <1>4, CreateStep
<1>5. CASE \/ \E i \in Ticket : CreateServiceTicket(i) \/ CreateEcosystemTicket(i)
           \/ \E t \in ticket : DeleteTicket(t)
  BY <1>5, TicketStep
<1>6. CASE UNCHANGED vars
  <2>1. UNCHANGED <<enforced, exists, role, link, ticket, op>>
    BY <1>6 DEF vars
  <2>2. ticket' \subseteq ServiceTicket \cup EcosystemTicket
    BY <2>1 DEF Inductive, TypeOK
  <2> QED BY <2>1, <2>2, AreOpened, TicketsStep
<1> QED BY <1>1, <1>2, <1>3, <1>4, <1>5, <1>6 DEF Next

LEMMA AlwaysInductive == Spec => []Inductive
<1>1. Init => Inductive
  BY Start
<1>2. Inductive /\ [Next]_vars => Inductive'
  BY Step
<1> QED BY <1>1, <1>2, PTL DEF Spec

\* Every row is of its table and no two are linked twice; where foreign keys are
\* checked, a role has its service, a link its ends and a ticket its link, whatever
\* assignments, removals and deletions overlap.
THEOREM TypeCorrect == Spec => []TypeOK
<1>1. Inductive => TypeOK
  BY DEF Inductive
<1> QED BY <1>1, AlwaysInductive, PTL

-----------------------------------------------------------------------------
(* Removals *)

\* Only the deletion itself ends a removal.
LEMMA RemovalEnds ==
    ASSUME Inductive, [Next]_vars, NEW o \in Slot, op[o].pc = "delete", op'[o].pc = "idle"
    PROVE  Delete(o)
<1>1. ASSUME NEW p \in Slot, NEW q, op' = [op EXCEPT ![p] = q], p # o
      PROVE  FALSE
  BY <1>1 DEF Inductive, TypeOK
<1>2. ASSUME NEW p \in Slot, p # o
      PROVE  /\ ~Done(p)
             /\ \A q : ~Begin(p, q)
  BY <1>1, <1>2 DEF Done, Begin
<1>3. \A q : ~Begin(o, q)
  BY DEF Begin
<1>4. \A p \in Slot : \A q : ~Begin(p, q)
  BY <1>2, <1>3
<1>5. ASSUME NEW p \in Slot, \/ AssignManager(p) \/ AssignApplication(p) \/ AssignDevice(p)
                             \/ AssignUser(p) \/ AssignRoleToUser(p)
      PROVE  FALSE
  BY <1>4, <1>5 DEF AssignManager, AssignApplication, AssignDevice, AssignUser,
                    AssignRoleToUser, Assign
<1>6. ASSUME NEW p \in Slot, \/ UnassignManager(p) \/ UnassignApplication(p)
                             \/ UnassignDevice(p) \/ RemoveUser(p) \/ RemoveRoleFromUser(p)
                             \/ Retrieve(p)
      PROVE  FALSE
  BY <1>4, <1>6 DEF UnassignManager, UnassignApplication, UnassignDevice, RemoveUser,
                    RemoveRoleFromUser, Unassign, Retrieve
<1>7. ASSUME NEW p \in Slot, Insert(p)
      PROVE  FALSE
  <2>1. p # o
    BY <1>7 DEF Insert
  <2>2. op[o] \in Operation
    BY DEF Inductive, TypeOK
  <2>3. op'[o].pc = op[o].pc
    BY <1>2, <1>7, <2>1, <2>2 DEF Insert, Operation
  <2> QED BY <2>3
<1>8. ASSUME NEW p \in Slot, Delete(p) \/ Drop(p)
      PROVE  Delete(o)
  <2>1. p = o
    BY <1>2, <1>8 DEF Delete, Drop
  <2> QED BY <1>8, <2>1 DEF Drop
<1>9. op' # op
  OBVIOUS
<1> QED BY <1>5, <1>6, <1>7, <1>8, <1>9
        DEF Next, Create, CreateRole, CreateServiceTicket, CreateEcosystemTicket,
            DeleteTicket, vars

\* A removal that deletes the row it found leaves the two unlinked, unless they
\* were linked again meanwhile (unassign_*, remove_user, remove_role_from_user).
THEOREM RemovalsRemove == Spec => RemovedIsGone
<1> DEFINE Gone ==
        \A o \in Slot :
            op[o].pc = "delete" /\ op'[o].pc = "idle"
                /\ ~Kept(o) /\ ~op[o].raced
                    => \A l \in link' : l.of = op[o].of => l.to # op[o].to
<1>1. Inductive /\ [Next]_vars => Gone
  <2> SUFFICES ASSUME Inductive, [Next]_vars, NEW o \in Slot,
                      op[o].pc = "delete", op'[o].pc = "idle",
                      ~Kept(o), ~op[o].raced
               PROVE  \A l \in link' : l.of = op[o].of => l.to # op[o].to
    OBVIOUS
  <2>1. Delete(o)
    BY RemovalEnds
  <2>2. link' = {l \in link : l.id # op[o].row}
    BY <2>1 DEF Delete
  <2>3. Removes(op[o])
    BY DEF Inductive
  <2> QED BY <2>2, <2>3 DEF Removes
<1>2. Inductive /\ [Next]_vars => [Gone]_vars
  BY <1>1
<1> HIDE DEF Gone
<1>3. Spec => [][Gone]_vars
  BY <1>2, AlwaysInductive, PTL DEF Spec
<1> QED BY <1>3 DEF RemovedIsGone, Gone

=============================================================================

------------------------------- MODULE Links -------------------------------
(***************************************************************************)
(* What is linked to what: the managers, applications and devices of a      *)
(* service (app/domain/service), the roles of a user (app/domain/role,      *)
(* app/domain/user), and the tickets on these links (app/domain/tickets).   *)
(*                                                                         *)
(* A handler that writes is two actions: its reads, and its commit, where   *)
(* the database checks unique pairs and, on PostgreSQL, foreign keys.  A    *)
(* handler that answers an error has changed nothing and is left out.       *)
(* Updates of names, states and priorities change no link.  Over HTTP a     *)
(* service finds no account in its context and filters no row, so listings  *)
(* and get_by_id are left out too.                                          *)
(***************************************************************************)
EXTENDS Naturals, FiniteSets

CONSTANTS
    Manager, Application, Device, User,
    Service,
    Role,
    Row,        \* primary keys of links
    Ticket,     \* primary keys of tickets
    Slot,       \* slots for requests in flight
    None

\* Primary keys are UUIDs: the tables that a link could confuse share none.
ASSUME ConstantsAssumption ==
    /\ None \notin Service
    /\ None \notin Row
    /\ User \cap (Manager \cup Application \cup Device) = {}
    /\ Service \cap Role = {}

Thing == Manager \cup Application \cup Device \cup User \cup Service

VARIABLES
    enforced,   \* foreign keys: PostgreSQL checks them, SQLite does not
    exists,     \* the rows of the tables of Thing
    role,       \* the service of each role, None without a row
    link,       \* rows of the four association tables
    ticket,     \* rows of service_ticket and ecosystem_ticket
    op          \* the request of each slot

vars == <<enforced, exists, role, link, ticket, op>>

-----------------------------------------------------------------------------
(* Tables *)

ManagerService == [id : Row, of : Manager, to : Service]
ApplicationService == [id : Row, of : Application, to : Service]
DeviceService == [id : Row, of : Device, to : Service]
UserRole == [id : Row, of : User, to : Role]

Link == ManagerService \cup ApplicationService \cup DeviceService \cup UserRole

\* The link is None when it is the id of no row.
ServiceTicket == [id : Ticket, link : Row \cup {None}, service : Service]
EcosystemTicket == [id : Ticket, link : Row \cup {None}, service : {None}]

Roles == {r \in Role : role[r] # None}

\* The relationships UserRole.service_tickets and ManagerService.ecosystem_tickets.
TicketOf(t, l) ==
    /\ t.link = l.id
    /\ IF t.service = None THEN l.of \in Manager ELSE l.of \in User

\* What the foreign keys of other rows point to.
Referenced ==
    {l.of : l \in link} \cup {l.to : l \in link}
        \cup {role[r] : r \in Roles}
        \cup {t.link : t \in ticket} \cup {t.service : t \in ticket}

\* What an INSERT may give for a foreign key to a table of Thing, and to one of links.
KeyOf(X) == IF enforced THEN X \cap exists ELSE X

RowOf(X) ==
    IF enforced THEN {l.id : l \in {k \in link : k.of \in X}}
    ELSE {l.id : l \in link} \cup {None}

\* held: the row to delete had tickets when it was read.  raced: the two were linked
\* again since then.
Operation ==
    [pc : {"idle", "insert", "delete", "drop"}, of : Thing \cup Role \cup {None},
     to : Service \cup Role \cup {None}, row : Row \cup {None},
     held : BOOLEAN, raced : BOOLEAN]

Idle == [pc |-> "idle", of |-> None, to |-> None, row |-> None,
         held |-> FALSE, raced |-> FALSE]

ForeignKeys ==
    /\ \A l \in link : l.of \in exists /\ l.to \in exists \cup Roles
    /\ \A r \in Roles : role[r] \in exists
    /\ \A t \in ticket :
          /\ t.service # None => t.service \in exists
          /\ \E l \in link : TicketOf(t, l)

TypeOK ==
    /\ enforced \in BOOLEAN
    /\ exists \subseteq Thing
    /\ role \in [Role -> Service \cup {None}]
    /\ link \subseteq Link
    /\ ticket \subseteq ServiceTicket \cup EcosystemTicket
    /\ op \in [Slot -> Operation]
    /\ \A k, l \in link : k.of = l.of /\ k.to = l.to => k = l
    /\ enforced => ForeignKeys

\* Accounts, devices, applications and services have been created.
Init ==
    /\ enforced \in BOOLEAN
    /\ exists = Thing
    /\ role = [r \in Role |-> None]
    /\ link = {}
    /\ ticket = {}
    /\ op = [o \in Slot |-> Idle]

\* A new primary key is one that no row has or points to and no request remembers.
Unknown ==
    (Thing \cup Role \cup Row \cup Ticket)
        \ (exists \cup Roles \cup {l.id : l \in link} \cup {t.id : t \in ticket}
              \cup Referenced \cup UNION {{op[o].of, op[o].to, op[o].row} : o \in Slot})

Linked(x, y) == \E l \in link : l.of = x /\ l.to = y

Begin(o, state) ==
    /\ op[o].pc = "idle"
    /\ op' = [op EXCEPT ![o] = state]

Done(o) == op' = [op EXCEPT ![o] = Idle]

-----------------------------------------------------------------------------
(* Links *)

\* The reads of an assignment: both ends exist and are not linked.  Row bounds
\* how many links there can be.
Assign(o, X, Y) ==
    /\ Cardinality({p \in Slot : op[p].pc = "insert"}) < Cardinality(Row \cap Unknown)
    /\ \E x \in X \cap exists, y \in Y \cap (exists \cup Roles) :
         /\ ~Linked(x, y)
         /\ Begin(o, [Idle EXCEPT !.pc = "insert", !.of = x, !.to = y])
    /\ UNCHANGED <<enforced, exists, role, link, ticket>>

AssignManager(o) == Assign(o, Manager, Service)
AssignApplication(o) == Assign(o, Application, Service)
AssignDevice(o) == Assign(o, Device, Service)

\* POST /roles/{role_id}/users and POST /users/{user_id}/roles/{role_id}.
AssignUser(o) == Assign(o, User, Role)
AssignRoleToUser(o) == Assign(o, User, Role)

\* Without the unique constraint on the pair.
Insert_Twice(o) ==
    LET q == op[o]
    IN  /\ q.pc = "insert"
        /\ op' = [p \in Slot |-> IF p = o THEN Idle ELSE op[p]]
        /\ \E i \in Row \cap Unknown :
             link' = link \cup {[id |-> i, of |-> q.of, to |-> q.to]}
        /\ UNCHANGED <<enforced, exists, role, ticket>>

\* The commit of an assignment fails when another request has linked the two or,
\* with foreign keys, when an end has gone.
Insert(o) ==
    LET q == op[o]
        fails == \/ Linked(q.of, q.to)
                 \/ enforced /\ (q.of \notin exists \/ q.to \notin exists \cup Roles)
        same(p) == op[p].pc = "delete" /\ op[p].of = q.of /\ op[p].to = q.to
    IN  /\ q.pc = "insert"
        /\ \/ /\ ~fails
              /\ \E i \in Row \cap Unknown :
                   link' = link \cup {[id |-> i, of |-> q.of, to |-> q.to]}
              /\ op' = [p \in Slot |-> IF p = o THEN Idle
                                       ELSE [op[p] EXCEPT !.raced = @ \/ same(p)]]
           \/ /\ fails
              /\ Done(o)
              /\ UNCHANGED link
        /\ UNCHANGED <<enforced, exists, role, ticket>>

\* The read of the row to delete, and of its tickets with it (lazy="selectin").
Unassign(o, X) ==
    /\ \E l \in link :
         /\ l.of \in X
         /\ Begin(o, [pc |-> "delete", of |-> l.of, to |-> l.to, row |-> l.id,
                      held |-> \E t \in ticket : TicketOf(t, l), raced |-> FALSE])
    /\ UNCHANGED <<enforced, exists, role, link, ticket>>

UnassignManager(o) == Unassign(o, Manager)
UnassignApplication(o) == Unassign(o, Application)
UnassignDevice(o) == Unassign(o, Device)
RemoveUser(o) == Unassign(o, User)
RemoveRoleFromUser(o) == Unassign(o, User)

\* The session first clears the foreign keys of the tickets it has read, which are
\* NOT NULL; those of later ones fail the DELETE where foreign keys are checked.
Kept(o) == op[o].held \/ (enforced /\ op[o].row \in Referenced)

Delete(o) ==
    /\ op[o].pc = "delete"
    /\ link' = IF Kept(o) THEN link ELSE {l \in link : l.id # op[o].row}
    /\ Done(o)
    /\ UNCHANGED <<enforced, exists, role, ticket>>

-----------------------------------------------------------------------------
(* Rows *)

\* create_entity, and that of RoleService.
Create(x) ==
    /\ x \in Unknown
    /\ exists' = exists \cup {x}
    /\ UNCHANGED <<enforced, role, link, ticket, op>>

CreateRole(r) ==
    /\ r \in Unknown
    /\ \E s \in KeyOf(Service) : role' = [role EXCEPT ![r] = s]
    /\ UNCHANGED <<enforced, exists, link, ticket, op>>

\* delete_entity: get_by_id and the DELETE, which loads and clears nothing.
Retrieve(o) ==
    /\ \E x \in exists \cup Roles : Begin(o, [Idle EXCEPT !.pc = "drop", !.of = x])
    /\ UNCHANGED <<enforced, exists, role, link, ticket>>

Drop(o) ==
    LET x == op[o].of
        fails == enforced /\ x \in Referenced
    IN  /\ op[o].pc = "drop"
        /\ exists' = IF fails THEN exists ELSE exists \ {x}
        /\ role' = [r \in Role |-> IF r = x /\ ~fails THEN None ELSE role[r]]
        /\ Done(o)
        /\ UNCHANGED <<enforced, link, ticket>>

\* Nothing is read first, and the service of the ticket need not be that of the role.
CreateServiceTicket(i) ==
    /\ i \in Unknown
    /\ \E l \in RowOf(User), s \in KeyOf(Service) :
         ticket' = ticket \cup {[id |-> i, link |-> l, service |-> s]}
    /\ UNCHANGED <<enforced, exists, role, link, op>>

CreateEcosystemTicket(i) ==
    /\ i \in Unknown
    /\ \E l \in RowOf(Manager) :
         ticket' = ticket \cup {[id |-> i, link |-> l, service |-> None]}
    /\ UNCHANGED <<enforced, exists, role, link, op>>

DeleteTicket(t) ==
    /\ t \in ticket
    /\ ticket' = ticket \ {t}
    /\ UNCHANGED <<enforced, exists, role, link, op>>

-----------------------------------------------------------------------------

Next ==
    \/ \E o \in Slot :
         \/ AssignManager(o) \/ AssignApplication(o) \/ AssignDevice(o)
         \/ AssignUser(o) \/ AssignRoleToUser(o) \/ Insert(o)
         \/ UnassignManager(o) \/ UnassignApplication(o) \/ UnassignDevice(o)
         \/ RemoveUser(o) \/ RemoveRoleFromUser(o) \/ Delete(o)
         \/ Retrieve(o) \/ Drop(o)
    \/ \E x \in Thing : Create(x)
    \/ \E r \in Role : CreateRole(r)
    \/ \E i \in Ticket : CreateServiceTicket(i) \/ CreateEcosystemTicket(i)
    \/ \E t \in ticket : DeleteTicket(t)

Spec == Init /\ [][Next]_vars

-----------------------------------------------------------------------------
(* Properties *)

\* When a removal has deleted the row it found, the two are no longer linked,
\* unless they were linked again meanwhile: no second row of the pair is left by
\* two assignments that overlapped (unassign_*, remove_user, remove_role_from_user).
RemovedIsGone ==
    [][\A o \in Slot :
         op[o].pc = "delete" /\ op'[o].pc = "idle" /\ ~Kept(o) /\ ~op[o].raced
             => \A l \in link' : l.of = op[o].of => l.to # op[o].to]_vars
=============================================================================

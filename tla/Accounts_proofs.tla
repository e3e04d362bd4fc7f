-------------------------- MODULE Accounts_proofs --------------------------
(***************************************************************************)
(* Theorems about the rows of an account: Accounts, for every number of    *)
(* persons, emails and requests in flight, with foreign keys and without, and*)
(* Onboarding, for every number of addresses, ids and requests, with failures*)
(* and without.  The two share no variable: each has its own inductive     *)
(* invariant.                                                              *)
(***************************************************************************)
EXTENDS Accounts, Onboarding, TLAPS

\* What is left to commit of a creation or an update, and of a deletion.
CreationLeft == {Creation, <<"sensitive", "account">>, <<"account">>, <<>>}
DeletionLeft == {Deletion, <<"sensitive", "noncritical">>, <<"noncritical">>, <<>>}

\* Which fields of a request are set, by what it does.
Shape(q) ==
    /\ q.do \in Do \cup {"seed", "idle"}
    /\ q.person \in Person \cup {None}
    /\ q.email \in Email \cup {None}
    /\ q.audit \in Table \cup {None}
    /\ q.do = "idle" <=> q.person = None
    /\ q.do \in {"idle", "seed"} => q.todo = <<>> /\ q.audit = None
    /\ q.do \in {"create", "seed"} => q.email # None
    /\ q.do \in {"create", "update"} => q.todo \in CreationLeft
    /\ q.do = "delete" => q.todo \in DeletionLeft

Requests == [do : Do \cup {"seed", "idle"}, person : Person \cup {None}, email : Email \cup {None},
             todo : CreationLeft \cup DeletionLeft, audit : Table \cup {None}]

ShapedRequest == {q \in Requests : Shape(q)}

Base ==
    /\ enforced \in BOOLEAN
    /\ noncritical \subseteq Person
    /\ sensitive \in [Person -> Email \cup {None}]
    /\ account \subseteq Person
    /\ referenced \subseteq Person
    /\ op \in [Slot -> ShapedRequest]
    /\ log \subseteq Change
    /\ broken \subseteq Person

\* The unique constraint on the email, and the foreign keys to an account.
Constraints ==
    /\ \A p, r \in Person : sensitive[p] = sensitive[r] /\ sensitive[p] # None => p = r
    /\ enforced => referenced \subseteq account

Alone(o) == \A p \in Slot \ {o} : op[p].person # op[o].person

\* How far a request has come shows in the rows of its person.
RowsOf(o) ==
    LET q == op[o]
        p == op[o].person
    IN  /\ q.do = "seed" \/ (q.do = "create" /\ q.todo # <<>>) => Alone(o) /\ p \notin account
        /\ q.do = "seed" \/ (q.do = "create" /\ q.todo = Creation) =>
               p \notin noncritical /\ sensitive[p] = None
        /\ q.do = "create" /\ q.todo = <<"sensitive", "account">> =>
               p \in noncritical /\ sensitive[p] = None
        /\ q.do = "create" /\ q.todo = <<"account">> => sensitive[p] # None
        /\ q.do = "delete" /\ q.todo \notin {Deletion, <<>>} => p \notin account
        /\ q.do = "delete" /\ q.todo = <<"noncritical">> => sensitive[p] = None

Progress == \A o \in Slot : RowsOf(o)

\* Rows without an account belong to a request that ended half way, or to one
\* that is half way.
HalfWay(o) ==
    \/ op[o].do = "create" /\ op[o].todo \in {<<"sensitive", "account">>, <<"account">>}
    \/ op[o].do = "delete" /\ op[o].todo \notin {Deletion, <<>>}

Leftover(p) == p \notin account /\ (p \in noncritical \/ sensitive[p] # None)

Explained ==
    \A p \in Person : Leftover(p) =>
        p \in broken \/ \E o \in Slot : op[o].person = p /\ HalfWay(o)

Inductive == Base /\ Constraints /\ Whole /\ Progress /\ Explained

-----------------------------------------------------------------------------
(* Types *)

LEMMA TodoFacts ==
    /\ Creation # <<"sensitive", "account">> /\ Creation # <<"account">> /\ Creation # <<>>
    /\ <<"sensitive", "account">> # <<"account">> /\ <<"sensitive", "account">> # <<>>
    /\ <<"account">> # <<>>
    /\ Deletion # <<"sensitive", "noncritical">> /\ Deletion # <<"noncritical">> /\ Deletion # <<>>
    /\ <<"sensitive", "noncritical">> # <<"noncritical">> /\ <<"sensitive", "noncritical">> # <<>>
    /\ <<"noncritical">> # <<>>
    /\ Creation \notin DeletionLeft /\ Deletion \notin CreationLeft
BY DEF Creation, Deletion, CreationLeft, DeletionLeft

\* What is next in a creation or an update, and what is left after it.
LEMMA CreationOrder ==
    ASSUME NEW todo \in CreationLeft, todo # <<>>
    PROVE  \/ todo = Creation /\ Head(todo) = "noncritical" /\ Tail(todo) = <<"sensitive", "account">>
           \/ todo = <<"sensitive", "account">> /\ Head(todo) = "sensitive" /\ Tail(todo) = <<"account">>
           \/ todo = <<"account">> /\ Head(todo) = "account" /\ Tail(todo) = <<>>
<1>1. Head(Creation) = "noncritical" /\ Tail(Creation) = <<"sensitive", "account">>
  BY DEF Creation
<1>2. Head(<<"sensitive", "account">>) = "sensitive" /\ Tail(<<"sensitive", "account">>) = <<"account">>
  OBVIOUS
<1>3. Head(<<"account">>) = "account" /\ Tail(<<"account">>) = <<>>
  OBVIOUS
<1>4. QED
  BY <1>1, <1>2, <1>3 DEF CreationLeft

LEMMA DeletionOrder ==
    ASSUME NEW todo \in DeletionLeft, todo # <<>>
    PROVE  \/ todo = Deletion /\ Head(todo) = "account" /\ Tail(todo) = <<"sensitive", "noncritical">>
           \/ todo = <<"sensitive", "noncritical">> /\ Head(todo) = "sensitive" /\ Tail(todo) = <<"noncritical">>
           \/ todo = <<"noncritical">> /\ Head(todo) = "noncritical" /\ Tail(todo) = <<>>
<1>1. Head(Deletion) = "account" /\ Tail(Deletion) = <<"sensitive", "noncritical">>
  BY DEF Deletion
<1>2. Head(<<"sensitive", "noncritical">>) = "sensitive" /\ Tail(<<"sensitive", "noncritical">>) = <<"noncritical">>
  OBVIOUS
<1>3. Head(<<"noncritical">>) = "noncritical" /\ Tail(<<"noncritical">>) = <<>>
  OBVIOUS
<1>4. QED
  BY <1>1, <1>2, <1>3 DEF DeletionLeft

LEMMA TodoTypes == CreationLeft \cup DeletionLeft \subseteq UNION {[1 .. n -> Table] : n \in 0 .. 3}
<1>1. /\ Creation \in [1 .. 3 -> Table] /\ Deletion \in [1 .. 3 -> Table]
      /\ <<"sensitive", "account">> \in [1 .. 2 -> Table]
      /\ <<"sensitive", "noncritical">> \in [1 .. 2 -> Table]
      /\ <<"account">> \in [1 .. 1 -> Table] /\ <<"noncritical">> \in [1 .. 1 -> Table]
      /\ <<>> \in [1 .. 0 -> Table]
  BY DEF Creation, Deletion, Table
<1>2. QED
  BY <1>1 DEF CreationLeft, DeletionLeft

LEMMA BaseType == Base /\ Constraints => TypeOK
<1>1. ShapedRequest \subseteq Operation
  BY TodoTypes DEF ShapedRequest, Requests, Operation
<1>2. QED
  BY <1>1 DEF Base, Constraints, TypeOK

\* What Base says of one request.
LEMMA RequestFacts ==
    ASSUME Base, NEW o \in Slot
    PROVE  op[o] \in Requests /\ Shape(op[o])
BY DEF Base, ShapedRequest

LEMMA IdleShaped == Idle \in ShapedRequest
BY DEF Idle, ShapedRequest, Requests, Shape, CreationLeft

\* What every step of a request does to the requests.
Stepped(o) ==
    /\ op' \in [Slot -> ShapedRequest]
    /\ \A p \in Slot \ {o} : op'[p] = op[p]

LEMMA Replaced ==
    ASSUME Base, NEW o \in Slot, NEW q \in ShapedRequest, op' = [op EXCEPT ![o] = q]
    PROVE  Stepped(o) /\ op'[o] = q
BY DEF Base, Stepped

LEMMA Ended ==
    ASSUME Base, NEW o \in Slot, Done(o)
    PROVE  Stepped(o) /\ op'[o] = Idle
BY IdleShaped, Replaced DEF Done

-----------------------------------------------------------------------------
(* What each action does, said once for all invariants *)

\* The row of table t is committed and todo is left.
Moves(o, todo, t) ==
    /\ Stepped(o)
    /\ op'[o].do = op[o].do /\ op'[o].person = op[o].person /\ op'[o].email = op[o].email
    /\ op'[o].todo = todo /\ op'[o].audit = t

Commits(o, todo, t) ==
    /\ Moves(o, todo, t)
    /\ UNCHANGED <<enforced, referenced, log, broken>>

Fails(o) ==
    /\ Stepped(o) /\ op'[o] = Idle
    /\ UNCHANGED <<enforced, noncritical, sensitive, account, referenced>>
    /\ \/ UNCHANGED <<log, broken>> /\ ~HalfWay(o)
       \/ Break(op[o].person)

LEMMA MovesStep ==
    ASSUME Base, NEW o \in Slot, NEW t \in Table, op[o].do \in Do,
           op[o].todo # <<>>,
           op' = [op EXCEPT ![o] = [op[o] EXCEPT !.todo = Tail(@), !.audit = t]]
    PROVE  Moves(o, Tail(op[o].todo), t)
<1> DEFINE q == [op[o] EXCEPT !.todo = Tail(@), !.audit = t]
<1>1. op[o] \in Requests /\ Shape(op[o])
  BY RequestFacts
<1>2. /\ q.do = op[o].do /\ q.person = op[o].person /\ q.email = op[o].email
      /\ q.todo = Tail(op[o].todo) /\ q.audit = t
  BY <1>1 DEF Requests
<1>3. /\ op[o].do \in {"create", "update"} => Tail(op[o].todo) \in CreationLeft
      /\ op[o].do = "delete" => Tail(op[o].todo) \in DeletionLeft
  BY <1>1, CreationOrder, DeletionOrder DEF Shape, CreationLeft, DeletionLeft
<1>4. q \in Requests
  BY <1>1, <1>3 DEF Requests, Do
<1>5. Shape(q)
  BY <1>1, <1>2, <1>3 DEF Shape, Do
<1>6. Stepped(o) /\ op'[o] = q
  BY <1>4, <1>5, Replaced DEF ShapedRequest
<1>7. QED
  BY <1>2, <1>6 DEF Moves

LEMMA CommitsStep ==
    ASSUME Base, NEW o \in Slot, op[o].do \in Do, op[o].todo # <<>>, Committed(o),
           Head(op[o].todo) \in Table
    PROVE  Commits(o, Tail(op[o].todo), Head(op[o].todo))
BY MovesStep DEF Committed, Commits, aside

LEMMA FailsStep ==
    ASSUME Base, NEW o \in Slot, op[o].todo # <<>>, op[o].audit = None, Fail(o)
    PROVE  Fails(o)
<1>1. Stepped(o) /\ op'[o] = Idle
  BY Ended DEF Fail
<1>2. op[o].todo \in {Creation, Deletion} => ~HalfWay(o)
  BY RequestFacts, TodoFacts DEF HalfWay, Shape
<1>3. QED
  BY <1>1, <1>2 DEF Fail, Fails, aside, tables

\* The outcomes of a commit of a creation.
Creates(o) ==
    LET p == op[o].person
    IN  /\ op[o].do = "create" /\ op[o].audit = None
        /\ \/ /\ op[o].todo = Creation
              /\ noncritical' = noncritical \cup {p} /\ UNCHANGED <<sensitive, account>>
              /\ Commits(o, <<"sensitive", "account">>, "noncritical")
           \/ /\ op[o].todo = <<"sensitive", "account">> /\ ~Taken(op[o])
              /\ sensitive' = [sensitive EXCEPT ![p] = op[o].email]
              /\ UNCHANGED <<noncritical, account>>
              /\ Commits(o, <<"account">>, "sensitive")
           \/ /\ op[o].todo = <<"account">>
              /\ account' = account \cup {p} /\ UNCHANGED <<noncritical, sensitive>>
              /\ Commits(o, <<>>, "account")
           \/ Fails(o)

LEMMA CreatesStep == ASSUME Base, NEW o \in Slot, CreateRow(o) PROVE Creates(o)
<1>1. /\ op[o].do = "create" /\ op[o].audit = None /\ op[o].todo # <<>>
      /\ op[o].todo \in CreationLeft /\ op[o].do \in Do
  BY RequestFacts DEF CreateRow, Next_Table, Shape, Do
<1>2. CASE op[o].todo = Creation
  <2>1. Head(op[o].todo) = "noncritical" /\ Tail(op[o].todo) = <<"sensitive", "account">>
    BY <1>1, <1>2, CreationOrder, TodoFacts
  <2>2. /\ noncritical' = noncritical \cup {op[o].person} /\ UNCHANGED <<sensitive, account>>
        /\ Committed(o)
    BY <2>1 DEF CreateRow, Next_Table
  <2>3. Commits(o, <<"sensitive", "account">>, "noncritical")
    BY <1>1, <2>1, <2>2, CommitsStep DEF Table
  <2>4. QED
    BY <1>1, <1>2, <2>2, <2>3 DEF Creates
<1>3. CASE op[o].todo = <<"sensitive", "account">>
  <2>1. Head(op[o].todo) = "sensitive" /\ Tail(op[o].todo) = <<"account">>
    BY <1>1, <1>3, CreationOrder, TodoFacts
  <2>2. CASE Fail(o)
    BY <1>1, <2>2, FailsStep DEF Creates
  <2>3. CASE ~Fail(o)
    <3>1. /\ sensitive' = [sensitive EXCEPT ![op[o].person] = op[o].email]
          /\ UNCHANGED <<noncritical, account>> /\ Committed(o) /\ ~Taken(op[o])
      BY <2>1, <2>3 DEF CreateRow, Next_Table
    <3>2. Commits(o, <<"account">>, "sensitive")
      BY <1>1, <2>1, <3>1, CommitsStep DEF Table
    <3>3. QED
      BY <1>1, <1>3, <3>1, <3>2 DEF Creates
  <2>4. QED
    BY <2>2, <2>3
<1>4. CASE op[o].todo = <<"account">>
  <2>1. Head(op[o].todo) = "account" /\ Tail(op[o].todo) = <<>>
    BY <1>1, <1>4, CreationOrder, TodoFacts
  <2>2. /\ account' = account \cup {op[o].person} /\ UNCHANGED <<noncritical, sensitive>>
        /\ Committed(o)
    BY <2>1 DEF CreateRow, Next_Table
  <2>3. Commits(o, <<>>, "account")
    BY <1>1, <2>1, <2>2, CommitsStep DEF Table
  <2>4. QED
    BY <1>1, <1>4, <2>2, <2>3 DEF Creates
<1>5. QED
  BY <1>1, <1>2, <1>3, <1>4 DEF CreationLeft

\* The outcomes of a commit of an update: an email goes to a person that had one.
Updates(o) ==
    LET p == op[o].person
    IN  /\ op[o].do = "update" /\ op[o].audit = None
        /\ UNCHANGED <<noncritical, account>>
        /\ \/ UNCHANGED sensitive
           \/ /\ sensitive[p] # None /\ ~Taken(op[o])
              /\ sensitive' = [sensitive EXCEPT ![p] = IF op[o].email = None THEN @ ELSE op[o].email]
        /\ \/ \E todo \in CreationLeft, t \in Table : Commits(o, todo, t)
           \/ Fails(o)

LEMMA UpdatesStep == ASSUME Base, NEW o \in Slot, UpdateRow(o) PROVE Updates(o)
<1>1. /\ op[o].do = "update" /\ op[o].audit = None /\ op[o].todo # <<>>
      /\ op[o].todo \in CreationLeft /\ op[o].do \in Do
  BY RequestFacts DEF UpdateRow, Next_Table, Shape, Do
<1>2. Head(op[o].todo) \in Table /\ Tail(op[o].todo) \in CreationLeft
  BY <1>1, CreationOrder DEF CreationLeft, Table
<1>3. Fail(o) => Fails(o) /\ UNCHANGED <<noncritical, account, sensitive>>
  BY <1>1, FailsStep DEF Fail, tables
<1>4. Committed(o) => \E todo \in CreationLeft, t \in Table : Commits(o, todo, t)
  BY <1>1, <1>2, CommitsStep
<1>5. QED
  BY <1>1, <1>3, <1>4 DEF UpdateRow, Updates, tables

\* The outcomes of a commit of a deletion; another one may have removed the account.
Deletes(o) ==
    LET p == op[o].person
    IN  /\ op[o].do = "delete" /\ op[o].audit = None
        /\ \/ /\ op[o].todo = Deletion
              /\ account' = account \ {p} /\ UNCHANGED <<noncritical, sensitive>>
              /\ enforced => p \notin referenced
              /\ Commits(o, <<"sensitive", "noncritical">>, "account")
           \/ /\ op[o].todo = <<"sensitive", "noncritical">>
              /\ sensitive' = [sensitive EXCEPT ![p] = None]
              /\ UNCHANGED <<noncritical, account>>
              /\ Commits(o, <<"noncritical">>, "sensitive")
           \/ /\ op[o].todo = <<"noncritical">>
              /\ noncritical' = noncritical \ {p} /\ UNCHANGED <<sensitive, account>>
              /\ Commits(o, <<>>, "noncritical")
           \/ Fails(o)

LEMMA DeletesStep == ASSUME Base, NEW o \in Slot, DeleteRow(o) PROVE Deletes(o)
<1> DEFINE p == op[o].person
<1>1. /\ op[o].do = "delete" /\ op[o].audit = None /\ op[o].todo # <<>>
      /\ op[o].todo \in DeletionLeft /\ op[o].do \in Do
  BY RequestFacts DEF DeleteRow, Next_Table, Shape, Do
<1>2. CASE Fail(o)
  BY <1>1, <1>2, FailsStep DEF Deletes
<1>3. CASE ~Fail(o) /\ op[o].todo = Deletion
  <2>1. Head(op[o].todo) = "account" /\ Tail(op[o].todo) = <<"sensitive", "noncritical">>
    BY <1>1, <1>3, DeletionOrder, TodoFacts
  <2>2. /\ ~PointedTo("account", p)
        /\ account' = account \ {p} /\ UNCHANGED <<noncritical, sensitive>>
        /\ Committed(o)
    BY <1>3, <2>1 DEF DeleteRow, Next_Table
  <2>3. enforced => p \notin referenced
    BY <2>2 DEF PointedTo
  <2>4. Commits(o, <<"sensitive", "noncritical">>, "account")
    BY <1>1, <2>1, <2>2, CommitsStep DEF Table
  <2>5. QED
    BY <1>1, <1>3, <2>2, <2>3, <2>4 DEF Deletes
<1>4. CASE ~Fail(o) /\ op[o].todo = <<"sensitive", "noncritical">>
  <2>1. Head(op[o].todo) = "sensitive" /\ Tail(op[o].todo) = <<"noncritical">>
    BY <1>1, <1>4, DeletionOrder, TodoFacts
  <2>2. /\ sensitive' = [sensitive EXCEPT ![p] = None]
        /\ UNCHANGED <<noncritical, account>> /\ Committed(o)
    BY <1>4, <2>1 DEF DeleteRow, Next_Table
  <2>3. Commits(o, <<"noncritical">>, "sensitive")
    BY <1>1, <2>1, <2>2, CommitsStep DEF Table
  <2>4. QED
    BY <1>1, <1>4, <2>2, <2>3 DEF Deletes
<1>5. CASE ~Fail(o) /\ op[o].todo = <<"noncritical">>
  <2>1. Head(op[o].todo) = "noncritical" /\ Tail(op[o].todo) = <<>>
    BY <1>1, <1>5, DeletionOrder, TodoFacts
  <2>2. /\ noncritical' = noncritical \ {p}
        /\ UNCHANGED <<sensitive, account>> /\ Committed(o)
    BY <1>5, <2>1 DEF DeleteRow, Next_Table
  <2>3. Commits(o, <<>>, "noncritical")
    BY <1>1, <2>1, <2>2, CommitsStep DEF Table
  <2>4. QED
    BY <1>1, <1>5, <2>2, <2>3 DEF Deletes
<1>6. QED
  BY <1>1, <1>2, <1>3, <1>4, <1>5 DEF DeletionLeft

Begins(o) ==
    LET p == op'[o].person
    IN  /\ Stepped(o) /\ op[o].do = "idle" /\ op'[o].audit = None /\ p \in Person
        /\ UNCHANGED <<enforced, noncritical, sensitive, account>>
        /\ \/ /\ op'[o].do = "update" \/ (op'[o].do = "delete" /\ op'[o].todo = Deletion)
              /\ p \in account
              /\ UNCHANGED <<referenced, log, broken>>
           \/ /\ op'[o].do = "seed" \/ (op'[o].do = "create" /\ op'[o].todo = Creation)
              /\ Unused(p)
              /\ referenced' = referenced \ {p}
              /\ UNCHANGED log
              /\ broken' = broken \ {p}

Starting(o) == Create(o) \/ Update(o) \/ Delete(o) \/ Seed(o)

LEMMA BeginsStep == ASSUME Base, NEW o \in Slot, Starting(o) PROVE Begins(o)
<1> USE ConstantsAssumption
<1>1. account \subseteq Person /\ UNCHANGED <<enforced, noncritical, sensitive, account>>
  BY DEF Starting, Create, Update, Delete, Seed, tables, Base
<1>2. ASSUME NEW do \in {"create", "seed"}, NEW todo, BeginNew(o, do, todo),
             todo = IF do = "create" THEN Creation ELSE <<>>
      PROVE  Begins(o)
  <2>1. PICK p \in Person, e \in Email :
          /\ Unused(p)
          /\ Begin(o, [Idle EXCEPT !.do = do, !.person = p, !.email = e, !.todo = todo])
          /\ referenced' = referenced \ {p}
          /\ UNCHANGED log
          /\ broken' = broken \ {p}
    BY <1>2 DEF BeginNew
  <2> DEFINE q == [Idle EXCEPT !.do = do, !.person = p, !.email = e, !.todo = todo]
  <2>2. q.do = do /\ q.person = p /\ q.email = e /\ q.todo = todo /\ q.audit = None
    BY DEF Idle
  <2>3. q \in Requests
    BY <1>2 DEF Idle, Requests, CreationLeft, Do
  <2>4. Shape(q)
    BY <1>2, <2>2 DEF Shape, CreationLeft, Do
  <2>5. Stepped(o) /\ op'[o] = q /\ op[o].do = "idle"
    BY <2>1, <2>3, <2>4, Replaced DEF ShapedRequest, Begin
  <2>6. QED
    BY <1>1, <1>2, <2>1, <2>2, <2>5 DEF Begins
<1>3. CASE Create(o) \/ Seed(o)
  BY <1>2, <1>3 DEF Create, Seed
<1>4. CASE Update(o)
  <2>1. PICK p \in account, e \in Email \cup {None} :
          Begin(o, [Idle EXCEPT !.do = "update", !.person = p, !.email = e, !.todo = Creation])
    BY <1>4 DEF Update
  <2> DEFINE q == [Idle EXCEPT !.do = "update", !.person = p, !.email = e, !.todo = Creation]
  <2>2. q.do = "update" /\ q.person = p /\ q.email = e /\ q.todo = Creation /\ q.audit = None
    BY DEF Idle
  <2>3. q \in Requests
    BY <1>1 DEF Idle, Requests, CreationLeft, Do
  <2>4. Shape(q)
    BY <1>1, <2>2 DEF Shape, CreationLeft, Do
  <2>5. Stepped(o) /\ op'[o] = q /\ op[o].do = "idle"
    BY <2>1, <2>3, <2>4, Replaced DEF ShapedRequest, Begin
  <2>6. QED
    BY <1>1, <1>4, <2>2, <2>5 DEF Begins, Update, aside
<1>5. CASE Delete(o)
  <2>1. PICK p \in account :
          Begin(o, [Idle EXCEPT !.do = "delete", !.person = p, !.todo = Deletion])
    BY <1>5 DEF Delete
  <2> DEFINE q == [Idle EXCEPT !.do = "delete", !.person = p, !.todo = Deletion]
  <2>2. q.do = "delete" /\ q.person = p /\ q.email = None /\ q.todo = Deletion /\ q.audit = None
    BY DEF Idle
  <2>3. q \in Requests
    BY <1>1 DEF Idle, Requests, DeletionLeft, Do
  <2>4. Shape(q)
    BY <1>1, <2>2 DEF Shape, DeletionLeft, Do
  <2>5. Stepped(o) /\ op'[o] = q /\ op[o].do = "idle"
    BY <2>1, <2>3, <2>4, Replaced DEF ShapedRequest, Begin
  <2>6. QED
    BY <1>1, <1>5, <2>2, <2>5 DEF Begins, Delete, aside
<1>6. QED
  BY <1>3, <1>4, <1>5 DEF Starting

Audits(o) ==
    /\ Stepped(o) /\ op[o].audit # None
    /\ \/ op[o].todo = <<>> /\ op'[o] = Idle
       \/ /\ op'[o].do = op[o].do /\ op'[o].person = op[o].person
          /\ op'[o].todo = op[o].todo /\ op[o].todo # <<>>
    /\ UNCHANGED <<enforced, noncritical, sensitive, account, referenced, log, broken>>

LEMMA AuditsStep == ASSUME Base, NEW o \in Slot, Audit(o) PROVE Audits(o)
<1>1. /\ op[o].audit # None
      /\ UNCHANGED <<enforced, noncritical, sensitive, account, referenced, log, broken>>
  BY DEF Audit, tables, ContextAccount
<1>2. CASE op[o].todo = <<>>
  <2>1. Done(o)
    BY <1>2 DEF Audit, Done
  <2>2. QED
    BY <1>1, <1>2, <2>1, Ended DEF Audits
<1>3. CASE op[o].todo # <<>>
  <2> DEFINE q == [op[o] EXCEPT !.audit = None]
  <2>1. op[o] \in Requests /\ Shape(op[o])
    BY RequestFacts
  <2>2. /\ q \in Requests /\ q.do = op[o].do /\ q.person = op[o].person
        /\ q.email = op[o].email /\ q.todo = op[o].todo /\ q.audit = None
    BY <2>1 DEF Requests
  <2>3. Shape(q)
    BY <2>1, <2>2 DEF Shape
  <2>4. op' = [op EXCEPT ![o] = q]
    BY <1>3 DEF Audit
  <2>5. Stepped(o) /\ op'[o] = q
    BY <2>2, <2>3, <2>4, Replaced DEF ShapedRequest
  <2>6. QED
    BY <1>1, <1>3, <2>2, <2>5 DEF Audits
<1>4. QED
  BY <1>2, <1>3

\* The seed commits all three rows, or none.
Seeds(o) ==
    LET p == op[o].person
    IN  /\ Stepped(o) /\ op[o].do = "seed" /\ op'[o] = Idle
        /\ UNCHANGED <<enforced, referenced, log, broken>>
        /\ \/ UNCHANGED <<noncritical, sensitive, account>>
           \/ /\ ~Taken(op[o])
              /\ noncritical' = noncritical \cup {p}
              /\ sensitive' = [sensitive EXCEPT ![p] = op[o].email]
              /\ account' = account \cup {p}

LEMMA SeedsStep == ASSUME Base, NEW o \in Slot, SeedCommit(o) PROVE Seeds(o)
BY Ended DEF SeedCommit, Seeds, aside, tables

Crashes(o) ==
    /\ Stepped(o) /\ op[o].do # "idle" /\ op'[o] = Idle
    /\ Break(op[o].person)
    /\ UNCHANGED <<enforced, noncritical, sensitive, account, referenced>>

LEMMA CrashesStep == ASSUME Base, NEW o \in Slot, Crash(o) PROVE Crashes(o)
BY Ended DEF Crash, Crashes, tables

\* A refresh that fails ends the request as its last row or a crash does.
LEMMA RefreshStep ==
    ASSUME Base, NEW o \in Slot, RefreshFails(o)
    PROVE  Audits(o) \/ Crashes(o)
<1>1. Stepped(o) /\ op'[o] = Idle /\ op[o].audit # None /\ op[o].do # "idle"
  BY Ended, RequestFacts DEF RefreshFails, Shape
<1>2. UNCHANGED <<enforced, noncritical, sensitive, account, referenced>>
  BY DEF RefreshFails, tables
<1>3. QED
  BY <1>1, <1>2 DEF RefreshFails, Audits, Crashes, aside

\* The rest of the system only changes who points to an account.
Around ==
    /\ UNCHANGED <<enforced, noncritical, sensitive, account, op, log, broken>>
    /\ referenced' \subseteq referenced \cup account

LEMMA AroundStep ==
    ASSUME NEW p \in Person, NotFound(p) \/ Refer(p) \/ Release(p)
    PROVE  Around
<1>1. CASE NotFound(p)
  BY <1>1 DEF NotFound, Around, vars, tables, aside
<1>2. CASE Refer(p)
  BY <1>2 DEF Refer, Around, tables, aside
<1>3. CASE Release(p)
  BY <1>3 DEF Release, Around, tables, aside
<1>4. QED
  BY <1>1, <1>2, <1>3

\* A step, by what it does.
Outcome(o) ==
    \/ Begins(o) \/ Creates(o) \/ Updates(o) \/ Deletes(o) \/ Audits(o) \/ Seeds(o) \/ Crashes(o)

LEMMA Outcomes ==
    ASSUME Base, [Next]_vars
    PROVE  (\E o \in Slot : Outcome(o)) \/ Around
<1>1. CASE \E o \in Slot : Starting(o)
  BY <1>1, BeginsStep DEF Outcome
<1>2. ASSUME NEW o \in Slot,
             \/ CreateRow(o) \/ UpdateRow(o) \/ DeleteRow(o) \/ RefreshFails(o) \/ Audit(o)
             \/ SeedCommit(o) \/ Crash(o)
      PROVE  Outcome(o)
  BY <1>2, CreatesStep, UpdatesStep, DeletesStep, RefreshStep, AuditsStep, SeedsStep, CrashesStep
     DEF Outcome
<1>3. CASE UNCHANGED vars
  BY <1>3 DEF vars, tables, aside, Around
<1>4. QED
  BY <1>1, <1>2, <1>3, AroundStep DEF Next, Starting

-----------------------------------------------------------------------------
(* The invariant *)

LEMMA FailsTypes ==
    ASSUME Base, NEW o \in Slot, op[o].do \in Do, op[o].person \in Person, Fails(o)
    PROVE  Base'
<1>1. log' \subseteq Change /\ broken' \subseteq Person
  BY DEF Fails, Break, Base
<1>2. QED
  BY <1>1 DEF Fails, Base, Stepped

LEMMA CommitsTypes ==
    ASSUME Base, NEW o \in Slot, NEW todo, NEW t, Commits(o, todo, t),
           noncritical' \subseteq Person, account' \subseteq Person,
           sensitive' \in [Person -> Email \cup {None}]
    PROVE  Base'
BY DEF Commits, Moves, Base, Stepped

LEMMA BaseStep == Base /\ [Next]_vars => Base'
<1> SUFFICES ASSUME Base, [Next]_vars PROVE Base'
  OBVIOUS
<1>0. /\ enforced \in BOOLEAN /\ noncritical \subseteq Person /\ account \subseteq Person
      /\ sensitive \in [Person -> Email \cup {None}] /\ referenced \subseteq Person
      /\ log \subseteq Change /\ broken \subseteq Person
  BY DEF Base
<1>1. ASSUME NEW o \in Slot, Outcome(o) PROVE Base'
  <2>0. /\ op[o].do # "idle" => op[o].person \in Person
        /\ op[o].email \in Email \cup {None}
        /\ {"account", "sensitive", "noncritical"} \subseteq Table
        /\ {"create", "update", "delete"} \subseteq Do
    BY RequestFacts DEF Shape, Table, Do
  <2>1. CASE Begins(o)
    BY <1>0, <2>1 DEF Begins, Base, Stepped
  <2>2. CASE Creates(o)
    <3>1. CASE Fails(o)
      BY <2>0, <2>2, <3>1, FailsTypes DEF Creates
    <3>2. CASE ~Fails(o)
      <4>1. /\ noncritical' \subseteq Person /\ account' \subseteq Person
            /\ sensitive' \in [Person -> Email \cup {None}]
        BY <1>0, <2>0, <2>2, <3>2 DEF Creates
      <4>2. QED
        BY <2>0, <2>2, <3>2, <4>1, CommitsTypes DEF Creates
    <3>3. QED
      BY <3>1, <3>2
  <2>3. CASE Updates(o)
    <3>1. CASE Fails(o)
      BY <2>0, <2>3, <3>1, FailsTypes DEF Updates
    <3>2. CASE ~Fails(o)
      <4>1. /\ noncritical' \subseteq Person /\ account' \subseteq Person
            /\ sensitive' \in [Person -> Email \cup {None}]
        BY <1>0, <2>0, <2>3 DEF Updates
      <4>2. QED
        BY <2>0, <2>3, <3>2, <4>1, CommitsTypes DEF Updates
    <3>3. QED
      BY <3>1, <3>2
  <2>4. CASE Deletes(o)
    <3>1. CASE Fails(o)
      BY <2>0, <2>4, <3>1, FailsTypes DEF Deletes
    <3>2. CASE ~Fails(o)
      <4>1. /\ noncritical' \subseteq Person /\ account' \subseteq Person
            /\ sensitive' \in [Person -> Email \cup {None}]
        BY <1>0, <2>0, <2>4, <3>2 DEF Deletes
      <4>2. QED
        BY <2>4, <3>2, <4>1, CommitsTypes DEF Deletes
    <3>3. QED
      BY <3>1, <3>2
  <2>5. CASE Audits(o)
    BY <1>0, <2>5 DEF Audits, Base, Stepped
  <2>6. CASE Seeds(o)
    BY <1>0, <2>0, <2>6 DEF Seeds, Base, Stepped
  <2>7. CASE Crashes(o)
    BY <1>0, <2>0, <2>7 DEF Crashes, Break, Base, Stepped
  <2>8. QED
    BY <1>1, <2>1, <2>2, <2>3, <2>4, <2>5, <2>6, <2>7 DEF Outcome
<1>2. CASE Around
  BY <1>0, <1>2 DEF Around, Base
<1>3. QED
  BY <1>1, <1>2, Outcomes

\* What a step does to the rows, whoever takes it.
LEMMA RowsStep ==
    ASSUME Base, Progress, NEW o \in Slot, Outcome(o)
    PROVE  \A r \in Person :
             /\ r # op[o].person => /\ r \in noncritical' <=> r \in noncritical
                                    /\ sensitive'[r] = sensitive[r]
                                    /\ r \in account' <=> r \in account
             /\ op[o].do \in {"idle", "update"} => /\ r \in noncritical' <=> r \in noncritical
                                                   /\ sensitive'[r] = None <=> sensitive[r] = None
                                                   /\ r \in account' <=> r \in account
<1>0. sensitive \in [Person -> Email \cup {None}]
  BY DEF Base
<1>1. CASE Begins(o)
  BY <1>1 DEF Begins
<1>2. CASE Creates(o)
  BY <1>0, <1>2 DEF Creates, Fails
<1>3. CASE Updates(o)
  <2>1. UNCHANGED <<noncritical, account>> /\ op[o].do = "update"
    BY <1>3 DEF Updates
  <2>2. \/ sensitive' = sensitive
        \/ /\ sensitive[op[o].person] # None
           /\ op[o].email = None /\ sensitive' = [sensitive EXCEPT ![op[o].person] = @]
        \/ /\ sensitive[op[o].person] # None
           /\ op[o].email # None /\ sensitive' = [sensitive EXCEPT ![op[o].person] = op[o].email]
    BY <1>3 DEF Updates
  <2>3. \A r \in Person :
          /\ r # op[o].person => sensitive'[r] = sensitive[r]
          /\ sensitive'[r] = None <=> sensitive[r] = None
    BY <1>0, <2>2
  <2>4. QED
    BY <2>1, <2>3
<1>4. CASE Deletes(o)
  BY <1>0, <1>4 DEF Deletes, Fails
<1>5. CASE Audits(o)
  BY <1>5 DEF Audits
<1>6. CASE Seeds(o)
  BY <1>0, <1>6 DEF Seeds
<1>7. CASE Crashes(o)
  BY <1>7 DEF Crashes
<1>8. QED
  BY <1>1, <1>2, <1>3, <1>4, <1>5, <1>6, <1>7 DEF Outcome

\* An email nobody else has keeps the emails apart.
LEMMA EmailsApart ==
    ASSUME Base, Constraints, NEW q \in Person, NEW e, e # None,
           \A r \in Person \ {q} : sensitive[r] # e,
           sensitive' = [sensitive EXCEPT ![q] = e]
    PROVE  \A p, r \in Person : sensitive'[p] = sensitive'[r] /\ sensitive'[p] # None => p = r
<1>1. \A p \in Person : sensitive'[p] = IF p = q THEN e ELSE sensitive[p]
  BY DEF Base
<1>2. QED
  BY <1>1 DEF Constraints

LEMMA ConstraintsStep == Base /\ Constraints /\ [Next]_vars => Constraints'
<1> SUFFICES ASSUME Base, Constraints, [Next]_vars PROVE Constraints'
  OBVIOUS
<1>0. /\ sensitive \in [Person -> Email \cup {None}]
      /\ \A p, r \in Person : sensitive[p] = sensitive[r] /\ sensitive[p] # None => p = r
      /\ enforced => referenced \subseteq account
  BY DEF Base, Constraints
<1>1. ASSUME NEW o \in Slot, Outcome(o) PROVE Constraints'
  <2> DEFINE q == op[o].person
  <2>0. /\ op[o].do # "idle" => q \in Person
        /\ op[o].do \in {"create", "seed"} => op[o].email # None
    BY RequestFacts DEF Shape
  <2>1. enforced' => referenced' \subseteq account'
    BY <1>0, <1>1 DEF Outcome, Begins, Creates, Updates, Deletes, Audits, Seeds, Crashes,
                      Commits, Fails
  <2>2. \/ sensitive' = sensitive
        \/ /\ q \in Person /\ op[o].email # None /\ ~Taken(op[o])
           /\ sensitive' = [sensitive EXCEPT ![q] = op[o].email]
        \/ q \in Person /\ sensitive' = [sensitive EXCEPT ![q] = None]
        \/ q \in Person /\ sensitive' = [sensitive EXCEPT ![q] = @]
    BY <1>1, <2>0 DEF Outcome, Begins, Creates, Updates, Deletes, Audits, Seeds, Crashes, Fails
  <2>3. ASSUME sensitive' = [sensitive EXCEPT ![q] = op[o].email], q \in Person,
               op[o].email # None, ~Taken(op[o])
        PROVE  \A p, r \in Person : sensitive'[p] = sensitive'[r] /\ sensitive'[p] # None => p = r
    BY <2>3, EmailsApart DEF Taken
  <2>4. \A p, r \in Person : sensitive'[p] = sensitive'[r] /\ sensitive'[p] # None => p = r
    BY <1>0, <2>2, <2>3
  <2>5. QED
    BY <2>1, <2>4 DEF Constraints
<1>2. CASE Around
  BY <1>0, <1>2 DEF Around, Constraints
<1>3. QED
  BY <1>1, <1>2, Outcomes

\* A request that may still bring its account about has its rows for itself.
Exclusive(o) == op[o].do = "seed" \/ (op[o].do = "create" /\ op[o].todo # <<>>)

\* Only such a request brings an account or an email to a person without.
LEMMA Appears ==
    ASSUME Base, NEW o \in Slot, Outcome(o), ~Exclusive(o), NEW r \in Person
    PROVE  /\ r \in account' => r \in account
           /\ sensitive[r] = None => sensitive'[r] = None
<1>0. sensitive \in [Person -> Email \cup {None}]
  BY DEF Base
<1>1. op[o].do # "seed" /\ ~(op[o].do = "create" /\ op[o].todo # <<>>)
  BY DEF Exclusive
<1>2. CASE Begins(o) \/ Audits(o) \/ Crashes(o)
  BY <1>2 DEF Begins, Audits, Crashes
<1>3. CASE Creates(o)
  BY <1>1, <1>3, TodoFacts DEF Creates, Fails
<1>4. CASE Updates(o)
  BY <1>0, <1>4 DEF Updates
<1>5. CASE Deletes(o)
  BY <1>0, <1>5 DEF Deletes, Fails
<1>6. QED
  BY <1>1, <1>2, <1>3, <1>4, <1>5 DEF Outcome, Seeds

\* Nobody joins a person whose rows are somebody's own.
LEMMA StaysAlone ==
    ASSUME Base, Progress, NEW o \in Slot, Outcome(o), NEW x \in Slot \ {o}, Exclusive(x)
    PROVE  Alone(x) /\ Alone(x)' /\ op[x].person \in Person
<1>1. Alone(x) /\ op[x].person \notin account
  BY DEF Progress, RowsOf, Exclusive
<1>2. op[x].person \in Person /\ op[x].person # None
  BY RequestFacts, ConstantsAssumption DEF Shape, Exclusive
<1>3. Stepped(o)
  BY DEF Outcome, Begins, Creates, Updates, Deletes, Audits, Seeds, Crashes, Commits, Moves, Fails
<1>4. op'[o].person # op[x].person
  <2>1. CASE Begins(o)
    BY <1>1, <2>1 DEF Begins, Unused, InFlight
  <2>2. CASE ~Begins(o)
    <3>1. op'[o] = Idle \/ op'[o].person = op[o].person
      BY <2>2 DEF Outcome, Creates, Updates, Deletes, Audits, Seeds, Crashes, Commits, Moves, Fails
    <3>2. QED
      BY <1>1, <1>2, <3>1 DEF Alone, Idle
  <2>3. QED
    BY <2>1, <2>2
<1>5. QED
  BY <1>1, <1>2, <1>3, <1>4 DEF Alone, Stepped

LEMMA OtherRows ==
    ASSUME Base, Progress, NEW o \in Slot, Outcome(o), NEW x \in Slot \ {o}
    PROVE  RowsOf(x)'
<1>1. op'[x] = op[x]
  BY DEF Outcome, Begins, Creates, Updates, Deletes, Audits, Seeds, Crashes, Commits, Moves,
         Fails, Stepped
<1>2. RowsOf(x) /\ (op[x].do # "idle" => op[x].person \in Person)
  BY RequestFacts DEF Progress, Shape
<1>3. CASE Exclusive(x)
  <2>1. Alone(x)' /\ op[x].person \in Person /\ op[x].person # op[o].person
    BY <1>3, StaysAlone DEF Alone
  <2>2. /\ op[x].person \in noncritical' <=> op[x].person \in noncritical
        /\ sensitive'[op[x].person] = sensitive[op[x].person]
        /\ op[x].person \in account' <=> op[x].person \in account
    BY <2>1, RowsStep
  <2>3. QED
    BY <1>1, <1>2, <2>1, <2>2 DEF RowsOf
<1>4. CASE ~Exclusive(x) /\ op[x].do = "delete"
  <2>1. op[x].person \in Person
    BY <1>2, <1>4
  <2>2. CASE Exclusive(o)
    <3>1. op[x].person # op[o].person
      BY <2>2 DEF Progress, RowsOf, Exclusive, Alone
    <3>2. QED
      BY <1>1, <1>2, <1>4, <2>1, <3>1, RowsStep DEF RowsOf
  <2>3. CASE ~Exclusive(o)
    BY <1>1, <1>2, <1>4, <2>1, <2>3, Appears DEF RowsOf
  <2>4. QED
    BY <2>2, <2>3
<1>5. CASE ~Exclusive(x) /\ op[x].do # "delete"
  BY <1>1, <1>5, TodoFacts DEF RowsOf, Exclusive
<1>6. QED
  BY <1>3, <1>4, <1>5

\* The rows of the request that takes the step.
LEMMA OwnRows ==
    ASSUME Base, Whole, Progress, NEW o \in Slot, Outcome(o)
    PROVE  RowsOf(o)'
<1> DEFINE p == op[o].person
<1>0. /\ op[o].do # "idle" => p \in Person
      /\ op[o].do = "create" => op[o].email # None
      /\ sensitive \in [Person -> Email \cup {None}]
      /\ RowsOf(o)
  BY RequestFacts DEF Shape, Base, Progress
<1>1. op'[o] = Idle => RowsOf(o)'
  BY DEF Idle, RowsOf
<1>2. CASE Begins(o)
  <2>1. CASE op'[o].do \in {"update", "delete"}
    BY <1>2, <2>1, TodoFacts DEF Begins, RowsOf
  <2>2. CASE op'[o].do \in {"create", "seed"}
    <3>1. /\ op'[o].person \notin noncritical' \cup account' /\ sensitive'[op'[o].person] = None
          /\ \A x \in Slot : op[x].person # op'[o].person
          /\ op'[o].do = "create" => op'[o].todo = Creation
          /\ Stepped(o)
      BY <1>2, <2>2 DEF Begins, Unused, InFlight
    <3>2. QED
      BY <2>2, <3>1, TodoFacts DEF RowsOf, Alone, Stepped
  <2>3. QED
    BY <1>2, <2>1, <2>2 DEF Begins
<1>3. CASE Creates(o) /\ op'[o] # Idle
  <2>1. /\ op[o].do = "create" /\ op'[o].do = "create" /\ op'[o].person = p /\ Stepped(o)
        /\ op[o].todo # <<>>
    BY <1>3, TodoFacts DEF Creates, Fails, Commits, Moves
  <2>2. Alone(o)'
    BY <1>0, <2>1 DEF RowsOf, Alone, Stepped
  <2>3. CASE op[o].todo = Creation
    <3>1. /\ noncritical' = noncritical \cup {p} /\ UNCHANGED <<sensitive, account>>
          /\ op'[o].todo = <<"sensitive", "account">>
      BY <1>3, <2>3, TodoFacts DEF Creates, Fails, Commits, Moves
    <3>2. QED
      BY <1>0, <2>1, <2>2, <2>3, <3>1, TodoFacts DEF RowsOf
  <2>4. CASE op[o].todo = <<"sensitive", "account">>
    <3>1. /\ sensitive' = [sensitive EXCEPT ![p] = op[o].email] /\ UNCHANGED <<noncritical, account>>
          /\ op'[o].todo = <<"account">>
      BY <1>3, <2>4, TodoFacts DEF Creates, Fails, Commits, Moves
    <3>2. QED
      BY <1>0, <2>1, <2>2, <2>4, <3>1, TodoFacts DEF RowsOf
  <2>5. CASE op[o].todo = <<"account">>
    <3>1. op'[o].todo = <<>>
      BY <1>3, <2>5, TodoFacts DEF Creates, Fails, Commits, Moves
    <3>2. QED
      BY <2>1, <3>1, TodoFacts DEF RowsOf
  <2>6. QED
    BY <1>3, <2>3, <2>4, <2>5 DEF Creates, Fails
<1>4. CASE Updates(o) /\ op'[o] # Idle
  <2>1. op'[o].do = "update"
    BY <1>4 DEF Updates, Fails, Commits, Moves
  <2>2. QED
    BY <2>1 DEF RowsOf
<1>5. CASE Deletes(o) /\ op'[o] # Idle
  <2>1. op'[o].do = "delete" /\ op[o].do = "delete" /\ op'[o].person = p /\ p \in Person
    BY <1>0, <1>5 DEF Deletes, Fails, Commits, Moves
  <2>2. CASE op[o].todo = Deletion
    <3>1. p \notin account' /\ op'[o].todo = <<"sensitive", "noncritical">>
      BY <1>5, <2>2, TodoFacts DEF Deletes, Fails, Commits, Moves
    <3>2. QED
      BY <2>1, <3>1, TodoFacts DEF RowsOf
  <2>3. CASE op[o].todo = <<"sensitive", "noncritical">>
    <3>1. /\ op'[o].todo = <<"noncritical">> /\ UNCHANGED account
          /\ sensitive' = [sensitive EXCEPT ![p] = None]
      BY <1>5, <2>3, TodoFacts DEF Deletes, Fails, Commits, Moves
    <3>2. sensitive'[p] = None /\ p \notin account'
      BY <1>0, <2>1, <2>3, <3>1, TodoFacts DEF RowsOf
    <3>3. QED
      BY <2>1, <3>1, <3>2, TodoFacts DEF RowsOf
  <2>4. CASE op[o].todo = <<"noncritical">>
    <3>1. op'[o].todo = <<>>
      BY <1>5, <2>4, TodoFacts DEF Deletes, Fails, Commits, Moves
    <3>2. QED
      BY <2>1, <3>1, TodoFacts DEF RowsOf
  <2>5. QED
    BY <1>5, <2>2, <2>3, <2>4 DEF Deletes, Fails
<1>6. CASE Audits(o) /\ op'[o] # Idle
  <2>1. /\ op'[o].do = op[o].do /\ op'[o].person = p /\ op'[o].todo = op[o].todo
        /\ UNCHANGED <<noncritical, sensitive, account>> /\ Stepped(o)
    BY <1>6 DEF Audits
  <2>2. QED
    BY <1>0, <2>1 DEF RowsOf, Alone, Stepped
<1>7. QED
  BY <1>1, <1>2, <1>3, <1>4, <1>5, <1>6 DEF Outcome, Seeds, Crashes

LEMMA ProgressStep == Base /\ Whole /\ Progress /\ [Next]_vars => Progress'
<1> SUFFICES ASSUME Base, Whole, Progress, [Next]_vars PROVE Progress'
  OBVIOUS
<1>1. ASSUME NEW o \in Slot, Outcome(o), NEW x \in Slot PROVE RowsOf(x)'
  BY <1>1, OtherRows, OwnRows
<1>2. ASSUME Around, NEW x \in Slot PROVE RowsOf(x)'
  BY <1>2 DEF Around, Progress, RowsOf, Alone
<1>3. QED
  BY <1>1, <1>2, Outcomes DEF Progress

LEMMA WholeStep == Base /\ Whole /\ Progress /\ [Next]_vars => Whole'
<1> SUFFICES ASSUME Base, Whole, Progress, [Next]_vars PROVE Whole'
  OBVIOUS
<1>0. sensitive \in [Person -> Email \cup {None}] /\ account \subseteq Person
  BY DEF Base
<1>1. ASSUME NEW o \in Slot, Outcome(o) PROVE Whole'
  <2> DEFINE p == op[o].person
  <2>0. /\ op[o].do # "idle" => p \in Person
        /\ op[o].do \in {"create", "seed"} => op[o].email # None
        /\ RowsOf(o)
    BY RequestFacts DEF Shape, Progress
  <2>1. CASE UNCHANGED <<noncritical, sensitive, account>>
    BY <2>1 DEF Whole
  <2>2. CASE Creates(o) /\ ~Fails(o)
    <3>1. CASE op[o].todo = Creation
      <4>1. noncritical' = noncritical \cup {p} /\ UNCHANGED <<sensitive, account>>
        BY <2>2, <3>1, TodoFacts DEF Creates
      <4>2. QED
        BY <4>1 DEF Whole
    <3>2. CASE op[o].todo = <<"sensitive", "account">>
      <4>1. /\ sensitive' = [sensitive EXCEPT ![p] = op[o].email]
            /\ UNCHANGED <<noncritical, account>>
            /\ p \in noncritical /\ op[o].email # None
        BY <2>0, <2>2, <3>2, TodoFacts DEF Creates, RowsOf
      <4>2. QED
        BY <1>0, <4>1 DEF Whole
    <3>3. CASE op[o].todo = <<"account">>
      <4>1. /\ account' = account \cup {p} /\ UNCHANGED <<noncritical, sensitive>>
            /\ sensitive[p] # None
        BY <2>0, <2>2, <3>3, TodoFacts DEF Creates, RowsOf
      <4>2. QED
        BY <4>1 DEF Whole
    <3>4. QED
      BY <2>2, <3>1, <3>2, <3>3 DEF Creates
  <2>3. CASE Updates(o)
    <3>1. UNCHANGED <<noncritical, account>> /\ op[o].do = "update"
      BY <2>3 DEF Updates
    <3>2. \A r \in Person : sensitive'[r] = None <=> sensitive[r] = None
      BY <1>1, <3>1, RowsStep
    <3>3. QED
      BY <1>0, <3>1, <3>2 DEF Whole
  <2>4. CASE Deletes(o) /\ ~Fails(o)
    <3>1. CASE op[o].todo = Deletion
      <4>1. account' \subseteq account /\ UNCHANGED <<noncritical, sensitive>>
        BY <2>4, <3>1, TodoFacts DEF Deletes
      <4>2. QED
        BY <4>1 DEF Whole
    <3>2. CASE op[o].todo = <<"sensitive", "noncritical">>
      <4>1. /\ sensitive' = [sensitive EXCEPT ![p] = None] /\ UNCHANGED <<noncritical, account>>
            /\ p \notin account
        BY <2>0, <2>4, <3>2, TodoFacts DEF Deletes, RowsOf
      <4>2. QED
        BY <1>0, <4>1 DEF Whole
    <3>3. CASE op[o].todo = <<"noncritical">>
      <4>1. /\ noncritical' = noncritical \ {p} /\ UNCHANGED <<sensitive, account>>
            /\ sensitive[p] = None
        BY <2>0, <2>4, <3>3, TodoFacts DEF Deletes, RowsOf
      <4>2. QED
        BY <4>1 DEF Whole
    <3>4. QED
      BY <2>4, <3>1, <3>2, <3>3 DEF Deletes
  <2>5. CASE Seeds(o)
    <3>1. \/ UNCHANGED <<noncritical, sensitive, account>>
          \/ /\ noncritical' = noncritical \cup {p}
             /\ sensitive' = [sensitive EXCEPT ![p] = op[o].email]
             /\ account' = account \cup {p} /\ p \in Person /\ op[o].email # None
      BY <2>0, <2>5 DEF Seeds
    <3>2. QED
      BY <1>0, <3>1 DEF Whole
  <2>6. QED
    BY <1>1, <2>1, <2>2, <2>3, <2>4, <2>5 DEF Outcome, Begins, Audits, Crashes, Fails
<1>2. CASE Around
  BY <1>2 DEF Around, Whole
<1>3. QED
  BY <1>1, <1>2, Outcomes

\* The witness of Explained, for a person, in the next state.
HalfWayNow(r) == \E o \in Slot : op'[o].person = r /\ HalfWay(o)'

LEMMA ExplainedStep == Base /\ Whole /\ Progress /\ Explained /\ [Next]_vars => Explained'
<1> SUFFICES ASSUME Base, Whole, Progress, Explained, [Next]_vars, NEW r \in Person, Leftover(r)'
             PROVE  r \in broken' \/ HalfWayNow(r)
  BY DEF Explained, HalfWayNow, HalfWay
<1>0. sensitive \in [Person -> Email \cup {None}] /\ broken \subseteq Person
  BY DEF Base
<1>1. ASSUME NEW o \in Slot, Outcome(o) PROVE r \in broken' \/ HalfWayNow(r)
  <2> DEFINE p == op[o].person
  <2>1. \A x \in Slot \ {o} : op'[x] = op[x]
    BY <1>1 DEF Outcome, Begins, Creates, Updates, Deletes, Audits, Seeds, Crashes, Commits,
                Moves, Fails, Stepped
  <2>2. \A x \in Slot \ {o} : op[x].person = r /\ HalfWay(x) => HalfWayNow(r)
    BY <2>1 DEF HalfWayNow, HalfWay
  <2>3. ASSUME Leftover(r), r \in broken => r \in broken', op[o].person = r /\ HalfWay(o) => r \in broken'
        PROVE  r \in broken' \/ HalfWayNow(r)
    BY <2>2, <2>3 DEF Explained
  <2>4. CASE Begins(o)
    <3>1. Leftover(r) /\ ~HalfWay(o) /\ (r \in broken => r \in broken')
      BY <2>4 DEF Begins, Leftover, HalfWay, Unused
    <3>2. QED
      BY <2>3, <3>1
  <2>5. CASE Fails(o) \/ Crashes(o)
    <3>1. Leftover(r) /\ (r \in broken => r \in broken') /\ (p = r /\ HalfWay(o) => r \in broken')
      BY <2>5 DEF Fails, Crashes, Break, Leftover
    <3>2. QED
      BY <2>3, <3>1
  <2>6. CASE r # p /\ (Creates(o) \/ Updates(o) \/ Deletes(o) \/ Audits(o) \/ Seeds(o)) /\ ~Fails(o)
    <3>1. Leftover(r)
      BY <1>1, <2>6, RowsStep DEF Leftover
    <3>2. broken' = broken
      BY <2>6 DEF Creates, Updates, Deletes, Audits, Seeds, Commits
    <3>3. QED
      BY <2>3, <2>6, <3>1, <3>2
  <2>7. CASE r = p /\ Creates(o) /\ ~Fails(o)
    <3>1. op[o].todo # <<"account">>
      BY <2>7, TodoFacts DEF Creates, Leftover
    <3>2. /\ op'[o].do = "create" /\ op'[o].person = r
          /\ op'[o].todo \in {<<"sensitive", "account">>, <<"account">>}
      BY <2>7, <3>1 DEF Creates, Commits, Moves
    <3>3. QED
      BY <3>2 DEF HalfWayNow, HalfWay
  <2>8. CASE r = p /\ Updates(o) /\ ~Fails(o)
    <3>1. Leftover(r) /\ broken' = broken /\ ~HalfWay(o)
      BY <1>1, <2>8, RowsStep DEF Leftover, Updates, Commits, HalfWay
    <3>2. QED
      BY <2>3, <3>1
  <2>9. CASE r = p /\ Deletes(o) /\ ~Fails(o)
    <3>1. op[o].todo # <<"noncritical">>
      <4>1. ASSUME op[o].todo = <<"noncritical">> PROVE FALSE
        <5>1. noncritical' = noncritical \ {p} /\ UNCHANGED sensitive /\ sensitive[p] = None
          BY <2>9, <4>1, TodoFacts DEF Deletes, Progress, RowsOf
        <5>2. QED
          BY <2>9, <5>1 DEF Leftover
      <4>2. QED
        BY <4>1
    <3>2. /\ op'[o].do = "delete" /\ op'[o].person = r
          /\ op'[o].todo \in {<<"sensitive", "noncritical">>, <<"noncritical">>}
      BY <2>9, <3>1 DEF Deletes, Commits, Moves
    <3>3. QED
      BY <3>2, TodoFacts DEF HalfWayNow, HalfWay
  <2>10. CASE r = p /\ Audits(o)
    <3>1. Leftover(r) /\ broken' = broken
      BY <2>10 DEF Audits, Leftover
    <3>2. CASE op[o].todo = <<>>
      <4>1. ~HalfWay(o)
        BY <3>2, TodoFacts DEF HalfWay
      <4>2. QED
        BY <2>3, <3>1, <4>1
    <3>3. CASE op[o].todo # <<>>
      <4>1. HalfWay(o) => HalfWayNow(r)
        BY <2>10, <3>3 DEF Audits, HalfWayNow, HalfWay, Idle
      <4>2. QED
        BY <2>2, <3>1, <4>1 DEF Explained
    <3>4. QED
      BY <3>2, <3>3
  <2>11. CASE r = p /\ Seeds(o)
    <3>1. Leftover(r) /\ broken' = broken /\ ~HalfWay(o)
      BY <2>11 DEF Seeds, Leftover, HalfWay
    <3>2. QED
      BY <2>3, <3>1
  <2>12. QED
    BY <1>1, <2>4, <2>5, <2>6, <2>7, <2>8, <2>9, <2>10, <2>11 DEF Outcome
<1>2. CASE Around
  <2>1. Leftover(r) /\ broken' = broken /\ op' = op
    BY <1>2 DEF Around, Leftover
  <2>2. QED
    BY <2>1 DEF Explained, HalfWayNow, HalfWay
<1>3. QED
  BY <1>1, <1>2, Outcomes

-----------------------------------------------------------------------------
(* Theorems *)

LEMMA InductiveInit == Init => Inductive
<1> SUFFICES ASSUME Init PROVE Inductive
  OBVIOUS
<1>1. Base
  BY IdleShaped DEF Init, Base
<1>2. /\ \A p \in Person : sensitive[p] = None
      /\ \A o \in Slot : op[o].do = "idle"
  BY DEF Init, Idle
<1>3. Constraints /\ Whole /\ Progress
  BY <1>2 DEF Init, Constraints, Whole, Progress, RowsOf
<1>4. Explained
  BY <1>2 DEF Init, Explained, Leftover
<1>5. QED
  BY <1>1, <1>3, <1>4 DEF Inductive

LEMMA InductiveCorrect == Spec => []Inductive
<1>1. Inductive /\ [Next]_vars => Inductive'
  BY BaseStep, ConstraintsStep, WholeStep, ProgressStep, ExplainedStep DEF Inductive
<1>2. QED
  BY <1>1, InductiveInit, PTL DEF Spec

\* Every state has its type, emails are unique, and with foreign keys nothing
\* points to an account that is gone.
THEOREM TypeCorrect == Spec => []TypeOK
<1>1. Inductive => TypeOK
  BY BaseType DEF Inductive
<1>2. QED
  BY <1>1, InductiveCorrect, PTL

\* An account always has the rows it is read through, whatever requests overlap,
\* fail or die between two commits (PersonalDataService).
THEOREM AccountsAreWhole == Spec => []Whole
<1>1. Inductive => Whole
  BY DEF Inductive
<1>2. QED
  BY <1>1, InductiveCorrect, PTL

\* Rows without an account are left by a request that ended half way and by
\* nothing else (PersonalDataService.create_entity, delete_entity).
THEOREM OnlyBrokenLeavesRows == Spec => []NoLeftovers
<1>1. Inductive => NoLeftovers
  BY DEF Inductive, Explained, Leftover, NoLeftovers, InFlight
<1>2. QED
  BY <1>1, InductiveCorrect, PTL

-----------------------------------------------------------------------------
(* Onboarding: which request carries which account *)

\* Which requests carry the id of an account that was created.
TaskShape(t) ==
    /\ t.pc \in {"token", "mail", "get", "activate", "delete"} => t.id \in used
    /\ t.pc \in {"check", "insert"} => t.email \in Address

\* The registration that made an account is the only one to send its link.
Sending(o, i) == task[o].pc \in {"token", "mail"} /\ task[o].id = i

SendsAlone(o) ==
    \A i \in Id : Sending(o, i) =>
        /\ i \notin mailbox
        /\ \A p \in Handler : Sending(p, i) => p = o

Using(o, i) == task[o].pc \in {"get", "activate", "delete"} /\ task[o].id = i

\* A link that was delivered and has not met a failure or a second verification:
\* one request uses it, and once it has activated the account the token is gone
\* or about to be deleted by that request.
CleanLink(i) ==
    /\ \A o, p \in Handler : Using(o, i) /\ Using(p, i) => o = p
    /\ \A o \in Handler : task[o].pc = "activate" /\ task[o].id = i => i \notin verified
    /\ i \in verified /\ i \in token => \E o \in Handler : task[o].pc = "delete" /\ task[o].id = i

OnboardingInductive ==
    /\ OnboardingTypeOK
    /\ \A o \in Handler : TaskShape(task[o])
    /\ \A o \in Handler : SendsAlone(o)
    /\ \A i \in Id : (\E o \in Handler : Using(o, i)) \/ i \in verified => i \in mailbox
    /\ \A i \in Id \ disturbed : CleanLink(i)

-----------------------------------------------------------------------------
(* What a step of a request does *)

\* The request of o changes, and no other does.
TaskMoves(o) ==
    /\ task' \in [Handler -> Task]
    /\ \A p \in Handler \ {o} : task'[p] = task[p]

LEMMA TaskChanges ==
    ASSUME OnboardingInductive, NEW o \in Handler, NEW q \in Task,
           task' = [task EXCEPT ![o] = q]
    PROVE  TaskMoves(o) /\ task'[o] = q
BY DEF OnboardingInductive, OnboardingTypeOK, TaskMoves

\* It ends, or has not got as far as an account.
Rests(o) ==
    /\ TaskMoves(o) /\ task'[o].pc \in {"idle", "check", "insert"} /\ TaskShape(task'[o])
    /\ UNCHANGED <<token, mailbox, used, verified>>
    /\ disturbed \subseteq disturbed' /\ disturbed' \subseteq used
    /\ task[o].pc = "delete" => task[o].id \in disturbed'

\* It makes an account, with the next id.
Makes(o) ==
    /\ TaskMoves(o) /\ task[o].pc = "insert" /\ task'[o].pc = "token"
    /\ task'[o].id \in Id \ used
    /\ used' = used \cup {task'[o].id}
    /\ UNCHANGED <<token, mailbox, verified, disturbed>>

\* It goes on with the account it has.
Carries(o, from, to) ==
    /\ TaskMoves(o) /\ task[o].pc = from /\ task'[o].pc = to
    /\ task[o].id \in used /\ task'[o].id = task[o].id
    /\ UNCHANGED <<mailbox, used, disturbed>>

Stores(o) ==
    /\ Carries(o, "token", "mail")
    /\ token' = token \cup {task[o].id} /\ UNCHANGED verified

Mails(o) ==
    /\ TaskMoves(o) /\ task[o].pc = "mail" /\ task'[o].pc = "idle" /\ task[o].id \in used
    /\ mailbox' = mailbox \cup {task[o].id}
    /\ UNCHANGED <<token, used, verified, disturbed>>

Opens(o) ==
    /\ TaskMoves(o) /\ task[o].pc = "idle" /\ task'[o].pc = "get" /\ task'[o].id \in mailbox
    /\ disturbed' = IF Verifying(task'[o].id) THEN disturbed \cup {task'[o].id} ELSE disturbed
    /\ UNCHANGED <<token, mailbox, used, verified>>

Reads(o) ==
    /\ Carries(o, "get", "activate") /\ task[o].id \in token
    /\ UNCHANGED <<token, verified>>

Activates(o) ==
    /\ Carries(o, "activate", "delete")
    /\ verified' = verified \cup {task[o].id} /\ UNCHANGED token

Spends(o) ==
    /\ TaskMoves(o) /\ task[o].pc = "delete" /\ task'[o].pc = "idle"
    /\ token' = token \ {task[o].id}
    /\ UNCHANGED <<mailbox, used, verified, disturbed>>

Effect(o) ==
    \/ Rests(o) \/ Makes(o) \/ Stores(o) \/ Mails(o)
    \/ Opens(o) \/ Reads(o) \/ Activates(o) \/ Spends(o)

\* What happens beside the requests takes tokens away at most.
Outside ==
    /\ UNCHANGED <<task, mailbox, used, verified, disturbed>>
    /\ token' \subseteq token

LEMMA NoTaskIs == NoTask \in Task /\ NoTask.pc = "idle" /\ TaskShape(NoTask)
BY DEF NoTask, TaskAt, Task, TaskPc, TaskShape

LEMMA TaskAtIs ==
    ASSUME NEW pc \in TaskPc, NEW e \in Address \cup {Blank}, NEW i \in Id \cup {Blank}
    PROVE  /\ TaskAt(pc, e, i) \in Task
           /\ TaskAt(pc, e, i).pc = pc /\ TaskAt(pc, e, i).email = e /\ TaskAt(pc, e, i).id = i
BY DEF TaskAt, Task

LEMMA ContinueIs ==
    ASSUME OnboardingInductive, NEW o \in Handler, NEW pc \in TaskPc,
           NEW i \in Id \cup {Blank}, Continue(o, pc, i)
    PROVE  /\ TaskMoves(o)
           /\ task'[o].pc = pc /\ task'[o].id = i /\ task'[o].email = task[o].email
<1>1. task[o].email \in Address \cup {Blank}
  BY DEF OnboardingInductive, OnboardingTypeOK, Task
<1> DEFINE q == TaskAt(pc, task[o].email, i)
<1>2. q \in Task /\ q.pc = pc /\ q.id = i /\ q.email = task[o].email
  BY <1>1, TaskAtIs
<1>3. task' = [task EXCEPT ![o] = q]
  BY DEF Continue
<1> HIDE DEF q
<1> QED BY <1>2, <1>3, TaskChanges

LEMMA FinishIs ==
    ASSUME OnboardingInductive, NEW o \in Handler, Finish(o)
    PROVE  TaskMoves(o) /\ task'[o].pc = "idle" /\ TaskShape(task'[o])
BY TaskChanges, NoTaskIs DEF Finish

LEMMA NewIdIs ==
    ASSUME Id \ used # {}
    PROVE  NewId \in Id \ used
BY DEF NewId

LEMMA Effects ==
    ASSUME OnboardingInductive, NEW o \in Handler,
           Register(o) \/ Verify(o) \/ Handle(o) \/ Swallow(o) \/ Abort(o)
    PROVE  Effect(o)
<1>0. /\ task[o] \in Task /\ TaskShape(task[o]) /\ used \subseteq Id /\ disturbed \subseteq used
      /\ mailbox \subseteq used
      /\ {"idle", "check", "insert", "token", "mail", "get", "activate", "delete"} = TaskPc
  BY DEF OnboardingInductive, OnboardingTypeOK, TaskPc
<1>1. CASE Register(o)
  <2>1. PICK e \in Address : task' = [task EXCEPT ![o] = TaskAt("check", e, Blank)]
    BY <1>1 DEF Register
  <2> DEFINE q == TaskAt("check", e, Blank)
  <2>2. q \in Task /\ q.pc = "check" /\ q.email = e
    BY <1>0, TaskAtIs
  <2>3. TaskShape(q)
    BY <2>2 DEF TaskShape
  <2>4. task' = [task EXCEPT ![o] = q]
    BY <2>1
  <2> HIDE DEF q
  <2>5. TaskMoves(o) /\ task'[o] = q
    BY <2>2, <2>4, TaskChanges
  <2> QED BY <1>0, <1>1, <2>2, <2>3, <2>5 DEF Register, marks, Rests, Effect
<1>2. CASE CheckEmail(o)
  <2>1. CASE Continue(o, "insert", Blank)
    <3>1. TaskMoves(o) /\ task'[o].pc = "insert" /\ task'[o].email = task[o].email
      BY <1>0, <2>1, ContinueIs
    <3>2. TaskShape(task'[o])
      BY <1>0, <1>2, <3>1 DEF TaskShape, CheckEmail
    <3> QED BY <1>0, <1>2, <3>1, <3>2 DEF CheckEmail, marks, Rests, Effect
  <2>2. CASE Finish(o)
    BY <1>0, <1>2, <2>2, FinishIs DEF CheckEmail, marks, Rests, Effect
  <2> QED BY <1>2, <2>1, <2>2 DEF CheckEmail
<1>3. CASE Insert(o)
  <2>1. CASE Finish(o) /\ UNCHANGED used
    BY <1>0, <1>3, <2>1, FinishIs DEF Insert, Rests, Effect
  <2>2. CASE Id \ used # {} /\ used' = used \cup {NewId} /\ Continue(o, "token", NewId)
    <3>1. NewId \in Id \ used
      BY <2>2, NewIdIs
    <3>2. TaskMoves(o) /\ task'[o].pc = "token" /\ task'[o].id = NewId
      BY <1>0, <2>2, <3>1, ContinueIs
    <3> QED BY <1>3, <2>2, <3>1, <3>2 DEF Insert, Makes, Effect
  <2> QED BY <1>3, <2>1, <2>2 DEF Insert
<1>4. CASE StoreToken(o)
  <2>1. task[o].id \in used /\ task[o].id \in Id
    BY <1>0, <1>4 DEF TaskShape, StoreToken
  <2> QED BY <1>0, <1>4, <2>1, ContinueIs DEF StoreToken, marks, Stores, Carries, Effect
<1>5. CASE SendMail(o)
  BY <1>0, <1>5, FinishIs DEF SendMail, marks, TaskShape, Mails, Effect
<1>6. CASE Swallow(o)
  BY <1>0, <1>6, FinishIs DEF Swallow, TaskShape, Rests, Effect
<1>7. CASE Verify(o)
  <2>1. PICK i \in mailbox :
          /\ task' = [task EXCEPT ![o] = TaskAt("get", Blank, i)]
          /\ disturbed' = IF Verifying(i) THEN disturbed \cup {i} ELSE disturbed
    BY <1>7 DEF Verify
  <2> DEFINE q == TaskAt("get", Blank, i)
  <2>0. i \in Id /\ "get" \in TaskPc
    BY <1>0
  <2>2. q \in Task /\ q.pc = "get" /\ q.id = i
    BY <2>0, TaskAtIs
  <2>3. task' = [task EXCEPT ![o] = q]
    BY <2>1
  <2> HIDE DEF q
  <2>4. TaskMoves(o) /\ task'[o] = q
    BY <2>2, <2>3, TaskChanges
  <2> QED BY <1>7, <2>1, <2>2, <2>4 DEF Verify, Opens, Effect
<1>8. CASE GetToken(o)
  <2>1. task[o].id \in used /\ task[o].id \in Id
    BY <1>0, <1>8 DEF TaskShape, GetToken
  <2>2. CASE Finish(o)
    BY <1>0, <1>8, <2>2, FinishIs DEF GetToken, marks, Rests, Effect
  <2>3. CASE task[o].id \in token /\ Continue(o, "activate", task[o].id)
    BY <1>0, <1>8, <2>1, <2>3, ContinueIs DEF GetToken, marks, Reads, Carries, Effect
  <2> QED BY <1>8, <2>2, <2>3 DEF GetToken
<1>9. CASE Activate(o)
  <2>1. task[o].id \in used /\ task[o].id \in Id
    BY <1>0, <1>9 DEF TaskShape, Activate
  <2>2. CASE Finish(o) /\ UNCHANGED verified
    BY <1>0, <1>9, <2>2, FinishIs DEF Activate, Rests, Effect
  <2>3. CASE verified' = verified \cup {task[o].id} /\ Continue(o, "delete", task[o].id)
    BY <1>0, <1>9, <2>1, <2>3, ContinueIs DEF Activate, Activates, Carries, Effect
  <2> QED BY <1>9, <2>2, <2>3 DEF Activate
<1>10. CASE DeleteToken(o)
  BY <1>0, <1>10, FinishIs DEF DeleteToken, marks, Spends, Effect
<1>11. CASE Abort(o)
  BY <1>0, <1>11, FinishIs DEF Abort, TaskShape, Rests, Effect
<1> QED BY <1>1, <1>2, <1>3, <1>4, <1>5, <1>6, <1>7, <1>8, <1>9, <1>10, <1>11 DEF Handle

-----------------------------------------------------------------------------
(* The invariant *)

Rows ==
    /\ holder \in [Address -> Id \cup {Blank}]
    /\ row \subseteq used
    /\ active \subseteq row

\* An activation finds its account; the others leave the rows alone or take away.
LEMMA RowsOfRequests ==
    ASSUME OnboardingInductive, NEW o \in Handler,
           Register(o) \/ Verify(o) \/ Handle(o) \/ Swallow(o) \/ Abort(o)
    PROVE  Rows'
<1>0. Rows
  BY DEF OnboardingInductive, OnboardingTypeOK, Rows
<1>1. CASE Insert(o)
  <2>1. CASE UNCHANGED <<holder, row, used>>
    BY <1>0, <1>1, <2>1 DEF Insert, Rows
  <2>2. CASE /\ Id \ used # {}
             /\ holder' = [holder EXCEPT ![task[o].email] = NewId]
             /\ row' = row \cup {NewId}
             /\ used' = used \cup {NewId}
    <3>1. NewId \in Id
      BY <2>2, NewIdIs
    <3> QED BY <1>0, <1>1, <2>2, <3>1 DEF Insert, Rows
  <2> QED BY <1>1, <2>1, <2>2 DEF Insert
<1>2. CASE Activate(o)
  BY <1>0, <1>2 DEF Activate, Rows
<1>3. CASE UNCHANGED <<database, used>>
  BY <1>0, <1>3 DEF database, Rows
<1>4. CASE ~Insert(o) /\ ~Activate(o)
  BY <1>3, <1>4 DEF Register, Verify, Handle, Swallow, Abort, CheckEmail, StoreToken,
     SendMail, GetToken, DeleteToken, marks, database
<1> QED BY <1>1, <1>2, <1>4

LEMMA EffectTypeOK ==
    ASSUME OnboardingInductive, NEW o \in Handler, Effect(o), Rows'
    PROVE  OnboardingTypeOK'
<1>0. /\ token \subseteq used /\ mailbox \subseteq used /\ used \subseteq Id
      /\ verified \subseteq used /\ disturbed \subseteq used
  BY DEF OnboardingInductive, OnboardingTypeOK
<1>1. task' \in [Handler -> Task]
  BY DEF Effect, Rests, Makes, Stores, Mails, Opens, Reads, Activates, Spends, Carries, TaskMoves
<1>2. used' \subseteq Id /\ used \subseteq used'
  BY <1>0 DEF Effect, Rests, Makes, Stores, Mails, Opens, Reads, Activates, Spends, Carries
<1>3. token' \subseteq used'
  BY <1>0 DEF Effect, Rests, Makes, Stores, Mails, Opens, Reads, Activates, Spends, Carries
<1>4. mailbox' \subseteq used' /\ verified' \subseteq used'
  BY <1>0 DEF Effect, Rests, Makes, Stores, Mails, Opens, Reads, Activates, Spends, Carries
<1>5. disturbed' \subseteq used'
  BY <1>0 DEF Effect, Rests, Makes, Stores, Mails, Opens, Reads, Activates, Spends, Carries
<1> QED BY <1>1, <1>2, <1>3, <1>4, <1>5 DEF Rows, OnboardingTypeOK

LEMMA EffectShape ==
    ASSUME OnboardingInductive, NEW o \in Handler, Effect(o)
    PROVE  \A p \in Handler : TaskShape(task[p])'
<1>1. TaskMoves(o) /\ used \subseteq used'
  BY DEF Effect, Rests, Makes, Stores, Mails, Opens, Reads, Activates, Spends, Carries
<1>2. TaskShape(task[o])'
  <2>1. CASE Rests(o)
    BY <2>1 DEF Rests, TaskShape
  <2>2. CASE Opens(o)
    BY <2>2 DEF Opens, TaskShape, OnboardingInductive, OnboardingTypeOK
  <2>3. CASE ~Rests(o) /\ ~Opens(o)
    BY <2>3 DEF Effect, Makes, Stores, Mails, Reads, Activates, Spends, Carries, TaskShape
  <2> QED BY <2>1, <2>2, <2>3
<1>3. ASSUME NEW p \in Handler, p # o PROVE TaskShape(task[p])'
  BY <1>1, <1>3 DEF TaskMoves, OnboardingInductive, TaskShape
<1> QED BY <1>2, <1>3

\* A new account has a new id; the link that goes out takes its request with it.
LEMMA EffectSends ==
    ASSUME OnboardingInductive, NEW o \in Handler, Effect(o)
    PROVE  \A p \in Handler : SendsAlone(p)'
<1>0. /\ \A p \in Handler : SendsAlone(p) /\ TaskShape(task[p])
      /\ mailbox \subseteq used
  BY DEF OnboardingInductive, OnboardingTypeOK
<1> SUFFICES ASSUME NEW p \in Handler, NEW i \in Id, Sending(p, i)'
             PROVE  i \notin mailbox' /\ \A r \in Handler : Sending(r, i)' => r = p
  BY DEF SendsAlone
<1>1. CASE Makes(o)
  <2>1. \A r \in Handler : Sending(r, i) => i \in used
    BY <1>0 DEF Sending, TaskShape
  <2>2. \A r \in Handler \ {o} : Sending(r, i)' => Sending(r, i)
    BY <1>1 DEF Makes, TaskMoves, Sending
  <2>3. Sending(o, i)' => i \notin used
    BY <1>1 DEF Makes, Sending
  <2>4. p # o => Sending(p, i)
    BY <2>2
  <2> QED BY <1>0, <1>1, <2>1, <2>2, <2>3, <2>4 DEF SendsAlone, Makes
<1>2. CASE ~Makes(o)
  <2>1. \A r \in Handler : Sending(r, i)' => Sending(r, i)
    BY <1>2 DEF Effect, Rests, Stores, Mails, Opens, Reads, Activates, Spends, Carries,
       TaskMoves, Sending
  <2>2. Sending(p, i) /\ i \notin mailbox /\ \A r \in Handler : Sending(r, i) => r = p
    BY <1>0, <2>1 DEF SendsAlone
  <2>3. CASE Mails(o)
    <3>1. p # o
      BY <2>3 DEF Mails, Sending
    <3>2. task[o].id # i
      BY <2>2, <2>3, <3>1 DEF Mails, Sending
    <3> QED BY <2>1, <2>2, <2>3, <3>2 DEF Mails
  <2>4. CASE ~Mails(o)
    <3>1. mailbox' = mailbox
      BY <1>2, <2>4 DEF Effect, Rests, Stores, Opens, Reads, Activates, Spends, Carries
    <3> QED BY <2>1, <2>2, <3>1
  <2> QED BY <2>3, <2>4
<1> QED BY <1>1, <1>2

Delivered == \A i \in Id : (\E o \in Handler : Using(o, i)) \/ i \in verified => i \in mailbox

LEMMA EffectDelivered ==
    ASSUME OnboardingInductive, NEW o \in Handler, Effect(o)
    PROVE  Delivered'
<1>0. \A i \in Id : (\E p \in Handler : Using(p, i)) \/ i \in verified => i \in mailbox
  BY DEF OnboardingInductive
<1>1. mailbox \subseteq mailbox'
  BY DEF Effect, Rests, Makes, Stores, Mails, Opens, Reads, Activates, Spends, Carries
<1>2. ASSUME NEW i \in Id, i \in verified' PROVE i \in mailbox'
  <2>1. i \in verified \/ Using(o, i)
    BY <1>2 DEF Effect, Rests, Makes, Stores, Mails, Opens, Reads, Activates, Spends, Carries, Using
  <2> QED BY <1>0, <1>1, <2>1
<1>3. ASSUME NEW i \in Id, NEW p \in Handler, Using(p, i)' PROVE i \in mailbox'
  <2>1. Using(p, i) \/ i \in mailbox
    BY <1>3 DEF Effect, Rests, Makes, Stores, Mails, Opens, Reads, Activates, Spends, Carries,
       TaskMoves, Using
  <2> QED BY <1>0, <1>1, <2>1
<1> QED BY <1>2, <1>3 DEF Delivered

LEMMA EffectClean ==
    ASSUME OnboardingInductive, NEW o \in Handler, Effect(o), NEW i \in Id \ disturbed'
    PROVE  CleanLink(i)'
<1>0. i \in Id \ disturbed /\ disturbed \subseteq disturbed'
  BY DEF Effect, Rests, Makes, Stores, Mails, Opens, Reads, Activates, Spends, Carries
<1>1. /\ \A p, r \in Handler : Using(p, i) /\ Using(r, i) => p = r
      /\ \A p \in Handler : task[p].pc = "activate" /\ task[p].id = i => i \notin verified
      /\ i \in verified /\ i \in token
           => \E p \in Handler : task[p].pc = "delete" /\ task[p].id = i
  BY <1>0 DEF OnboardingInductive, CleanLink
<1>2. \A p \in Handler \ {o} : task'[p] = task[p]
  BY DEF Effect, Rests, Makes, Stores, Mails, Opens, Reads, Activates, Spends, Carries, TaskMoves
<1>3. CASE Rests(o)
  BY <1>1, <1>2, <1>3 DEF Rests, Using, CleanLink
<1>4. CASE Makes(o)
  BY <1>1, <1>2, <1>4 DEF Makes, Using, CleanLink
<1>5. CASE Stores(o)
  <2>1. task[o].id = i => i \notin verified
    BY <1>5 DEF Stores, Carries, OnboardingInductive, SendsAlone, Sending
  <2> QED BY <1>1, <1>2, <1>5, <2>1 DEF Stores, Carries, Using, CleanLink
<1>6. CASE Mails(o)
  BY <1>1, <1>2, <1>6 DEF Mails, Using, CleanLink
<1>7. CASE Opens(o)
  <2>1. task'[o].id = i => \A p \in Handler : ~Using(p, i)
    BY <1>7 DEF Opens, Verifying, Using
  <2> QED BY <1>1, <1>2, <1>7, <2>1 DEF Opens, Using, CleanLink
<1>8. CASE Reads(o)
  <2>1. task[o].id = i => i \notin verified
    BY <1>1, <1>8 DEF Reads, Carries, Using
  <2> QED BY <1>1, <1>2, <1>8, <2>1 DEF Reads, Carries, Using, CleanLink
<1>9. CASE Activates(o)
  <2>1. \A p \in Handler : Using(p, i)' <=> Using(p, i)
    BY <1>2, <1>9 DEF Activates, Carries, Using
  <2>2. task[o].id = i => \A p \in Handler \ {o} : ~Using(p, i)
    BY <1>1, <1>9 DEF Activates, Carries, Using
  <2>3. \A p \in Handler : task'[p].pc = "activate" /\ task'[p].id = i => i \notin verified'
    BY <1>1, <1>2, <1>9, <2>2 DEF Activates, Carries, Using
  <2>4. i \in verified' /\ i \in token'
          => \E p \in Handler : task'[p].pc = "delete" /\ task'[p].id = i
    BY <1>1, <1>2, <1>9 DEF Activates, Carries
  <2> QED BY <1>1, <2>1, <2>3, <2>4 DEF CleanLink
<1>10. CASE Spends(o)
  BY <1>1, <1>2, <1>10 DEF Spends, Using, CleanLink
<1> QED BY <1>3, <1>4, <1>5, <1>6, <1>7, <1>8, <1>9, <1>10 DEF Effect

LEMMA OutsideKeeps ==
    ASSUME OnboardingInductive, Outside, Rows'
    PROVE  OnboardingInductive'
<1>1. OnboardingTypeOK'
  BY DEF OnboardingInductive, OnboardingTypeOK, Outside, Rows
<1>2. \A o \in Handler : TaskShape(task[o])' /\ SendsAlone(o)'
  BY DEF OnboardingInductive, Outside, TaskShape, SendsAlone, Sending
<1>3. Delivered'
  BY DEF OnboardingInductive, Outside, Delivered, Using
<1>4. \A i \in Id \ disturbed' : CleanLink(i)'
  BY DEF OnboardingInductive, Outside, CleanLink, Using
<1> QED BY <1>1, <1>2, <1>3, <1>4 DEF OnboardingInductive, Delivered

LEMMA OnboardingStep ==
    ASSUME OnboardingInductive, [OnboardingNext]_onboardingVars
    PROVE  OnboardingInductive'
<1>0. Rows
  BY DEF OnboardingInductive, OnboardingTypeOK, Rows
<1>1. ASSUME NEW o \in Handler,
             Register(o) \/ Verify(o) \/ Handle(o) \/ Swallow(o) \/ Abort(o)
      PROVE  OnboardingInductive'
  <2>1. Effect(o) /\ Rows'
    BY <1>1, Effects, RowsOfRequests
  <2>2. OnboardingTypeOK' /\ Delivered'
    BY <2>1, EffectTypeOK, EffectDelivered
  <2>3. \A p \in Handler : TaskShape(task[p])' /\ SendsAlone(p)'
    BY <2>1, EffectShape, EffectSends
  <2>4. \A i \in Id \ disturbed' : CleanLink(i)'
    BY <2>1, EffectClean
  <2> QED BY <2>2, <2>3, <2>4 DEF OnboardingInductive, Delivered
<1>2. ASSUME NEW i \in Id, ExpireToken(i) \/ Deactivate(i) \/ DeleteNonCritical(i)
      PROVE  OnboardingInductive'
  BY <1>0, <1>2, OutsideKeeps
     DEF ExpireToken, Deactivate, DeleteNonCritical, database, marks, Outside, Rows
<1>3. ASSUME NEW e \in Address, DeleteSensitive(e)
      PROVE  OnboardingInductive'
  BY <1>0, <1>3, OutsideKeeps DEF DeleteSensitive, marks, Outside, Rows
<1>4. CASE UNCHANGED onboardingVars
  BY <1>0, <1>4, OutsideKeeps DEF onboardingVars, database, marks, Outside, Rows
<1> QED BY <1>1, <1>2, <1>3, <1>4 DEF OnboardingNext

LEMMA OnboardingStart == OnboardingInit => OnboardingInductive
<1> SUFFICES ASSUME OnboardingInit PROVE OnboardingInductive
  OBVIOUS
<1>1. \A o \in Handler : task[o] = NoTask
  BY DEF OnboardingInit
<1>2. OnboardingTypeOK
  BY NoTaskIs DEF OnboardingInit, OnboardingTypeOK
<1>3. \A o \in Handler : TaskShape(task[o]) /\ SendsAlone(o)
  BY <1>1, NoTaskIs DEF SendsAlone, Sending
<1>4. \A o \in Handler, i \in Id : ~Using(o, i)
  BY <1>1, NoTaskIs DEF Using
<1>5. \A i \in Id : CleanLink(i)
  BY <1>1, <1>4, NoTaskIs DEF CleanLink, OnboardingInit
<1> QED BY <1>2, <1>3, <1>4, <1>5 DEF OnboardingInductive, OnboardingInit

LEMMA OnboardingHolds == OnboardingSpec => []OnboardingInductive
<1>1. OnboardingInductive /\ [OnboardingNext]_onboardingVars => OnboardingInductive'
  BY OnboardingStep
<1> QED BY <1>1, OnboardingStart, PTL DEF OnboardingSpec

\* Accounts, tokens, links and the requests in flight keep their types: a token or
\* a link is of an account that was created, and no account is active without its
\* row.
THEOREM OnboardingTypeCorrect == OnboardingSpec => []OnboardingTypeOK
<1>1. OnboardingInductive => OnboardingTypeOK
  BY DEF OnboardingInductive
<1> QED BY <1>1, OnboardingHolds, PTL

\* A link activates its account once, whatever an administrator does to the
\* account meanwhile (verify deletes the token after its commit), unless two
\* verifications overlapped or one died.
THEOREM LinksActivateOnce == OnboardingSpec => NotReactivated
<1> DEFINE Once == \A o \in Handler :
              task[o].pc = "activate" /\ task'[o].pc = "delete" /\ task[o].id \notin disturbed
                => task[o].id \notin verified
<1>1. OnboardingInductive => Once
  BY DEF OnboardingInductive, TaskShape, OnboardingTypeOK, CleanLink
<1>2. OnboardingInductive /\ [OnboardingNext]_onboardingVars => [Once]_onboardingVars
  BY <1>1
<1> HIDE DEF Once
<1>3. OnboardingSpec => [][Once]_onboardingVars
  BY <1>2, OnboardingHolds, PTL DEF OnboardingSpec
<1> QED BY <1>3 DEF Once, NotReactivated
=============================================================================

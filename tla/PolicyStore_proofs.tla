------------------------- MODULE PolicyStore_proofs -------------------------
(***************************************************************************)
(* Theorems about PolicyStore for every set of rules, workers and threads,  *)
(* and every policy.csv that starts with the master's wildcard.            *)
(***************************************************************************)
EXTENDS PolicyStore, TLAPS

\* Which fields of a request are set at each point of its code.
Shape(q) ==
    /\ q.pc = "idle" => q.enf = None
    /\ q.pc \in {"authorize", "act", "mem", "db"} => q.enf # None
    /\ q.pc = "seed" => q.n < Len(Seed)
    /\ q.kind # "check" => q.rule # None
    /\ q.pc \in {"again", "act", "mem", "db"} => q.kind # "check"
    /\ q.pc \in {"mem", "db"} /\ q.kind = "remove" => q.rule # Master

ShapedOperation == {q \in Operation : Shape(q)}

\* The enforcer a worker has in service, or a request in hand, was built by the
\* worker, and while one is in hand the worker has one in service.
Built ==
    /\ \A w \in Worker : current[w] # None => WorkerOf[current[w]] = w
    /\ \A o \in Slot : op[o].pc \in {"again", "act", "mem", "db"} \/ op[o].enf # None =>
           current[WorkerOf[o]] # None
    /\ \A o \in Slot : op[o].enf # None => WorkerOf[op[o].enf] = WorkerOf[o]

Base ==
    /\ db \subseteq Rule
    /\ mem \in [Slot -> SUBSET Rule]
    /\ current \in [Worker -> Slot \cup {None}]
    /\ op \in [Slot -> ShapedOperation]
    /\ revoked \subseteq Rule
    /\ unsure \in [Slot -> SUBSET Rule]
    /\ Built

Building(o) == op[o].pc \in {"load", "seed", "publish"}

\* An enforcer that is still being built is nobody's yet.
Private ==
    \A o \in Slot : Building(o) =>
        /\ \A w \in Worker : current[w] # o
        /\ \A p \in Slot : op[p].enf # o

\* The master's rule is in the table before it is in any memory, and in the
\* memory of every enforcer from its first seeded rule on.
MasterKept ==
    /\ db # {} => Master \in db
    /\ \A o \in Slot : Master \in mem[o] => Master \in db
    /\ \A o \in Slot : op[o].pc = "publish" \/ (op[o].pc = "seed" /\ op[o].n > 0)
           => Master \in mem[o]
    /\ \A o \in Slot : op[o].enf # None => Master \in mem[op[o].enf]
    /\ MasterInService

\* Of a rule it has no doubt about, an enforcer holds what the table holds, but for
\* the one edit of that rule that is between the two.
Agreement ==
    \A x \in Slot : \A r \in Rule \ unsure[x] :
        /\ \A o, p \in Slot : Editing(o, x, r) /\ Editing(p, x, r) => o = p
        /\ \A o \in Slot : Editing(o, x, r) => (r \in mem[x] <=> op[o].kind = "add")
        /\ (\A o \in Slot : ~Editing(o, x, r)) => (r \in mem[x] <=> r \in db)

\* What was revoked is not in the table, nor on its way to it, and the table it was
\* taken from is not seeded.
Away ==
    /\ revoked \cap db = {}
    /\ \A o \in Slot : op[o].pc = "db" /\ op[o].kind = "add" => op[o].rule \notin revoked
    /\ revoked # {} => db # {} /\ \A o \in Slot : op[o].pc # "seed"

-----------------------------------------------------------------------------
(* Types *)

LEMMA BaseType == Base => TypeOK
BY DEF Base, TypeOK, ShapedOperation

\* What Base says of one request.
LEMMA RequestFacts ==
    ASSUME Base, NEW o \in Slot
    PROVE  op[o] \in Operation /\ Shape(op[o])
BY DEF Base, ShapedOperation

LEMMA IdleShaped == Idle \in ShapedOperation
BY DEF Idle, State, ShapedOperation, Shape, Operation, Pc, Kind

\* A step that replaces one request leaves the others as they are.
LEMMA RequestUpdate ==
    ASSUME Base, NEW o \in Slot, NEW q \in ShapedOperation, op' = [op EXCEPT ![o] = q]
    PROVE  /\ op' \in [Slot -> ShapedOperation]
           /\ \A p \in Slot : op'[p] = IF p = o THEN q ELSE op[p]
BY DEF Base

\* Goto keeps what a request asks for.
LEMMA GotoShaped ==
    ASSUME Base, NEW o \in Slot, NEW pc \in Pc \ {"idle"}, NEW enf \in Slot \cup {None},
           Goto(o, pc, enf),
           pc \in {"authorize", "act", "mem", "db"} => enf # None,
           pc \in {"again", "act", "mem", "db"} => op[o].kind # "check",
           pc \in {"mem", "db"} /\ op[o].kind = "remove" => op[o].rule # Master
    PROVE  /\ op' \in [Slot -> ShapedOperation]
           /\ \A p \in Slot :
                op'[p] = IF p = o THEN State(pc, op[o].kind, op[o].rule, enf, 0) ELSE op[p]
<1>1. op[o] \in Operation /\ Shape(op[o])
  BY RequestFacts
<1>2. Len(Seed) \in Nat /\ 0 < Len(Seed)
  BY ConstantsAssumption
<1>3. State(pc, op[o].kind, op[o].rule, enf, 0) \in ShapedOperation
  BY <1>1, <1>2 DEF State, ShapedOperation, Shape, Operation
<1>4. QED
  BY <1>3, RequestUpdate DEF Goto

LEMMA DoneShaped ==
    ASSUME Base, NEW o \in Slot, Done(o)
    PROVE  /\ op' \in [Slot -> ShapedOperation]
           /\ \A p \in Slot : op'[p] = IF p = o THEN Idle ELSE op[p]
BY IdleShaped, RequestUpdate DEF Done

LEMMA BaseStep == Base /\ [Next]_vars => Base'
<1> SUFFICES ASSUME Base, [Next]_vars PROVE Base'
  OBVIOUS
<1> USE ConstantsAssumption DEF history
<1>0. /\ db \subseteq Rule /\ mem \in [Slot -> SUBSET Rule]
      /\ current \in [Worker -> Slot \cup {None}]
      /\ revoked \subseteq Rule /\ unsure \in [Slot -> SUBSET Rule] /\ Built
  BY DEF Base
<1>1. ASSUME NEW o \in Slot, Step(o) PROVE Base'
  <2>0. op[o] \in Operation /\ Shape(op[o])
    BY RequestFacts
  <2>1. CASE Arrive(o)
    <3>1. State("get", "check", None, None, 0) \in ShapedOperation
      BY DEF State, ShapedOperation, Shape, Operation, Pc, Kind
    <3>2. /\ op' \in [Slot -> ShapedOperation]
          /\ \A p \in Slot :
               op'[p] = IF p = o THEN State("get", "check", None, None, 0) ELSE op[p]
      BY <2>1, <3>1, RequestUpdate DEF Arrive
    <3>3. QED
      BY <1>0, <2>1, <3>2 DEF Arrive, Base, Built, State
  <2>2. CASE GetEnforcer(o)
    <3>1. PICK pc \in {"load", "authorize"}, enf \in Slot \cup {None} :
            /\ op' \in [Slot -> ShapedOperation]
            /\ \A p \in Slot :
                 op'[p] = IF p = o THEN State(pc, op[o].kind, op[o].rule, enf, 0) ELSE op[p]
            /\ enf # None => enf = current[WorkerOf[o]]
      <4>1. CASE Goto(o, "load", None)
        BY <4>1, GotoShaped DEF Pc
      <4>2. CASE current[WorkerOf[o]] # None /\ Goto(o, "authorize", current[WorkerOf[o]])
        <5>1. current[WorkerOf[o]] \in Slot
          BY <1>0, <4>2
        <5>2. QED
          BY <4>2, <5>1, GotoShaped DEF Pc
      <4>3. QED
        BY <2>2, <4>1, <4>2 DEF GetEnforcer
    <3>2. UNCHANGED <<db, mem, current, revoked, unsure>>
      BY <2>2 DEF GetEnforcer
    <3>3. QED
      BY <1>0, <3>1, <3>2 DEF Base, Built, State
  <2>3. CASE Load(o)
    <3>1. \E pc \in {"seed", "publish"} :
            /\ op' \in [Slot -> ShapedOperation]
            /\ \A p \in Slot :
                 op'[p] = IF p = o THEN State(pc, op[o].kind, op[o].rule, None, 0) ELSE op[p]
      BY <2>3, GotoShaped DEF Load, Pc
    <3>2. /\ UNCHANGED <<db, current, revoked>> /\ mem' \in [Slot -> SUBSET Rule]
          /\ unsure' \in [Slot -> SUBSET Rule]
      BY <1>0, <2>3 DEF Load
    <3>3. QED
      BY <1>0, <3>1, <3>2 DEF Base, Built, State
  <2>4. CASE SeedRule(o)
    <3> DEFINE i == op[o].n + 1
    <3>1. i \in 1 .. Len(Seed) /\ Seed[i] \in Rule
      BY <2>0, <2>4 DEF SeedRule, Shape, Operation
    <3>2. \E pc \in {"seed", "publish"}, n \in Nat :
            /\ op' \in [Slot -> ShapedOperation]
            /\ \A p \in Slot :
                 op'[p] = IF p = o THEN State(pc, op[o].kind, op[o].rule, None, n) ELSE op[p]
      <4>1. CASE i < Len(Seed)
        <5>1. State("seed", op[o].kind, op[o].rule, None, i) \in ShapedOperation
          BY <2>0, <3>1, <4>1 DEF State, ShapedOperation, Shape, Operation, Pc
        <5>2. QED
          BY <2>4, <3>1, <4>1, <5>1, RequestUpdate DEF SeedRule
      <4>2. CASE ~(i < Len(Seed))
        BY <2>4, <4>2, GotoShaped DEF SeedRule, Pc
      <4>3. QED
        BY <4>1, <4>2
    <3>3. /\ UNCHANGED <<current, revoked>> /\ unsure' \in [Slot -> SUBSET Rule]
          /\ mem' \in [Slot -> SUBSET Rule] /\ db' \subseteq Rule
      BY <1>0, <2>4, <3>1 DEF SeedRule
    <3>4. QED
      BY <1>0, <3>2, <3>3 DEF Base, Built, State
  <2>5. CASE Publish(o)
    <3>1. /\ op' \in [Slot -> ShapedOperation]
          /\ \A p \in Slot :
               op'[p] = IF p = o THEN State("get", op[o].kind, op[o].rule, None, 0) ELSE op[p]
      BY <2>5, GotoShaped DEF Publish, Pc
    <3>2. /\ UNCHANGED <<db, mem, revoked, unsure>>
          /\ current' \in [Worker -> Slot \cup {None}]
          /\ \A w \in Worker : current'[w] = IF w = WorkerOf[o] THEN o ELSE current[w]
      BY <1>0, <2>5 DEF Publish
    <3>3. QED
      BY <1>0, <3>1, <3>2 DEF Base, Built, State
  <2>6. CASE Authorize(o)
    <3>1. CASE Done(o)
      BY <1>0, <2>6, <3>1, DoneShaped DEF Authorize, Base, Built, Idle, State
    <3>2. ASSUME NEW kind \in {"add", "remove"}, NEW r \in Rule,
                 op' = [op EXCEPT ![o] = State("again", kind, r, None, 0)]
          PROVE  Base'
      <4>1. State("again", kind, r, None, 0) \in ShapedOperation
        BY DEF State, ShapedOperation, Shape, Operation, Pc, Kind
      <4>2. /\ op' \in [Slot -> ShapedOperation]
            /\ \A p \in Slot : op'[p] = IF p = o THEN State("again", kind, r, None, 0) ELSE op[p]
        BY <3>2, <4>1, RequestUpdate
      <4>3. current[WorkerOf[o]] # None
        BY <1>0, <2>0, <2>6 DEF Authorize, Built, Shape
      <4>4. QED
        BY <1>0, <2>6, <4>2, <4>3 DEF Authorize, Base, Built, State
    <3>3. QED
      BY <2>6, <3>1, <3>2 DEF Authorize
  <2>7. CASE Again(o)
    <3>1. current[WorkerOf[o]] \in Slot /\ op[o].kind # "check"
      BY <1>0, <2>0, <2>7 DEF Again, Built, Shape
    <3>2. /\ op' \in [Slot -> ShapedOperation]
          /\ \A p \in Slot :
               op'[p] = IF p = o THEN State("act", op[o].kind, op[o].rule, current[WorkerOf[o]], 0)
                        ELSE op[p]
      BY <2>7, <3>1, GotoShaped DEF Again, Pc
    <3>3. WorkerOf[current[WorkerOf[o]]] = WorkerOf[o]
      BY <1>0, <3>1 DEF Built
    <3>4. QED
      BY <1>0, <2>7, <3>1, <3>2, <3>3 DEF Again, Base, Built, State
  <2>8. CASE Act(o)
    <3>1. CASE Done(o)
      BY <1>0, <2>8, <3>1, DoneShaped DEF Act, Base, Built, Idle, State
    <3>2. CASE (op[o].kind = "remove" => op[o].rule # Master) /\ Goto(o, "mem", op[o].enf)
      <4>1. op[o].enf \in Slot /\ op[o].kind # "check" /\ current[WorkerOf[o]] # None
        BY <1>0, <2>0, <2>8 DEF Act, Shape, Operation, Built
      <4>2. /\ op' \in [Slot -> ShapedOperation]
            /\ \A p \in Slot :
                 op'[p] = IF p = o THEN State("mem", op[o].kind, op[o].rule, op[o].enf, 0)
                          ELSE op[p]
        BY <3>2, <4>1, GotoShaped DEF Pc
      <4>3. QED
        BY <1>0, <2>8, <4>1, <4>2 DEF Act, Base, Built, State
    <3>3. QED
      BY <2>8, <3>1, <3>2 DEF Act
  <2>9. CASE Change(o)
    <3>1. /\ UNCHANGED <<db, current>> /\ revoked' \subseteq Rule
          /\ mem' \in [Slot -> SUBSET Rule] /\ unsure' \in [Slot -> SUBSET Rule]
      BY <1>0, <2>0, <2>9 DEF Change, Shape, Operation, Doubt
    <3>2. CASE Done(o)
      BY <1>0, <3>1, <3>2, DoneShaped DEF Base, Built, Idle, State
    <3>3. CASE Goto(o, "db", op[o].enf)
      <4>1. /\ op[o].enf \in Slot /\ op[o].kind # "check" /\ current[WorkerOf[o]] # None
            /\ op[o].kind = "remove" => op[o].rule # Master
        BY <1>0, <2>0, <2>9 DEF Change, Shape, Operation, Built
      <4>2. /\ op' \in [Slot -> ShapedOperation]
            /\ \A p \in Slot :
                 op'[p] = IF p = o THEN State("db", op[o].kind, op[o].rule, op[o].enf, 0)
                          ELSE op[p]
        BY <3>3, <4>1, GotoShaped DEF Pc
      <4>3. QED
        BY <1>0, <3>1, <4>1, <4>2 DEF Base, Built, State
    <3>4. QED
      BY <2>9, <3>2, <3>3 DEF Change
  <2>10. CASE Save(o) \/ SaveFails(o) \/ BuildFails(o)
    <3>1. /\ UNCHANGED current /\ mem' \in [Slot -> SUBSET Rule]
          /\ db' \subseteq Rule /\ revoked' \subseteq Rule
      BY <1>0, <2>0, <2>10 DEF Save, Revoke, SaveFails, BuildFails, Shape, Operation
    <3>2. unsure' \in [Slot -> SUBSET Rule]
      BY <1>0, <2>0, <2>10 DEF Save, SaveFails, BuildFails, Doubt, Shape, Operation
    <3>3. Done(o)
      BY <2>10 DEF Save, SaveFails, BuildFails
    <3>4. QED
      BY <1>0, <3>1, <3>2, <3>3, DoneShaped DEF Base, Built, Idle, State
  <2>11. QED
    BY <1>1, <2>1, <2>2, <2>3, <2>4, <2>5, <2>6, <2>7, <2>8, <2>9, <2>10 DEF Step
<1>2. ASSUME NEW w \in Worker, Restart(w) PROVE Base'
  <2>1. /\ UNCHANGED <<db, revoked>>
        /\ mem' \in [Slot -> SUBSET Rule] /\ unsure' \in [Slot -> SUBSET Rule]
        /\ current' \in [Worker -> Slot \cup {None}]
        /\ \A v \in Worker : current'[v] = IF v = w THEN None ELSE current[v]
        /\ \A o \in Slot : op'[o] = IF WorkerOf[o] = w THEN Idle ELSE op[o]
    BY <1>0, <1>2 DEF Restart
  <2>2. op' \in [Slot -> ShapedOperation]
    BY <1>2, IdleShaped DEF Restart, Base
  <2>3. QED
    BY <1>0, <2>1, <2>2 DEF Base, Built, Idle, State
<1>3. CASE UNCHANGED vars
  BY <1>0, <1>3 DEF vars, Base, Built
<1>4. QED
  BY <1>1, <1>2, <1>3 DEF Next

-----------------------------------------------------------------------------
(* The master's rule *)

\* What any step of a request does to the requests and to current.
LEMMA Others ==
    ASSUME Base, NEW o \in Slot, Step(o)
    PROVE  /\ \A p \in Slot \ {o} : op'[p] = op[p]
           /\ \A w \in Worker : current'[w] \in {current[w], o}
           /\ (\E w \in Worker : current'[w] # current[w]) =>
                  op[o].pc = "publish" /\ op'[o].pc = "get" /\ op'[o].enf = None
           /\ Building(o)' => op'[o].enf = None
           /\ Building(o)' => Building(o) \/ current[WorkerOf[o]] = None
           /\ op'[o].enf \in {None, op[o].enf, current[WorkerOf[o]]}
<1>1. op \in [Slot -> ShapedOperation] /\ current \in [Worker -> Slot \cup {None}]
  BY DEF Base
<1>2. op[o] \in Operation /\ Shape(op[o])
  BY RequestFacts
<1> USE <1>1 DEF Done, Goto, State, Idle, Building
<1>3. CASE Arrive(o)
  BY <1>3 DEF Arrive
<1>4. CASE GetEnforcer(o)
  BY <1>4 DEF GetEnforcer
<1>5. CASE Load(o)
  BY <1>5 DEF Load
<1>6. CASE SeedRule(o)
  BY <1>6 DEF SeedRule
<1>7. CASE Publish(o)
  BY <1>7 DEF Publish
<1>8. CASE Authorize(o)
  BY <1>8 DEF Authorize
<1>9. CASE Again(o)
  BY <1>9 DEF Again
<1>10. CASE Act(o)
  BY <1>10 DEF Act
<1>11. CASE Change(o)
  BY <1>11 DEF Change
<1>12. CASE Save(o) \/ SaveFails(o) \/ BuildFails(o)
  BY <1>12 DEF Save, SaveFails, BuildFails
<1>13. QED
  BY <1>3, <1>4, <1>5, <1>6, <1>7, <1>8, <1>9, <1>10, <1>11, <1>12 DEF Step

LEMMA PrivateStep == Base /\ Private /\ [Next]_vars => Private'
<1> SUFFICES ASSUME Base, Private, [Next]_vars, NEW o \in Slot, Building(o)'
             PROVE  /\ \A w \in Worker : current'[w] # o
                    /\ \A p \in Slot : op'[p].enf # o
  BY DEF Private
<1> USE ConstantsAssumption
<1>0. Built /\ current \in [Worker -> Slot \cup {None}]
  BY DEF Base
<1>1. ASSUME NEW p \in Slot, Step(p)
      PROVE  /\ \A w \in Worker : current'[w] # o
             /\ \A q \in Slot : op'[q].enf # o
  <2>1. CASE p = o
    <3>1. \A w \in Worker : current'[w] = current[w]
      BY <1>1, <2>1, Others DEF Building
    <3>2. op'[o].enf = None /\ \A q \in Slot \ {o} : op'[q] = op[q]
      BY <1>1, <2>1, Others
    <3>3. CASE Building(o)
      BY <3>1, <3>2, <3>3 DEF Private
    <3>4. CASE current[WorkerOf[o]] = None
      BY <1>0, <3>1, <3>2, <3>4 DEF Built
    <3>5. QED
      BY <1>1, <2>1, <3>3, <3>4, Others
  <2>2. CASE p # o
    <3>1. Building(o)
      BY <1>1, <2>2, Others DEF Building
    <3>2. \A w \in Worker : current[w] # o
      BY <3>1 DEF Private
    <3>3. \A q \in Slot : op[q].enf # o
      BY <3>1 DEF Private
    <3>4. QED
      BY <1>1, <2>2, <3>2, <3>3, Others
  <2>3. QED
    BY <2>1, <2>2
<1>2. ASSUME NEW w \in Worker, Restart(w)
      PROVE  /\ \A v \in Worker : current'[v] # o
             /\ \A q \in Slot : op'[q].enf # o
  <2>1. \A q \in Slot : op'[q] = IF WorkerOf[q] = w THEN Idle ELSE op[q]
    BY <1>2 DEF Restart
  <2>2. \A v \in Worker : current'[v] = IF v = w THEN None ELSE current[v]
    BY <1>0, <1>2 DEF Restart
  <2>3. Building(o)
    BY <2>1 DEF Building, Idle, State
  <2>4. QED
    BY <2>1, <2>2, <2>3 DEF Private, Idle, State
<1>3. CASE UNCHANGED vars
  BY <1>3 DEF vars, Private, Building
<1>4. QED
  BY <1>1, <1>2, <1>3 DEF Next

\* A step keeps the master's rule where it is in the table and in the memories it
\* writes; a memory it replaces is in nobody's hand.
LEMMA KeepMaster ==
    ASSUME Base, MasterKept, NEW o \in Slot, Step(o),
           db' # {} => Master \in db',
           \A p \in Slot : Master \in mem'[p] => Master \in db',
           \A p \in Slot \ {o} : Master \in mem[p] => Master \in mem'[p],
           \/ Master \in mem[o] => Master \in mem'[o]
           \/ UNCHANGED current /\ (\A w \in Worker : current[w] # o)
                 /\ (\A p \in Slot : op[p].enf # o),
           op'[o].pc = "publish" \/ (op'[o].pc = "seed" /\ op'[o].n > 0) => Master \in mem'[o]
    PROVE  MasterKept'
<1> USE ConstantsAssumption
<1>0. /\ current \in [Worker -> Slot \cup {None}]
      /\ \A p \in Slot : op[p].enf \in Slot \cup {None}
  BY RequestFacts DEF Base, Operation
<1>1. ASSUME NEW w \in Worker, current'[w] # None PROVE Master \in mem'[current'[w]]
  <2>1. CASE current'[w] = current[w]
    BY <1>0, <1>1, <2>1 DEF MasterKept, MasterInService
  <2>2. CASE current'[w] # current[w]
    <3>1. current'[w] = o /\ op[o].pc = "publish"
      BY <2>2, Others
    <3>2. Master \in mem[o]
      BY <3>1 DEF MasterKept
    <3>3. QED
      BY <2>2, <3>1, <3>2
  <2>3. QED
    BY <2>1, <2>2
<1>2. ASSUME NEW p \in Slot, op'[p].enf # None PROVE Master \in mem'[op'[p].enf]
  <2>1. CASE op'[p].enf = op[p].enf
    BY <1>0, <1>2, <2>1 DEF MasterKept
  <2>2. CASE op'[p].enf # op[p].enf
    <3>1. p = o /\ op'[p].enf = current[WorkerOf[o]]
      BY <1>2, <2>2, Others
    <3>2. Master \in mem[current[WorkerOf[o]]] /\ current[WorkerOf[o]] \in Slot
      BY <1>0, <1>2, <3>1 DEF MasterKept, MasterInService
    <3>3. QED
      BY <3>1, <3>2
  <2>3. QED
    BY <2>1, <2>2
<1>3. \A p \in Slot : op'[p].pc = "publish" \/ (op'[p].pc = "seed" /\ op'[p].n > 0)
                       => Master \in mem'[p]
  BY Others DEF MasterKept
<1>4. QED
  BY <1>1, <1>2, <1>3 DEF MasterKept, MasterInService

LEMMA MasterStep == Base /\ Private /\ MasterKept /\ [Next]_vars => MasterKept'
<1> SUFFICES ASSUME Base, Private, MasterKept, [Next]_vars PROVE MasterKept'
  OBVIOUS
<1> USE ConstantsAssumption DEF history
<1>0. /\ db \subseteq Rule /\ mem \in [Slot -> SUBSET Rule]
      /\ current \in [Worker -> Slot \cup {None}]
      /\ op \in [Slot -> ShapedOperation] /\ Built
  BY DEF Base
<1>1. ASSUME NEW o \in Slot, Step(o) PROVE MasterKept'
  <2>0. op[o] \in Operation /\ Shape(op[o])
    BY RequestFacts
  <2>1. CASE Arrive(o) \/ GetEnforcer(o) \/ Authorize(o) \/ Again(o) \/ Act(o)
    <3>1. UNCHANGED <<db, mem, current>> /\ op'[o].pc \notin {"publish", "seed"}
      BY <1>0, <2>1 DEF Arrive, GetEnforcer, Authorize, Again, Act, Goto, Done, Idle, State
    <3>2. QED
      BY <1>1, <3>1, KeepMaster DEF MasterKept
  <2>2. CASE Load(o)
    <3>1. /\ UNCHANGED <<db, current>>
          /\ \A p \in Slot : mem'[p] = IF p = o THEN db ELSE mem[p]
          /\ op'[o].pc = "publish" => db # {}
          /\ op'[o].n = 0
      BY <1>0, <2>2 DEF Load, Goto, State
    <3>2. (\A w \in Worker : current[w] # o) /\ (\A p \in Slot : op[p].enf # o)
      BY <2>2 DEF Load, Private, Building
    <3>3. QED
      BY <1>1, <3>1, <3>2, KeepMaster DEF MasterKept
  <2>3. CASE SeedRule(o)
    <3> DEFINE i == op[o].n + 1
    <3>1. i \in 1 .. Len(Seed) /\ op[o].n \in Nat
      BY <2>0, <2>3 DEF SeedRule, Shape, Operation
    <3>2. /\ \A p \in Slot : mem'[p] = IF p = o THEN mem[o] \cup {Seed[i]} ELSE mem[p]
          /\ db' = IF Seed[i] \in mem[o] THEN db ELSE db \cup {Seed[i]}
      BY <1>0, <2>3 DEF SeedRule
    <3>3. Master \in mem'[o] /\ Master \in db'
      BY <2>3, <3>1, <3>2 DEF MasterKept, SeedRule
    <3>4. QED
      BY <1>1, <3>2, <3>3, KeepMaster
  <2>4. CASE Publish(o)
    <3>1. UNCHANGED <<db, mem>> /\ op'[o].pc = "get"
      BY <1>0, <2>4 DEF Publish, Goto, State
    <3>2. QED
      BY <1>1, <3>1, KeepMaster DEF MasterKept
  <2>5. CASE Change(o)
    <3> DEFINE x == op[o].enf
    <3>1. /\ x \in Slot /\ Master \in mem[x] /\ op[o].kind \in {"add", "remove"}
          /\ op[o].kind = "remove" => op[o].rule # Master
      BY <2>0, <2>5 DEF Change, Shape, Operation, Kind, MasterKept
    <3>2. /\ UNCHANGED db /\ op'[o].pc \in {"idle", "db"}
          /\ \A p \in Slot : mem'[p] = IF p # x THEN mem[p]
                                       ELSE IF op[o].kind = "add" THEN mem[x] \cup {op[o].rule}
                                       ELSE mem[x] \ {op[o].rule}
      BY <1>0, <2>5 DEF Change, Done, Goto, Idle, State
    <3>3. \A p \in Slot : Master \in mem[p] => Master \in mem'[p]
      BY <3>1, <3>2
    <3>4. Master \in db
      BY <3>1 DEF MasterKept
    <3>5. QED
      BY <1>1, <3>2, <3>3, <3>4, KeepMaster
  <2>6. CASE Save(o)
    <3>1. /\ UNCHANGED mem /\ op'[o].pc = "idle"
          /\ \/ op[o].kind = "add" /\ db' = db \cup {op[o].rule}
             \/ op[o].kind = "remove" /\ db' = db \ {op[o].rule}
      BY <1>0, <2>6 DEF Save, Done, Idle, State
    <3>2. op[o].kind = "remove" => op[o].rule # Master
      BY <2>0, <2>6 DEF Save, Shape
    <3>3. Master \in db
      BY <2>0, <2>6 DEF Save, Shape, Operation, MasterKept
    <3>4. QED
      BY <1>1, <3>1, <3>2, <3>3, KeepMaster
  <2>7. CASE SaveFails(o)
    <3>1. UNCHANGED <<db, mem, current>> /\ op'[o].pc = "idle"
      BY <1>0, <2>7 DEF SaveFails, Done, Idle, State
    <3>2. QED
      BY <1>1, <3>1, KeepMaster DEF MasterKept
  <2>8. CASE BuildFails(o)
    <3>1. /\ UNCHANGED <<db, current>> /\ op'[o].pc = "idle"
          /\ \A p \in Slot : mem'[p] = IF p = o THEN {} ELSE mem[p]
      BY <1>0, <2>8 DEF BuildFails, Done, Idle, State
    <3>2. (\A w \in Worker : current[w] # o) /\ (\A p \in Slot : op[p].enf # o)
      BY <2>8 DEF BuildFails, Private, Building
    <3>3. QED
      BY <1>1, <3>1, <3>2, KeepMaster DEF MasterKept
  <2>9. QED
    BY <1>1, <2>1, <2>2, <2>3, <2>4, <2>5, <2>6, <2>7, <2>8 DEF Step
<1>2. ASSUME NEW w \in Worker, Restart(w) PROVE MasterKept'
  <2>1. \A o \in Slot : op'[o] = IF WorkerOf[o] = w THEN Idle ELSE op[o]
    BY <1>2 DEF Restart
  <2>2. \A v \in Worker : current'[v] = IF v = w THEN None ELSE current[v]
    BY <1>0, <1>2 DEF Restart
  <2>3. /\ UNCHANGED db
        /\ \A o \in Slot : mem'[o] = IF WorkerOf[o] = w THEN {} ELSE mem[o]
    BY <1>2 DEF Restart
  <2>4. \A o \in Slot : op'[o].enf # None =>
            /\ op'[o].enf = op[o].enf
            /\ op[o].enf \in Slot /\ WorkerOf[op[o].enf] # w
    <3>1. ASSUME NEW o \in Slot, op'[o].enf # None PROVE op'[o] = op[o] /\ WorkerOf[o] # w
      BY <2>1, <3>1 DEF Idle, State
    <3>2. \A o \in Slot : op[o].enf \in Slot \cup {None}
      BY RequestFacts DEF Operation
    <3>3. QED
      BY <1>0, <3>1, <3>2 DEF Built
  <2>5. MasterInService'
    <3>1. \A v \in Worker : current'[v] # None =>
              current[v] \in Slot /\ WorkerOf[current[v]] # w /\ current'[v] = current[v]
      BY <1>0, <2>2 DEF Built
    <3>2. QED
      BY <2>3, <3>1 DEF MasterKept, MasterInService
  <2>6. \A o \in Slot : op'[o].enf # None => Master \in mem'[op'[o].enf]
    BY <2>1, <2>3, <2>4 DEF MasterKept
  <2>7. \A o \in Slot : op'[o].pc \in {"publish", "seed"} =>
            WorkerOf[o] # w /\ op'[o] = op[o]
    BY <2>1 DEF Idle, State
  <2>8. QED
    BY <2>3, <2>5, <2>6, <2>7 DEF MasterKept
<1>3. CASE UNCHANGED vars
  BY <1>3 DEF vars, MasterKept, MasterInService
<1>4. QED
  BY <1>1, <1>2, <1>3 DEF Next

-----------------------------------------------------------------------------
(* Memory and table *)

\* An edit of enforcer x, or none, before and after a step of request o that is
\* not between memory and table on either side.
LEMMA SameEdits ==
    ASSUME Base, NEW o \in Slot, Step(o), op[o].pc # "db", op'[o].pc # "db"
    PROVE  \A p, x \in Slot : \A r \in Rule :
               (Editing(p, x, r)' <=> Editing(p, x, r)) /\ (Editing(p, x, r) => op'[p] = op[p])
BY Others DEF Editing

LEMMA AgreementStep ==
    Base /\ Private /\ Agreement /\ [Next]_vars => Agreement'
<1> SUFFICES ASSUME Base, Private, Agreement, [Next]_vars PROVE Agreement'
  OBVIOUS
<1> USE ConstantsAssumption DEF history
<1>0. /\ db \subseteq Rule /\ mem \in [Slot -> SUBSET Rule]
      /\ current \in [Worker -> Slot \cup {None}] /\ unsure \in [Slot -> SUBSET Rule]
      /\ op \in [Slot -> ShapedOperation] /\ Built
  BY DEF Base
<1>1. ASSUME NEW o \in Slot, Step(o) PROVE Agreement'
  <2>0. op[o] \in Operation /\ Shape(op[o]) /\ \A p \in Slot \ {o} : op'[p] = op[p]
    BY <1>1, Others, RequestFacts
  <2>1. CASE Arrive(o) \/ GetEnforcer(o) \/ Publish(o) \/ Authorize(o) \/ Again(o) \/ Act(o)
    <3>1. /\ UNCHANGED <<db, mem, unsure>> /\ op[o].pc # "db" /\ op'[o].pc # "db"
      BY <1>0, <2>1 DEF Arrive, GetEnforcer, Publish, Authorize, Again, Act, Goto, Done, Idle, State
    <3>2. QED
      BY <1>1, <3>1, SameEdits DEF Agreement
  <2>2. CASE Load(o) \/ BuildFails(o)
    <3>1. /\ UNCHANGED db /\ op[o].pc # "db" /\ op'[o].pc # "db" /\ Building(o)
          /\ \A x \in Slot \ {o} : mem'[x] = mem[x] /\ unsure'[x] = unsure[x]
          /\ mem'[o] = db \/ unsure'[o] = Rule
      BY <1>0, <2>2 DEF Load, BuildFails, Goto, Done, Idle, State, Building
    <3>2. \A p \in Slot : \A r \in Rule : ~Editing(p, o, r)
      BY <3>1 DEF Private, Editing
    <3>3. QED
      BY <1>1, <3>1, <3>2, SameEdits DEF Agreement
  <2>3. CASE SeedRule(o)
    <3> DEFINE i == op[o].n + 1
    <3>1. i \in 1 .. Len(Seed)
      BY <2>0, <2>3 DEF SeedRule, Shape, Operation
    <3>2. PICK s \in Rule : s = Seed[i]
      BY <3>1
    <3>3. /\ op[o].pc # "db" /\ op'[o].pc # "db" /\ Building(o)
          /\ \A x \in Slot : mem'[x] = IF x = o THEN mem[o] \cup {s} ELSE mem[x]
          /\ db' = IF s \in mem[o] THEN db ELSE db \cup {s}
          /\ \A x \in Slot : unsure'[x] = IF s \in mem[o] THEN unsure[x]
                                          ELSE IF x = o THEN unsure[x] \ {s}
                                          ELSE unsure[x] \cup {s}
      <4>1. /\ op[o].pc = "seed" /\ op'[o].pc \in {"seed", "publish"}
        BY <1>0, <2>3 DEF SeedRule, Goto, State
      <4>2. \A x \in Slot : mem'[x] = IF x = o THEN mem[o] \cup {s} ELSE mem[x]
        BY <1>0, <2>3, <3>2 DEF SeedRule
      <4>3. /\ db' = IF s \in mem[o] THEN db ELSE db \cup {s}
            /\ IF s \in mem[o] THEN UNCHANGED unsure
               ELSE unsure' = [x \in Slot |-> IF x = o THEN unsure[x] \ {s}
                                              ELSE unsure[x] \cup {s}]
        BY <2>3, <3>2 DEF SeedRule
      <4>4. \A x \in Slot : unsure'[x] = IF s \in mem[o] THEN unsure[x]
                                          ELSE IF x = o THEN unsure[x] \ {s}
                                          ELSE unsure[x] \cup {s}
        BY <1>0, <4>3
      <4>5. QED
        BY <4>1, <4>2, <4>3, <4>4 DEF Building
    <3>4. \A p \in Slot : \A r \in Rule : ~Editing(p, o, r)
      BY <3>3 DEF Private, Editing
    <3>5. ASSUME NEW x \in Slot, NEW r \in Rule \ unsure'[x]
          PROVE  /\ \A p, q \in Slot : Editing(p, x, r)' /\ Editing(q, x, r)' => p = q
                 /\ \A p \in Slot : Editing(p, x, r)' => (r \in mem'[x] <=> op'[p].kind = "add")
                 /\ (\A p \in Slot : ~Editing(p, x, r)') => (r \in mem'[x] <=> r \in db')
      <4>1. CASE s \in mem[o]
        <5>1. /\ db' = db /\ r \in Rule \ unsure[x] /\ mem'[x] = mem[x]
          BY <3>3, <4>1
        <5>2. QED
          BY <1>1, <3>3, <5>1, SameEdits DEF Agreement
      <4>2. CASE s \notin mem[o] /\ r = s
        <5>1. x = o /\ r \in mem'[x] /\ r \in db'
          BY <3>3, <4>2
        <5>2. QED
          BY <1>1, <3>3, <3>4, <5>1, SameEdits
      <4>3. CASE s \notin mem[o] /\ r # s
        <5>1. /\ r \in db' <=> r \in db
              /\ r \in Rule \ unsure[x]
              /\ r \in mem'[x] <=> r \in mem[x]
          BY <3>3, <4>3
        <5>2. QED
          BY <1>1, <3>3, <5>1, SameEdits DEF Agreement
      <4>4. QED
        BY <4>1, <4>2, <4>3
    <3>6. QED
      BY <3>5 DEF Agreement
  <2>4. CASE Change(o)
    <3>1. PICK x \in Slot, r \in Rule : /\ x = op[o].enf /\ r = op[o].rule
                                        /\ op[o].kind \in {"add", "remove"}
      BY <2>0, <2>4 DEF Change, Shape, Operation, Kind
    <3>2. /\ UNCHANGED db /\ op[o].pc = "mem"
          /\ mem' = [mem EXCEPT ![x] = IF op[o].kind = "add" THEN @ \cup {r} ELSE @ \ {r}]
      BY <2>4, <3>1 DEF Change
    <3>3. \A y \in Slot : mem'[y] = IF y # x THEN mem[y]
                                    ELSE IF op[o].kind = "add" THEN mem[x] \cup {r}
                                    ELSE mem[x] \ {r}
      BY <1>0, <3>2
    <3>4. CASE mem'[x] = mem[x]
      <4>1. Done(o) /\ UNCHANGED unsure
        BY <2>4, <3>1, <3>4 DEF Change
      <4>2. op'[o].pc # "db" /\ mem' = mem
        BY <1>0, <3>2, <3>4, <4>1 DEF Done, Idle, State
      <4>3. QED
        BY <1>1, <3>2, <4>1, <4>2, SameEdits DEF Agreement
    <3>5. CASE mem'[x] # mem[x]
      <4>1. /\ Goto(o, "db", x)
            /\ IF \E p \in Slot : Editing(p, x, r) THEN Doubt({x}, r)
               ELSE unsure' = [unsure EXCEPT ![x] = @ \ {r}]
        BY <2>4, <3>1, <3>5 DEF Change
      <4>2. \A y \in Slot : unsure'[y] = IF y # x THEN unsure[y]
                                         ELSE IF \E p \in Slot : Editing(p, x, r)
                                              THEN unsure[y] \cup {r}
                                         ELSE unsure[y] \ {r}
        BY <1>0, <4>1 DEF Doubt
      <4>3. op'[o] = State("db", op[o].kind, r, x, 0)
        BY <1>0, <3>1, <4>1 DEF Goto
      <4>4. \A y \in Slot : \A t \in Rule :
              /\ \A p \in Slot \ {o} : Editing(p, y, t)' <=> Editing(p, y, t)
              /\ Editing(o, y, t)' <=> y = x /\ t = r
              /\ ~Editing(o, y, t)
        BY <2>0, <3>2, <4>3 DEF Editing, State
      <4>5. ASSUME NEW y \in Slot, NEW t \in Rule \ unsure'[y]
            PROVE  /\ \A p, q \in Slot : Editing(p, y, t)' /\ Editing(q, y, t)' => p = q
                   /\ \A p \in Slot : Editing(p, y, t)' => (t \in mem'[y] <=> op'[p].kind = "add")
                   /\ (\A p \in Slot : ~Editing(p, y, t)') => (t \in mem'[y] <=> t \in db')
        <5>1. CASE y = x /\ t = r
          <6>1. \A p \in Slot : Editing(p, y, t)' <=> p = o
            BY <4>2, <4>4, <5>1
          <6>2. t \in mem'[y] <=> op'[o].kind = "add"
            BY <3>1, <3>3, <4>3, <5>1 DEF State
          <6>3. QED
            BY <6>1, <6>2
        <5>2. CASE ~(y = x /\ t = r)
          <6>1. t \in Rule \ unsure[y] /\ (t \in mem'[y] <=> t \in mem[y])
            BY <3>3, <4>2, <5>2
          <6>2. \A p \in Slot : Editing(p, y, t)' <=> Editing(p, y, t)
            BY <4>4, <5>2
          <6>3. \A p \in Slot : Editing(p, y, t) => op'[p] = op[p]
            BY <2>0, <4>4
          <6>4. QED
            BY <3>2, <6>1, <6>2, <6>3 DEF Agreement
        <5>3. QED
          BY <5>1, <5>2
      <4>6. QED
        BY <4>5 DEF Agreement
    <3>6. QED
      BY <3>4, <3>5
  <2>5. CASE Save(o) \/ SaveFails(o)
    <3>1. PICK x \in Slot, r \in Rule : /\ x = op[o].enf /\ r = op[o].rule
                                        /\ op[o].kind \in {"add", "remove"}
      BY <2>0, <2>5 DEF Save, SaveFails, Shape, Operation, Kind
    <3>2. /\ UNCHANGED mem /\ op[o].pc = "db" /\ op'[o].pc = "idle"
      BY <1>0, <2>5 DEF Save, SaveFails, Done, Idle, State
    <3>3. \A t \in Rule \ {r} : t \in db' <=> t \in db
      BY <2>5, <3>1 DEF Save, SaveFails
    <3>4. \A y \in Slot : \A t \in Rule :
            /\ \A p \in Slot \ {o} : Editing(p, y, t)' <=> Editing(p, y, t)
            /\ ~Editing(o, y, t)'
            /\ Editing(o, y, t) <=> y = x /\ t = r
      BY <2>0, <3>1, <3>2 DEF Editing
    <3>5. ASSUME NEW y \in Slot, NEW t \in Rule \ unsure'[y]
          PROVE  /\ \A p, q \in Slot : Editing(p, y, t)' /\ Editing(q, y, t)' => p = q
                 /\ \A p \in Slot : Editing(p, y, t)' => (t \in mem'[y] <=> op'[p].kind = "add")
                 /\ (\A p \in Slot : ~Editing(p, y, t)') => (t \in mem'[y] <=> t \in db')
      <4>0. t \in Rule \ unsure[y]
        BY <1>0, <2>5 DEF Save, SaveFails, Doubt
      <4>1. CASE ~(y = x /\ t = r)
        <5>1. \A p \in Slot : Editing(p, y, t)' <=> Editing(p, y, t)
          BY <3>4, <4>1
        <5>2. \A p \in Slot : Editing(p, y, t) => op'[p] = op[p]
          BY <2>0, <3>4, <4>1
        <5>3. CASE t # r
          BY <3>2, <3>3, <4>0, <5>1, <5>2, <5>3 DEF Agreement
        <5>4. CASE t = r
          <6>1. ~Save(o)
            BY <1>0, <3>1, <4>1, <5>4 DEF Save, Doubt
          <6>2. UNCHANGED db
            BY <2>5, <6>1 DEF SaveFails
          <6>3. QED
            BY <3>2, <4>0, <5>1, <5>2, <6>2 DEF Agreement
        <5>5. QED
          BY <5>3, <5>4
      <4>2. CASE y = x /\ t = r
        <5>1. Save(o)
          BY <1>0, <2>5, <3>1, <4>2 DEF SaveFails, Doubt
        <5>2. Editing(o, y, t)
          BY <3>4, <4>2, <5>1
        <5>3. \A p \in Slot \ {o} : ~Editing(p, y, t)
          BY <4>0, <5>2 DEF Agreement
        <5>4. r \in mem[x] <=> op[o].kind = "add"
          BY <4>0, <4>2, <5>1, <5>2 DEF Agreement
        <5>5. r \in db' <=> op[o].kind = "add"
          BY <3>1, <5>1 DEF Save
        <5>6. QED
          BY <3>2, <3>4, <4>2, <5>1, <5>3, <5>4, <5>5
      <4>3. QED
        BY <4>1, <4>2
    <3>6. QED
      BY <3>5 DEF Agreement
  <2>6. QED
    BY <1>1, <2>1, <2>2, <2>3, <2>4, <2>5 DEF Step
<1>2. ASSUME NEW w \in Worker, Restart(w) PROVE Agreement'
  <2>1. \A o \in Slot : op'[o] = IF WorkerOf[o] = w THEN Idle ELSE op[o]
    BY <1>2 DEF Restart
  <2>2. /\ UNCHANGED db
        /\ \A x \in Slot : WorkerOf[x] = w => unsure'[x] = Rule
        /\ \A x \in Slot : WorkerOf[x] # w => unsure'[x] = unsure[x] /\ mem'[x] = mem[x]
    BY <1>2 DEF Restart
  <2>3. ASSUME NEW x \in Slot, WorkerOf[x] # w, NEW r \in Rule, NEW p \in Slot
        PROVE  /\ Editing(p, x, r)' <=> Editing(p, x, r)
               /\ Editing(p, x, r) => op'[p] = op[p]
    <3>1. op[p].enf = x => WorkerOf[p] = WorkerOf[x]
      BY <1>0 DEF Built
    <3>2. QED
      BY <2>1, <2>3, <3>1 DEF Editing, Idle, State
  <2>4. QED
    BY <2>2, <2>3 DEF Agreement
<1>3. CASE UNCHANGED vars
  BY <1>3 DEF vars, Agreement, Editing
<1>4. QED
  BY <1>1, <1>2, <1>3 DEF Next

LEMMA AwayStep ==
    ASSUME Base, MasterKept, Away, [Next]_vars
    PROVE  Away'
<1> USE ConstantsAssumption DEF history
<1>0. op \in [Slot -> ShapedOperation]
  BY DEF Base
<1>1. ASSUME NEW o \in Slot, Step(o) PROVE Away'
  <2>0. op[o] \in Operation /\ Shape(op[o]) /\ \A p \in Slot \ {o} : op'[p] = op[p]
    BY <1>1, Others, RequestFacts
  <2>1. CASE \/ Arrive(o) \/ GetEnforcer(o) \/ Publish(o) \/ Authorize(o) \/ Again(o) \/ Act(o)
             \/ SaveFails(o) \/ BuildFails(o)
    <3>1. UNCHANGED <<db, revoked>> /\ op'[o].pc \notin {"seed", "db"}
      BY <1>0, <2>1 DEF Arrive, GetEnforcer, Publish, Authorize, Again, Act, SaveFails, BuildFails,
         Goto, Done, Idle, State
    <3>2. QED
      BY <2>0, <3>1 DEF Away
  <2>2. CASE Load(o)
    <3>1. /\ UNCHANGED <<db, revoked>> /\ op'[o].pc # "db"
          /\ op'[o].pc = "seed" => db = {}
      BY <1>0, <2>2 DEF Load, Goto, State
    <3>2. QED
      BY <2>0, <3>1 DEF Away
  <2>3. CASE SeedRule(o)
    <3>1. UNCHANGED revoked /\ op[o].pc = "seed" /\ op'[o].pc # "db"
      BY <1>0, <2>3 DEF SeedRule, Goto, State
    <3>2. revoked = {}
      BY <3>1 DEF Away
    <3>3. QED
      BY <3>1, <3>2 DEF Away
  <2>4. CASE Change(o)
    <3>1. /\ UNCHANGED db /\ revoked' \subseteq revoked
          /\ op[o].kind = "add" => op[o].rule \notin revoked'
          /\ op'[o].pc # "seed"
          /\ op'[o].pc = "db" => op'[o].kind = op[o].kind /\ op'[o].rule = op[o].rule
      BY <1>0, <2>4 DEF Change, Goto, Done, Idle, State
    <3>2. QED
      BY <2>0, <3>1 DEF Away
  <2>5. CASE Save(o)
    <3>1. /\ op[o].pc = "db" /\ op'[o].pc = "idle"
          /\ \/ op[o].kind = "add" /\ db' = db \cup {op[o].rule} /\ revoked' = revoked
             \/ op[o].kind = "remove" /\ db' = db \ {op[o].rule} /\ Revoke(op[o].rule)
      BY <1>0, <2>5 DEF Save, Done, Idle, State
    <3>2. Master \in db /\ (op[o].kind = "remove" => op[o].rule # Master)
      BY <2>0, <3>1 DEF Shape, Operation, MasterKept
    <3>3. CASE op[o].kind = "add" /\ db' = db \cup {op[o].rule} /\ revoked' = revoked
      BY <2>0, <3>1, <3>3 DEF Away
    <3>4. CASE op[o].kind = "remove" /\ db' = db \ {op[o].rule} /\ Revoke(op[o].rule)
      <4>1. CASE Settled(op[o].rule)
        BY <2>0, <3>1, <3>2, <3>4, <4>1 DEF Away, Revoke, Settled
      <4>2. CASE ~Settled(op[o].rule)
        BY <2>0, <3>1, <3>2, <3>4, <4>2 DEF Away, Revoke
      <4>3. QED
        BY <4>1, <4>2
    <3>5. QED
      BY <3>1, <3>3, <3>4
  <2>6. QED
    BY <1>1, <2>1, <2>2, <2>3, <2>4, <2>5 DEF Step
<1>2. ASSUME NEW w \in Worker, Restart(w) PROVE Away'
  <2>1. UNCHANGED <<db, revoked>> /\ \A o \in Slot : op'[o] \in {Idle, op[o]}
    BY <1>2 DEF Restart
  <2>2. QED
    BY <2>1 DEF Away, Idle, State
<1>3. CASE UNCHANGED vars
  BY <1>3 DEF vars, Away
<1>4. QED
  BY <1>1, <1>2, <1>3 DEF Next

-----------------------------------------------------------------------------
(* Theorems *)

LEMMA BaseInit == Init => Base
<1> SUFFICES ASSUME Init PROVE Base
  OBVIOUS
<1>1. \A o \in Slot : op[o] = Idle
  BY DEF Init
<1>2. op \in [Slot -> ShapedOperation]
  BY IdleShaped DEF Init
<1>3. /\ db \subseteq Rule /\ mem \in [Slot -> SUBSET Rule]
      /\ current \in [Worker -> Slot \cup {None}]
      /\ revoked \subseteq Rule /\ unsure \in [Slot -> SUBSET Rule]
  BY DEF Init
<1>4. Built
  BY <1>1 DEF Init, Built, Idle, State
<1>5. QED
  BY <1>2, <1>3, <1>4 DEF Base

\* Every state has its type, for every policy.csv and number of workers.
THEOREM TypeCorrect == Spec => []TypeOK
<1>1. Init => Base
  BY BaseInit
<1>2. Spec => []Base
  BY <1>1, BaseStep, PTL DEF Spec
<1>3. QED
  BY <1>2, BaseType, PTL

Inductive == Base /\ Private /\ MasterKept /\ Agreement /\ Away

LEMMA InductiveCorrect == Spec => []Inductive
<1>1. Init => Inductive
  <2> USE ConstantsAssumption DEF Init, Idle, State
  <2>1. Init => Base
    BY BaseInit
  <2>2. Init => Private
    BY DEF Private, Building
  <2>3. Init => MasterKept
    BY DEF MasterKept, MasterInService
  <2>4. Init => Agreement /\ Away
    BY DEF Agreement, Away
  <2>5. QED
    BY <2>1, <2>2, <2>3, <2>4 DEF Inductive
<1>2. Inductive /\ [Next]_vars => Inductive'
  BY BaseStep, PrivateStep, MasterStep, AgreementStep, AwayStep DEF Inductive
<1>3. QED
  BY <1>1, <1>2, PTL DEF Spec

\* Whatever the order in which workers start, crash in the middle of the seeding
\* and edit the rules, an enforcer in service grants the master everything
\* (_seed_if_empty, remove_rule).
THEOREM MasterAlwaysServed == Spec => []MasterInService
<1>1. Inductive => MasterInService
  BY DEF Inductive, MasterKept
<1>2. QED
  BY <1>1, InductiveCorrect, PTL

\* Memory and table come apart in a rule only because another enforcer wrote it,
\* because edits of it overlapped, or because its commit raised (add_rule,
\* remove_rule), for any number of workers and threads.
THEOREM MemoryFollowsTable == Spec => []MemoryIsTable
<1>1. Inductive => MemoryIsTable
  <2> SUFFICES ASSUME Inductive, NEW w \in Worker, current[w] # None,
                      NEW r \in Rule \ unsure[current[w]],
                      \A o \in Slot : ~Editing(o, current[w], r)
               PROVE  r \in mem[current[w]] <=> r \in db
    BY DEF MemoryIsTable
  <2>1. current[w] \in Slot
    BY DEF Inductive, Base
  <2>2. QED
    BY <2>1 DEF Inductive, Agreement
<1>2. QED
  BY <1>1, InductiveCorrect, PTL

\* A rule whose removal was answered stays out of the table until it is added
\* again, for any number of workers and threads: no restart seeds it back.
THEOREM RevocationLasts == Spec => []RevokedForGood
<1>1. Inductive => RevokedForGood
  BY DEF Inductive, Away, RevokedForGood
<1>2. QED
  BY <1>1, InductiveCorrect, PTL
=============================================================================

--------------------------- MODULE OpsUsersProofs ---------------------------
(***************************************************************************)
(* The inductive invariant of OpsUsers: the properties themselves, what    *)
(* each goroutine's local variables hold where it is (Local), that the row *)
(* lock keeps transactions on one user apart (Locked), and that an actor   *)
(* who passed the gate need not change the password (Gate).                *)
(* AInv adds, for what becomes of a status, that a request that is alone   *)
(* has the server to itself (Solo) and carries the status it read          *)
(* (Carried).                                                              *)
(***************************************************************************)
EXTENDS OpsUsers, TLAPS

PcSet == {"idle", "roles", "handler", "update", "clear", "bind"}

Kept(w) ==
    /\ pc[w] = "idle" => req[w] = Blank
    /\ pc[w] # "idle" => req[w] \in Request
    /\ pc[w] \in {"update", "clear", "bind"} => req[w].target \in Id /\ req[w].op = "update"
    /\ pc[w] \in {"clear", "bind"} => req[w].set \in RoleSets
    /\ req[w].held <=> pc[w] \in {"clear", "bind"}

Local == \A w \in Worker : Kept(w)

\* The row of a transaction under way is there, no other transaction has it,
\* and nobody changed its roles since they were deleted.
Locked ==
    \A w \in Worker : req[w].held =>
        /\ Exists(req[w].target)
        /\ pc[w] = "bind" => req[w].seen = roles[req[w].target]
        /\ \A v \in Worker \ {w} : req[v].held => req[v].target # req[w].target

\* Ids are not reused, so the actor's row is the one the gate read, or gone.
Gate ==
    \A w \in Worker : pc[w] # "idle" =>
        /\ users[req[w].actor] # Nil
        /\ (req[w].op # "change" /\ Exists(req[w].actor)) => ~users[req[w].actor].must

IInv == TypeOK /\ Local /\ Locked /\ Gate /\ RolesAsked

-----------------------------------------------------------------------------
\* Init establishes the invariant.
LEMMA InitIInv == Init => IInv
  <1> SUFFICES ASSUME Init PROVE IInv
    OBVIOUS
  <1> USE DEF Init
  <1>1. [active |-> TRUE, must |-> TRUE] \in UserRow
    BY DEF UserRow
  <1>2. TypeOK
    <2>1. {Admin} \in SUBSET Role
      BY OpsUsersAssumption DEF Role
    <2>2. users \in [Id -> UserRow \cup {Nil, Gone}] /\ roles \in [Id -> SUBSET Role]
      BY <1>1, <2>1
    <2> QED BY <2>2 DEF TypeOK
  <1>3. Local /\ Locked
    BY DEF Local, Kept, Locked, Blank
  <1>4. Gate
    BY DEF Gate
  <1>5. RolesAsked
    BY <1>1, OpsUsersAssumption DEF RolesAsked, Exists
  <1> QED BY <1>2, <1>3, <1>4, <1>5 DEF IInv

\* A step of w that gives it the local variables r, and may change the user
\* or the roles of i, keeps the invariant when r is as it should be, no other
\* transaction holds i, and i still passes the gate.
LEMMA StepAt ==
  ASSUME IInv, NEW w \in Worker, NEW r, NEW next \in PcSet, NEW i \in Id,
         GoOn(w, r, next),
         next = "idle" => r = Blank,
         next # "idle" => r \in Request /\ users[r.actor] # Nil,
         next \in {"update", "clear", "bind"} => r.target \in Id /\ r.op = "update",
         next \in {"clear", "bind"} => r.set \in RoleSets,
         r.held <=> next \in {"clear", "bind"},
         r.held => /\ Exists(r.target) /\ Exists(r.target)'
                   /\ next = "bind" => r.seen = roles'[r.target]
                   /\ ~Held(w, r.target),
         next # "idle" /\ r.op # "change" /\ Exists(r.actor)' => ~users'[r.actor].must,
         users' \in [Id -> UserRow \cup {Nil, Gone}],
         roles' \in [Id -> SUBSET Role],
         \A x \in Id : x # i => users'[x] = users[x] /\ roles'[x] = roles[x],
         UNCHANGED <<users, roles>> \/ ~Held(w, i),
         users[i] # Nil => users'[i] # Nil,
         (users[i] # Nil /\ Exists(i)') => Exists(i) /\ (users'[i].must => users[i].must),
         IF Exists(i)' THEN roles'[i] \in RoleSets ELSE roles'[i] = {}
  PROVE  IInv'
  <1> USE DEF IInv
  <1>1. \A v \in Worker : /\ v = w => pc'[v] = next /\ req'[v] = r
                          /\ v # w => pc'[v] = pc[v] /\ req'[v] = req[v]
    BY DEF GoOn, TypeOK
  <1>2. TypeOK'
    BY DEF GoOn, TypeOK, PcSet
  <1>3. Local'
    <2> SUFFICES ASSUME NEW v \in Worker PROVE Kept(v)'
      BY DEF Local
    <2>1. CASE v = w
      BY <1>1, <2>1 DEF Kept
    <2>2. CASE v # w
      BY <1>1, <2>2 DEF Kept, Local
    <2> QED BY <2>1, <2>2
  <1>4. ASSUME NEW v \in Worker \ {w}, req[v].held
        PROVE  /\ req[v].target \in Id /\ Exists(req[v].target)
               /\ users'[req[v].target] = users[req[v].target]
               /\ roles'[req[v].target] = roles[req[v].target]
    <2>1. req[v].target \in Id /\ Exists(req[v].target)
      BY <1>4 DEF Local, Kept, Locked
    <2> QED BY <1>4, <2>1 DEF Held
  <1>5. Locked'
    <2> SUFFICES ASSUME NEW v \in Worker, req'[v].held
                 PROVE  /\ Exists(req[v].target)'
                        /\ pc'[v] = "bind" => req'[v].seen = roles'[req'[v].target]
                        /\ \A x \in Worker \ {v} :
                              req'[x].held => req'[x].target # req'[v].target
      BY DEF Locked
    <2>1. CASE v = w
      BY <1>1, <2>1 DEF Held, Exists
    <2>2. CASE v # w
      <3>1. Exists(req[v].target)' /\ (pc'[v] = "bind" => req'[v].seen = roles'[req'[v].target])
        BY <1>1, <1>4, <2>2 DEF Locked, Exists
      <3>2. ASSUME NEW x \in Worker \ {v}, req'[x].held PROVE req'[x].target # req'[v].target
        BY <1>1, <2>2, <3>2 DEF Locked, Held
      <3> QED BY <3>1, <3>2
    <2> QED BY <2>1, <2>2
  <1>6. Gate'
    <2> SUFFICES ASSUME NEW v \in Worker, pc'[v] # "idle"
                 PROVE  /\ users'[req'[v].actor] # Nil
                        /\ (req'[v].op # "change" /\ Exists(req[v].actor)')
                              => ~users'[req'[v].actor].must
      BY DEF Gate, Exists
    <2>1. CASE v = w
      <3>1. r.actor \in Id
        BY <1>1, <2>1 DEF Request
      <3> QED BY <1>1, <2>1, <3>1 DEF Exists
    <2>2. CASE v # w
      <3>1. req[v].actor \in Id
        BY <1>1, <2>2 DEF Local, Kept, Request
      <3> QED BY <1>1, <2>2, <3>1 DEF Gate, Exists
    <2> QED BY <2>1, <2>2
  <1>7. RolesAsked'
    BY DEF RolesAsked, Exists
  <1> QED BY <1>2, <1>3, <1>5, <1>6, <1>7

\* A request that changes no user and no roles.
LEMMA QuietStep ==
  ASSUME IInv, NEW w \in Worker, NEW r \in Request, NEW next \in PcSet \ {"idle"},
         GoOn(w, r, next), UNCHANGED <<users, roles>>, pc[w] # "idle",
         r.actor = req[w].actor, r.op = req[w].op,
         next \in {"update", "clear", "bind"} => r.target \in Id /\ r.op = "update",
         next \in {"clear", "bind"} => r.set \in RoleSets,
         r.held <=> next \in {"clear", "bind"},
         r.held => /\ Exists(r.target)
                   /\ next = "bind" => r.seen = roles[r.target]
                   /\ ~Held(w, r.target)
  PROVE  IInv'
  <1> USE DEF IInv
  <1>1. users[r.actor] # Nil
        /\ (r.op # "change" /\ Exists(r.actor)' => ~users'[r.actor].must)
    BY DEF Gate, Exists
  <1>2. \A x \in Id : Exists(x)' <=> Exists(x)
    BY DEF Exists
  <1>3. r.held => Exists(r.target)'
    BY DEF Exists
  <1>4. Seed \in Id
    BY OpsUsersAssumption
  <1>5. IF Exists(Seed)' THEN roles'[Seed] \in RoleSets ELSE roles'[Seed] = {}
    BY <1>2, <1>4 DEF RolesAsked
  <1>6. (users[Seed] # Nil /\ Exists(Seed)')
           => Exists(Seed) /\ (users'[Seed].must => users[Seed].must)
    BY <1>2, <1>4
  <1> QED BY <1>1, <1>3, <1>4, <1>5, <1>6, StepAt DEF TypeOK

\* A request that ends and writes at most the user i, whom nobody else holds.
LEMMA EndStep ==
  ASSUME IInv, NEW w \in Worker, NEW i \in Id, Finish(w),
         users' \in [Id -> UserRow \cup {Nil, Gone}],
         roles' \in [Id -> SUBSET Role],
         \A x \in Id : x # i => users'[x] = users[x] /\ roles'[x] = roles[x],
         UNCHANGED <<users, roles>> \/ ~Held(w, i),
         users[i] # Nil => users'[i] # Nil,
         (users[i] # Nil /\ Exists(i)') => Exists(i) /\ (users'[i].must => users[i].must),
         IF Exists(i)' THEN roles'[i] \in RoleSets ELSE roles'[i] = {}
  PROVE  IInv'
  <1>1. GoOn(w, Blank, "idle") /\ ~Blank.held
    BY DEF Finish, Blank
  <1> QED BY <1>1, StepAt DEF PcSet

\* A request that ends and changes nothing.
LEMMA StopStep ==
  ASSUME IInv, NEW w \in Worker, Finish(w), UNCHANGED <<users, roles>>
  PROVE  IInv'
  <1>1. Seed \in Id /\ (Exists(Seed)' <=> Exists(Seed))
    BY OpsUsersAssumption DEF Exists
  <1>2. IF Exists(Seed)' THEN roles'[Seed] \in RoleSets ELSE roles'[Seed] = {}
    BY <1>1 DEF IInv, RolesAsked
  <1> QED BY <1>1, <1>2, EndStep DEF IInv, TypeOK

-----------------------------------------------------------------------------
\* The gate lets a user in who need not change the password, or comes to do so.
LEMMA GateStep ==
  ASSUME IInv, NEW w \in Worker, RequireUser(w)
  PROVE  IInv'
  <1> USE DEF IInv
  <1>1. PICK a \in Id, op \in AdminOps \cup {"change"} :
           /\ Exists(a) /\ (users[a].must => op = "change")
           /\ pc[w] = "idle"
           /\ pc' = [pc EXCEPT ![w] = "roles"]
           /\ req' = [v \in Worker |->
                         IF v = w THEN [Blank EXCEPT !.op = op, !.actor = a,
                                                     !.alone = \A x \in Worker : pc[x] = "idle"]
                         ELSE [req[v] EXCEPT !.alone = FALSE]]
           /\ UNCHANGED <<users, roles>>
    BY DEF RequireUser
  <1> DEFINE A == \A x \in Worker : pc[x] = "idle"
             q == [Blank EXCEPT !.op = op, !.actor = a, !.alone = A]
  <1>2. req'[w] = q /\ A \in BOOLEAN
    BY <1>1
  <1>3. q \in Request /\ q.op = op /\ q.actor = a /\ ~q.held
    <2> HIDE DEF A
    <2> QED BY <1>2 DEF Blank, Request
  <1> HIDE DEF q
  <1>4. [Blank EXCEPT !.alone = FALSE] = Blank
    <2>1. [Blank EXCEPT !.alone = Blank.alone] = Blank /\ Blank.alone = FALSE
      BY DEF Blank
    <2> QED BY <2>1
  <1>5. ASSUME NEW v \in Worker \ {w}
        PROVE  /\ pc'[v] = pc[v]
               /\ pc[v] = "idle" => req'[v] = Blank
               /\ pc[v] # "idle" => req'[v] \in Request
               /\ req'[v].op = req[v].op /\ req'[v].actor = req[v].actor
               /\ req'[v].target = req[v].target /\ req'[v].set = req[v].set
               /\ req'[v].held = req[v].held /\ req'[v].seen = req[v].seen
    <2>1. pc'[v] = pc[v] /\ req'[v] = [req[v] EXCEPT !.alone = FALSE]
      BY <1>1 DEF TypeOK
    <2>2. CASE pc[v] = "idle"
      <3>1. req[v] = Blank
        BY <2>2 DEF Local, Kept
      <3> QED BY <1>4, <2>1, <2>2, <3>1
    <2>3. CASE pc[v] # "idle"
      <3>1. req[v] \in Request
        BY <2>3 DEF Local, Kept
      <3> QED BY <2>1, <2>3, <3>1 DEF Request
    <2> QED BY <2>2, <2>3
  <1>6. pc'[w] = "roles" /\ pc' \in [Worker -> PcSet]
    BY <1>1 DEF TypeOK, PcSet
  <1>12. users' = users /\ roles' = roles /\ Exists(a) /\ (users[a].must => op = "change")
    BY <1>1
  <1>7. Local'
    <2> SUFFICES ASSUME NEW v \in Worker PROVE Kept(v)'
      BY DEF Local
    <2>1. CASE v = w
      BY <1>2, <1>3, <1>6, <2>1 DEF Kept
    <2>2. CASE v # w
      BY <1>5, <2>2 DEF Kept, Local
    <2> QED BY <2>1, <2>2
  <1>8. TypeOK'
    <2>1. req' \in [Worker -> Request \cup {Blank}]
      BY <1>1, <1>2, <1>3, <1>5
    <2> QED BY <1>1, <1>6, <2>1 DEF TypeOK, PcSet
  <1>9. Locked'
    <2> SUFFICES ASSUME NEW v \in Worker, req'[v].held
                 PROVE  /\ Exists(req[v].target)'
                        /\ pc'[v] = "bind" => req'[v].seen = roles'[req'[v].target]
                        /\ \A x \in Worker \ {v} :
                              req'[x].held => req'[x].target # req'[v].target
      BY DEF Locked
    <2>1. v # w
      BY <1>2, <1>3
    <2>2. \A x \in Worker \ {v} : req'[x].held => x # w
      BY <1>2, <1>3
    <2> QED BY <1>5, <1>12, <2>1, <2>2 DEF Locked, Exists
  <1>10. Gate'
    <2> SUFFICES ASSUME NEW v \in Worker, pc'[v] # "idle"
                 PROVE  /\ users'[req'[v].actor] # Nil
                        /\ (req'[v].op # "change" /\ Exists(req[v].actor)')
                              => ~users'[req'[v].actor].must
      BY DEF Gate, Exists
    <2>1. CASE v = w
      BY <1>2, <1>3, <1>12, <2>1 DEF Exists
    <2>2. CASE v # w
      BY <1>5, <1>12, <2>2 DEF Gate, Exists
    <2> QED BY <2>1, <2>2
  <1>11. RolesAsked'
    BY <1>1 DEF RolesAsked, Exists
  <1> QED BY <1>7, <1>8, <1>9, <1>10, <1>11

\* The UPDATE of a user: it takes the row, or is the whole transaction, or
\* finds the user gone.
LEMMA UpdateStep ==
  ASSUME IInv, NEW w \in Worker, UpdateRow(w)
  PROVE  IInv'
  <1> USE DEF IInv
  <1>0. PICK i \in Id : i = req[w].target
    BY DEF UpdateRow, Local, Kept
  <1>1. /\ pc[w] = "update" /\ req[w] \in Request /\ i \in Id /\ req[w].op = "update"
        /\ ~Held(w, i) /\ UNCHANGED roles
    BY <1>0 DEF UpdateRow, Local, Kept
  <1>2. CASE Exists(i) /\ req[w].set # Nil
    <2> DEFINE q == [req[w] EXCEPT !.held = TRUE]
    <2>1. GoOn(w, q, "clear") /\ UNCHANGED users
      BY <1>0, <1>2 DEF UpdateRow
    <2>2. /\ q \in Request /\ q.actor = req[w].actor /\ q.op = req[w].op /\ q.held
          /\ q.target = i /\ q.set \in RoleSets
      BY <1>0, <1>1, <1>2 DEF Request
    <2> HIDE DEF q
    <2> QED BY <1>1, <1>2, <2>1, <2>2, QuietStep DEF PcSet
  <1>3. CASE Exists(i) /\ req[w].set = Nil
    <2>1. Finish(w) /\ users' = [users EXCEPT ![i].active = req[w].status]
      BY <1>0, <1>3 DEF UpdateRow, Committed
    <2>2. users[i] \in UserRow /\ req[w].status \in BOOLEAN
      BY <1>1, <1>3 DEF TypeOK, Exists, Request
    <2>3. users'[i] = [users[i] EXCEPT !.active = req[w].status]
          /\ \A x \in Id : x # i => users'[x] = users[x]
      BY <1>1, <2>1 DEF TypeOK
    <2>4. users'[i] \in UserRow /\ users'[i].must = users[i].must
      BY <2>2, <2>3 DEF UserRow
    <2>5. users' \in [Id -> UserRow \cup {Nil, Gone}] /\ users'[i] # Nil
      BY <1>1, <2>1, <2>3, <2>4, OpsUsersAssumption DEF TypeOK
    <2>6. IF Exists(i)' THEN roles'[i] \in RoleSets ELSE roles'[i] = {}
      BY <1>1, <1>3, <2>4, OpsUsersAssumption DEF RolesAsked, Exists
    <2> QED BY <1>1, <1>3, <2>1, <2>3, <2>4, <2>5, <2>6, EndStep DEF TypeOK
  <1>4. CASE ~Exists(i)
    BY <1>0, <1>1, <1>4, StopStep DEF UpdateRow
  <1> QED BY <1>2, <1>3, <1>4

\* The commit: nobody touched the roles since they were deleted, so none stays.
LEMMA BindStep ==
  ASSUME IInv, NEW w \in Worker, BindRoles(w)
  PROVE  IInv'
  <1> USE DEF IInv
  <1>0. PICK i \in Id : i = req[w].target
    BY DEF BindRoles, Local, Kept
  <1>1. /\ pc[w] = "bind" /\ req[w] \in Request /\ i \in Id /\ req[w].held
        /\ req[w].set \in RoleSets /\ Finish(w)
    BY <1>0 DEF BindRoles, Local, Kept
  <1>2. Exists(i) /\ req[w].seen = roles[i] /\ ~Held(w, i)
    BY <1>0, <1>1 DEF Locked, Held
  <1>3. roles[i] \ req[w].seen = {}
    BY <1>2
  <1>4. /\ users' = [users EXCEPT ![i].active = req[w].status]
        /\ roles' = [roles EXCEPT ![i] = req[w].set]
    BY <1>0, <1>2, <1>3 DEF BindRoles, Committed
  <1>5. users[i] \in UserRow /\ req[w].status \in BOOLEAN /\ req[w].set \in SUBSET Role
    BY <1>1, <1>2 DEF TypeOK, Exists, Request, Role
  <1>6. users'[i] = [users[i] EXCEPT !.active = req[w].status]
        /\ \A x \in Id : x # i => users'[x] = users[x] /\ roles'[x] = roles[x]
    BY <1>1, <1>4 DEF TypeOK
  <1>7. users'[i] \in UserRow /\ users'[i].must = users[i].must
    BY <1>5, <1>6 DEF UserRow
  <1>8. /\ users' \in [Id -> UserRow \cup {Nil, Gone}] /\ users'[i] # Nil
        /\ roles' \in [Id -> SUBSET Role]
    BY <1>1, <1>4, <1>5, <1>6, <1>7, OpsUsersAssumption DEF TypeOK
  <1>9. IF Exists(i)' THEN roles'[i] \in RoleSets ELSE roles'[i] = {}
    BY <1>1, <1>4, <1>7, OpsUsersAssumption DEF Exists, TypeOK
  <1> QED BY <1>1, <1>2, <1>6, <1>7, <1>8, <1>9, EndStep

\* A user that is created takes an id that was never used.
LEMMA CreateStep ==
  ASSUME IInv, NEW w \in Worker, Create(w)
  PROVE  IInv'
  <1> USE DEF IInv
  <1>1. PICK i \in Id, must \in BOOLEAN, set \in RoleSets :
           /\ users[i] = Nil
           /\ users' = [users EXCEPT ![i] = [active |-> TRUE, must |-> must]]
           /\ roles' = [roles EXCEPT ![i] = set]
    BY DEF Create
  <1>2. [active |-> TRUE, must |-> must] \in UserRow /\ set \in SUBSET Role
    BY DEF UserRow, Role
  <1>3. /\ users' \in [Id -> UserRow \cup {Nil, Gone}]
        /\ roles' \in [Id -> SUBSET Role]
        /\ users'[i] \in UserRow /\ roles'[i] = set
        /\ \A x \in Id : x # i => users'[x] = users[x] /\ roles'[x] = roles[x]
    BY <1>1, <1>2 DEF TypeOK
  <1>4. ~Held(w, i)
    BY <1>1 DEF Held, Locked, Exists
  <1>5. IF Exists(i)' THEN roles'[i] \in RoleSets ELSE roles'[i] = {}
    BY <1>3, OpsUsersAssumption DEF Exists
  <1>6. Finish(w)
    BY DEF Create
  <1> QED BY <1>1, <1>3, <1>4, <1>5, <1>6, EndStep

\* A user that is removed takes the roles along.
LEMMA RemoveStep ==
  ASSUME IInv, NEW w \in Worker, Remove(w)
  PROVE  IInv'
  <1> USE DEF IInv
  <1>1. PICK i \in Id : /\ Exists(i) /\ ~Held(w, i)
                        /\ users' = [users EXCEPT ![i] = Gone]
                        /\ roles' = [roles EXCEPT ![i] = {}]
    BY DEF Remove
  <1>2. /\ users' \in [Id -> UserRow \cup {Nil, Gone}]
        /\ roles' \in [Id -> SUBSET Role]
        /\ users'[i] = Gone /\ roles'[i] = {}
        /\ \A x \in Id : x # i => users'[x] = users[x] /\ roles'[x] = roles[x]
    BY <1>1 DEF TypeOK
  <1>3. ~Exists(i)'
    BY <1>2 DEF Exists
  <1>4. Finish(w)
    BY DEF Remove
  <1>5. users'[i] # Nil
    BY <1>2, OpsUsersAssumption
  <1> QED BY <1>1, <1>2, <1>3, <1>4, <1>5, EndStep

\* The second gate, the read of an update and the DELETE of the roles write
\* nothing that others see.
LEMMA ReadStep ==
  ASSUME IInv, NEW w \in Worker, RequireAdmin(w) \/ LoadUser(w) \/ ClearRoles(w)
  PROVE  IInv'
  <1> USE DEF IInv
  <1>1. CASE RequireAdmin(w)
    <2>1. CASE Finish(w)
      BY <1>1, <2>1, StopStep DEF RequireAdmin
    <2>2. CASE GoOn(w, req[w], "handler")
      <3>1. pc[w] = "roles" /\ UNCHANGED <<users, roles>>
        BY <1>1 DEF RequireAdmin
      <3>2. req[w] \in Request /\ ~req[w].held
        BY <3>1 DEF Local, Kept
      <3> QED BY <2>2, <3>1, <3>2, QuietStep DEF PcSet
    <2> QED BY <1>1, <2>1, <2>2 DEF RequireAdmin
  <1>2. CASE LoadUser(w)
    <2>1. PICK i \in Id, asked \in {TRUE, FALSE, Nil}, set \in RoleSets \cup {Nil} :
             /\ Exists(i)
             /\ GoOn(w, [req[w] EXCEPT !.target = i, !.named = (asked # Nil), !.set = set,
                             !.status = IF asked = Nil THEN users[i].active ELSE asked],
                     "update")
      BY <1>2 DEF LoadUser
    <2>2. /\ pc[w] = "handler" /\ UNCHANGED <<users, roles>>
          /\ req[w] \in Request /\ ~req[w].held /\ req[w].op = "update"
      BY <1>2 DEF LoadUser, Local, Kept
    <2> DEFINE s == IF asked = Nil THEN users[i].active ELSE asked
               n == asked # Nil
               q == [req[w] EXCEPT !.target = i, !.named = n, !.set = set, !.status = s]
    <2>3. users[i] \in UserRow
      BY <2>1 DEF TypeOK, Exists
    <2>4. s \in BOOLEAN /\ n \in BOOLEAN
      BY <2>3 DEF UserRow
    <2>5. GoOn(w, q, "update")
      BY <2>1
    <2> HIDE DEF s, n
    <2>6. /\ q \in Request /\ q.actor = req[w].actor /\ q.op = "update" /\ ~q.held
          /\ q.target = i
      BY <2>2, <2>4 DEF Request
    <2> HIDE DEF q
    <2> QED BY <2>2, <2>5, <2>6, QuietStep DEF PcSet
  <1>3. CASE ClearRoles(w)
    <2> DEFINE q == [req[w] EXCEPT !.seen = roles[req[w].target]]
    <2>1. pc[w] = "clear" /\ UNCHANGED <<users, roles>> /\ GoOn(w, q, "bind")
      BY <1>3 DEF ClearRoles
    <2>2. /\ req[w] \in Request /\ req[w].held /\ req[w].op = "update"
          /\ req[w].target \in Id /\ req[w].set \in RoleSets
      BY <2>1 DEF Local, Kept
    <2>3. Exists(req[w].target) /\ ~Held(w, req[w].target)
      BY <2>2 DEF Locked, Held
    <2>4. roles[req[w].target] \in SUBSET Role
      BY <2>2 DEF TypeOK
    <2>5. /\ q \in Request /\ q.actor = req[w].actor /\ q.op = req[w].op /\ q.held
          /\ q.target = req[w].target /\ q.set = req[w].set
          /\ q.seen = roles[req[w].target]
      BY <2>2, <2>4 DEF Request
    <2> HIDE DEF q
    <2> QED BY <2>1, <2>2, <2>3, <2>5, QuietStep DEF PcSet
  <1> QED BY <1>1, <1>2, <1>3

\* A password change clears the flag and leaves the rest of the row.
LEMMA ChangeStep ==
  ASSUME IInv, NEW w \in Worker, ChangePassword(w)
  PROVE  IInv'
  <1> USE DEF IInv
  <1>0. pc[w] = "handler"
    BY DEF ChangePassword
  <1>1. PICK i \in Id : i = req[w].actor
    BY <1>0 DEF Local, Kept, Request
  <1>2. /\ ~Held(w, i) /\ Finish(w) /\ UNCHANGED roles
        /\ users' = IF Exists(i) THEN [users EXCEPT ![i].must = FALSE] ELSE users
    BY <1>1 DEF ChangePassword
  <1>3. CASE ~Exists(i)
    BY <1>2, <1>3, StopStep
  <1>4. CASE Exists(i)
    <2>1. users[i] \in UserRow
      BY <1>4 DEF TypeOK, Exists
    <2>2. users'[i] = [users[i] EXCEPT !.must = FALSE]
          /\ \A x \in Id : x # i => users'[x] = users[x]
      BY <1>2, <1>4 DEF TypeOK
    <2>3. users'[i] \in UserRow /\ users'[i].must = FALSE
      BY <2>1, <2>2 DEF UserRow
    <2>4. users' \in [Id -> UserRow \cup {Nil, Gone}] /\ users'[i] # Nil
      BY <1>2, <1>4, <2>2, <2>3, OpsUsersAssumption DEF TypeOK
    <2>5. IF Exists(i)' THEN roles'[i] \in RoleSets ELSE roles'[i] = {}
      BY <1>2, <1>4, <2>3, OpsUsersAssumption DEF RolesAsked, Exists
    <2> QED BY <1>2, <1>4, <2>2, <2>3, <2>4, <2>5, EndStep DEF TypeOK
  <1> QED BY <1>3, <1>4

\* Every step of Next, and every stutter, keeps the invariant.
LEMMA StepIInv == IInv /\ [Next]_vars => IInv'
  <1> SUFFICES ASSUME IInv, [Next]_vars PROVE IInv'
    OBVIOUS
  <1>1. CASE UNCHANGED vars
    BY <1>1 DEF IInv, vars, TypeOK, Local, Kept, Locked, Gate, RolesAsked, Exists
  <1>2. ASSUME NEW w \in Worker, Step(w) PROVE IInv'
    <2>1. CASE Abort(w)
      BY <2>1, StopStep DEF Abort
    <2> QED BY <1>2, <2>1, GateStep, UpdateStep, BindStep, CreateStep, RemoveStep,
               ReadStep, ChangeStep DEF Step
  <1> QED BY <1>1, <1>2 DEF Next

-----------------------------------------------------------------------------
(***************************************************************************)
(* What an update that runs alone carries from its read to its write.      *)
(***************************************************************************)
\* A request that is alone has the server to itself.
Solo ==
    \A w \in Worker : req[w].alone =>
        /\ pc[w] # "idle"
        /\ \A v \in Worker \ {w} : pc[v] = "idle"

\* Its user is still there, with the status that will be written when the
\* patch names none.
Carried ==
    \A w \in Worker : (req[w].alone /\ pc[w] \in {"update", "clear", "bind"} /\ ~req[w].named)
        => /\ Exists(req[w].target)
           /\ req[w].status = users[req[w].target].active

AInv == Solo /\ Carried

\* A step of w after the gate: nobody else is alone, so only w's own part counts.
LEMMA SoloStep ==
    ASSUME IInv, AInv, NEW w \in Worker, pc[w] # "idle", NEW r, NEW n, GoOn(w, r, n),
           r.alone => req[w].alone /\ n # "idle",
           (r.alone /\ n \in {"update", "clear", "bind"} /\ ~r.named)
               => /\ users'[r.target] \notin {Nil, Gone}
                  /\ r.status = users'[r.target].active
    PROVE  AInv'
  <1>1. /\ pc'[w] = n /\ req'[w] = r
        /\ \A v \in Worker \ {w} : pc'[v] = pc[v] /\ req'[v] = req[v]
    BY DEF GoOn, IInv, TypeOK
  <1>2. \A v \in Worker \ {w} : ~req[v].alone
    BY DEF AInv, Solo
  <1>3. Solo'
    BY <1>1, <1>2 DEF AInv, Solo
  <1>4. Carried'
    BY <1>1, <1>2 DEF Carried, Exists
  <1> QED BY <1>3, <1>4 DEF AInv

\* A request passes the gate: whoever was alone no longer is.
LEMMA SoloGate ==
    ASSUME IInv, AInv, NEW w \in Worker, RequireUser(w)
    PROVE  AInv'
  <1>1. PICK a \in Id, op \in AdminOps \cup {"change"} :
           req' = [v \in Worker |->
                      IF v = w THEN [Blank EXCEPT !.op = op, !.actor = a,
                                                  !.alone = \A x \in Worker : pc[x] = "idle"]
                      ELSE [req[v] EXCEPT !.alone = FALSE]]
    BY DEF RequireUser
  <1>2. pc[w] = "idle" /\ pc' = [pc EXCEPT ![w] = "roles"]
    BY DEF RequireUser
  <1>3. /\ pc'[w] = "roles"
        /\ \A v \in Worker \ {w} : pc'[v] = pc[v]
    BY <1>2 DEF IInv, TypeOK
  <1>4. req'[w].alone <=> \A x \in Worker : pc[x] = "idle"
    BY <1>1 DEF Blank
  <1>5. \A v \in Worker \ {w} : ~req'[v].alone
    <2>1. TAKE v \in Worker \ {w}
    <2>2. req'[v] = [req[v] EXCEPT !.alone = FALSE]
      BY <1>1
    <2>3. req[v] \in Request \cup {Blank}
      BY DEF IInv, TypeOK
    <2> QED BY <2>2, <2>3 DEF Request, Blank
  <1> QED BY <1>3, <1>4, <1>5 DEF AInv, Solo, Carried

\* Every step keeps what is carried.
LEMMA StepAInv == IInv /\ AInv /\ [Next]_vars => AInv'
  <1> SUFFICES ASSUME IInv, AInv, [Next]_vars PROVE AInv'
    OBVIOUS
  <1>1. CASE UNCHANGED vars
    BY <1>1 DEF vars, AInv, Solo, Carried, Exists
  <1>2. ASSUME NEW w \in Worker, Step(w) PROVE AInv'
    <2>1. CASE RequireUser(w)
      BY <2>1, SoloGate
    <2>2. ASSUME pc[w] # "idle", Finish(w) PROVE AInv'
      BY <2>2, SoloStep DEF Finish, Blank
    <2>3. CASE RequireAdmin(w)
      <3>1. CASE Finish(w)
        BY <2>2, <2>3, <3>1 DEF RequireAdmin
      <3>2. CASE GoOn(w, req[w], "handler")
        BY <2>3, <3>2, SoloStep DEF RequireAdmin
      <3> QED BY <2>3, <3>1, <3>2 DEF RequireAdmin
    <2>4. CASE Create(w) \/ Remove(w) \/ ChangePassword(w) \/ BindRoles(w) \/ Abort(w)
      BY <2>2, <2>4 DEF Create, Remove, ChangePassword, BindRoles, Abort
    <2>5. CASE LoadUser(w)
      <3>1. PICK i \in Id, asked \in {TRUE, FALSE, Nil}, set \in RoleSets \cup {Nil} :
              /\ Exists(i)
              /\ GoOn(w, [req[w] EXCEPT !.target = i, !.named = (asked # Nil), !.set = set,
                                        !.status = IF asked = Nil THEN users[i].active
                                                   ELSE asked], "update")
        BY <2>5 DEF LoadUser
      <3> DEFINE r == [req[w] EXCEPT !.target = i, !.named = (asked # Nil), !.set = set,
                                     !.status = IF asked = Nil THEN users[i].active ELSE asked]
      <3>2. pc[w] # "idle" /\ users' = users /\ req[w] \in Request
        BY <2>5 DEF LoadUser, IInv, Local, Kept
      <3>3. /\ r.target = i /\ r.alone = req[w].alone
            /\ r.named = (asked # Nil)
            /\ asked = Nil => r.status = users[i].active
        BY <3>2 DEF Request
      <3>4. GoOn(w, r, "update")
        BY <3>1
      <3> HIDE DEF r
      <3>5. ~r.named => asked = Nil
        BY <3>3
      <3> QED BY <3>1, <3>2, <3>3, <3>4, <3>5, SoloStep DEF Exists
    <2>6. CASE UpdateRow(w)
      <3>1. CASE Finish(w)
        BY <2>2, <2>6, <3>1 DEF UpdateRow
      <3>2. CASE GoOn(w, [req[w] EXCEPT !.held = TRUE], "clear") /\ UNCHANGED users
        <4> DEFINE r == [req[w] EXCEPT !.held = TRUE]
        <4>1. pc[w] = "update" /\ req[w] \in Request
          BY <2>6 DEF UpdateRow, IInv, Local, Kept
        <4>2. /\ r.target = req[w].target /\ r.alone = req[w].alone
              /\ r.named = req[w].named /\ r.status = req[w].status
          BY <4>1 DEF Request
        <4>3. GoOn(w, r, "clear")
          BY <3>2
        <4> HIDE DEF r
        <4> QED BY <3>2, <4>1, <4>2, <4>3, SoloStep DEF AInv, Carried, Exists
      <3> QED BY <2>6, <3>1, <3>2 DEF UpdateRow
    <2>7. CASE ClearRoles(w)
      <3> DEFINE r == [req[w] EXCEPT !.seen = roles[req[w].target]]
      <3>1. pc[w] = "clear" /\ req[w] \in Request /\ users' = users /\ GoOn(w, r, "bind")
        BY <2>7 DEF ClearRoles, IInv, Local, Kept
      <3>2. /\ r.target = req[w].target /\ r.alone = req[w].alone
            /\ r.named = req[w].named /\ r.status = req[w].status
        BY <3>1 DEF Request
      <3> HIDE DEF r
      <3> QED BY <3>1, <3>2, SoloStep DEF AInv, Carried, Exists
    <2> QED BY <1>2, <2>1, <2>3, <2>4, <2>5, <2>6, <2>7 DEF Step
  <1> QED BY <1>1, <1>2 DEF Next

\* The end of an update that ran alone and names no status leaves every status
\* as it is: it writes back the one it read.
LEMMA UpdateKeepsStatus ==
    ASSUME IInv, AInv, Next, NEW w \in Worker, pc[w] \in {"update", "bind"}, pc'[w] = "idle",
           req[w].alone, ~req[w].named, NEW i \in Id, Exists(i)
    PROVE  users'[i].active = users[i].active
  <1>1. PICK v \in Worker : Step(v)
    BY DEF Next
  <1>2. v = w
    <2>1. SUFFICES ASSUME v # w PROVE FALSE
      OBVIOUS
    <2>2. pc[v] = "idle"
      BY <2>1 DEF AInv, Solo
    <2>3. RequireUser(v)
      BY <1>1, <2>2 DEF Step, RequireAdmin, Create, LoadUser, UpdateRow, ClearRoles,
                        BindRoles, Remove, ChangePassword, Abort
    <2>4. pc' = [pc EXCEPT ![v] = "roles"]
      BY <2>3 DEF RequireUser
    <2> QED BY <2>1, <2>4 DEF IInv, TypeOK
  <1>3. PICK t \in Id : t = req[w].target
    BY DEF IInv, Local, Kept
  <1>4. Exists(t) /\ req[w].status = users[t].active
    BY <1>3 DEF AInv, Carried
  <1>5. UNCHANGED users \/ Committed(w)
    BY <1>1, <1>2 DEF Step, RequireUser, RequireAdmin, Create, LoadUser, UpdateRow, ClearRoles,
                      BindRoles, Remove, ChangePassword, Abort
  <1>6. CASE Committed(w)
    <2>1. users' = [users EXCEPT ![t] = [users[t] EXCEPT !.active = users[t].active]]
      BY <1>3, <1>4, <1>6 DEF Committed
    <2>2. users[t] \in UserRow
      BY <1>4 DEF Exists, IInv, TypeOK
    <2> QED BY <2>1, <2>2 DEF IInv, TypeOK, UserRow
  <1> QED BY <1>5, <1>6

-----------------------------------------------------------------------------
\* The invariant holds in every reachable state, for every set of ids, roles
\* and goroutines.
THEOREM Invariance == Spec => []IInv
  BY InitIInv, StepIInv, PTL DEF Spec

\* Every variable always holds a value of its type.
THEOREM TypeCorrect == Spec => []TypeOK
  BY Invariance, PTL DEF IInv

\* A user always has the roles of one request, whole (users/store.go, Update
\* and replaceRoles), however many updates run at once.
THEOREM RolesAreAsked == Spec => []RolesAsked
  BY Invariance, PTL DEF IInv

\* An actor who must change the password has no other request under way
\* (auth/handler.go, RequireUser), though the flag is read once at the gate.
THEOREM FirstLoginIsGated == Spec => []FirstLoginGate
  <1>1. IInv => FirstLoginGate
    BY DEF IInv, Gate, FirstLoginGate
  <1> QED BY <1>1, Invariance, PTL

\* An update that ran alone changes the status only when its patch names it
\* (users/handler.go, update: the row is read, merged and written whole).
THEOREM StatusIsAsked == Spec => StatusAsked
  <1>1. Init => AInv
    BY DEF Init, AInv, Solo, Carried, Blank
  <1>2. IInv /\ AInv /\ [Next]_vars
            => [\A w \in Worker : (pc[w] \in {"update", "bind"} /\ pc'[w] = "idle"
                                      /\ req[w].alone /\ ~req[w].named)
                    => \A i \in Id : Exists(i) => users'[i].active = users[i].active]_vars
    BY UpdateKeepsStatus
  <1> QED BY <1>1, <1>2, Invariance, StepAInv, PTL DEF Spec, StatusAsked
=============================================================================

--------------------------- MODULE RegionsProofs ---------------------------
(***************************************************************************)
(* The inductive invariant of Regions: the properties themselves, what     *)
(* each goroutine's local variables hold where it is (Local), which of     *)
(* them may have cleared a default (Intent) and what that has locked       *)
(* (Locks), and what a delete that runs alone has found (Checked).         *)
(***************************************************************************)
EXTENDS Regions, TLAPS

Kept(w) ==
    /\ pc[w] = "idle" => req[w] = Blank
    /\ pc[w] # "idle" => req[w] \in Request
    /\ pc[w] \in {"begin", "clear", "write", "count", "delete"} => req[w].region \in Region
    /\ pc[w] = "bind" => req[w].account \in Account

Local == \A w \in Worker : Kept(w)

\* Only a request that writes the flag clears it elsewhere.
Intent ==
    \A w \in Worker : /\ pc[w] \in {"begin", "clear", "write"} /\ req[w].set => req[w].def
                      /\ req[w].snap # {} => req[w].def
                      /\ req[w].locked # {} => req[w].def

\* A request that is alone has no company, and what it read is still so.
Checked ==
    \A w \in Worker : (pc[w] # "idle" /\ req[w].alone) =>
        /\ \A v \in Worker \ {w} : pc[v] = "idle"
        /\ pc[w] \in {"count", "delete"} => req[w].region \notin Defaults
        /\ pc[w] = "delete" => Bound(req[w].region) = {}

\* A row a transaction has cleared is, to the others, still the default.
Locks ==
    \A w \in Worker :
        /\ req[w].locked \subseteq Defaults
        /\ \A v \in Worker \ {w} : req[v].locked \cap req[w].locked = {}

IInv == TypeOK /\ Local /\ Intent /\ Locks /\ OneDefault /\ BindingsExist /\ Checked

-----------------------------------------------------------------------------
\* Init establishes the invariant.
LEMMA InitIInv == Init => IInv
  BY RegionsAssumption
  DEF Init, IInv, TypeOK, Local, Kept, Intent, Locks, OneDefault, BindingsExist, Checked,
      Defaults, Exists, Blank, Request, Row

\* GoOn keeps the types when the goroutine's new local variables have theirs.
LEMMA GoOnLocal ==
  ASSUME TypeOK, Local, NEW w \in Worker, NEW r, NEW next, GoOn(w, r, next),
         next \in {"idle", "begin", "clear", "write", "count", "delete", "bind"},
         next = "idle" => r = Blank,
         next # "idle" => r \in Request,
         next \in {"begin", "clear", "write", "count", "delete"} => r.region \in Region,
         next = "bind" => r.account \in Account
  PROVE  /\ pc' \in [Worker -> {"idle", "begin", "clear", "write", "count", "delete", "bind"}]
         /\ req' \in [Worker -> Request \cup {Blank}]
         /\ Local'
  <1>1. pc' \in [Worker -> {"idle", "begin", "clear", "write", "count", "delete", "bind"}]
    BY DEF GoOn, TypeOK
  <1>2. req' \in [Worker -> Request \cup {Blank}]
    BY DEF GoOn, TypeOK
  <1>3. ASSUME NEW v \in Worker PROVE Kept(v)'
    <2>1. CASE v = w
      BY <2>1 DEF GoOn, TypeOK, Kept
    <2>2. CASE v # w
      <3>1. pc'[v] = pc[v] /\ req'[v] = req[v]
        BY <2>2 DEF GoOn, TypeOK
      <3> QED BY <3>1 DEF Local, Kept
    <2> QED BY <2>1, <2>2
  <1> QED BY <1>1, <1>2, <1>3 DEF Local

\* The fields of a request that Begin does not touch.
Same(q, r) == /\ q.op = r.op /\ q.region = r.region /\ q.def = r.def /\ q.active = r.active
              /\ q.set = r.set /\ q.snap = r.snap /\ q.locked = r.locked
              /\ q.account = r.account

\* Begin: the new request is alone only in an idle system, the others no longer are.
LEMMA BeginEffect ==
  ASSUME TypeOK, Local, NEW w \in Worker, NEW r \in Request, NEW next, Begin(w, r, next)
  PROVE  /\ pc[w] = "idle" /\ pc'[w] = next
         /\ req' \in [Worker -> Request \cup {Blank}]
         /\ req'[w] \in Request /\ Same(req'[w], r)
         /\ req'[w].alone => \A v \in Worker \ {w} : pc[v] = "idle"
         /\ \A v \in Worker \ {w} : /\ pc'[v] = pc[v]
                                    /\ pc[v] = "idle" => req'[v] = Blank
                                    /\ pc[v] # "idle" => /\ req'[v] \in Request
                                                         /\ Same(req'[v], req[v])
                                                         /\ ~req'[v].alone
  <1> DEFINE A == \A x \in Worker : pc[x] = "idle"
  <1>1. req'[w] = [r EXCEPT !.alone = A] /\ A \in BOOLEAN
    BY DEF Begin
  <1>2. req'[w] \in Request /\ Same(req'[w], r)
    <2> HIDE DEF A
    <2> QED BY <1>1 DEF Request, Same
  <1>6. req'[w].alone <=> \A x \in Worker : pc[x] = "idle"
    BY DEF Begin, Request
  <1>7. [Blank EXCEPT !.alone = FALSE] = Blank
    <2>1. [Blank EXCEPT !.alone = Blank.alone] = Blank /\ Blank.alone = FALSE
      BY DEF Blank
    <2> QED BY <2>1
  <1>3. ASSUME NEW v \in Worker \ {w}
        PROVE  /\ pc'[v] = pc[v]
               /\ req'[v] \in Request \cup {Blank}
               /\ pc[v] = "idle" => req'[v] = Blank
               /\ pc[v] # "idle" => /\ req'[v] \in Request
                                    /\ Same(req'[v], req[v])
                                    /\ ~req'[v].alone
    <2>1. pc'[v] = pc[v] /\ req'[v] = [req[v] EXCEPT !.alone = FALSE]
      BY DEF Begin, TypeOK
    <2>2. CASE pc[v] = "idle"
      <3>1. req[v] = Blank
        BY <2>2 DEF Local, Kept
      <3>2. req'[v] = Blank
        BY <2>1, <3>1, <1>7
      <3> QED BY <2>1, <2>2, <3>2
    <2>3. CASE pc[v] # "idle"
      <3>1. req[v] \in Request
        BY <2>3 DEF Local, Kept
      <3> QED BY <2>1, <2>3, <3>1 DEF Request, Same
    <2> QED BY <2>2, <2>3
  <1>4. req' \in [Worker -> Request \cup {Blank}]
    BY <1>2, <1>3 DEF Begin
  <1>5. pc[w] = "idle" /\ pc'[w] = next
    BY DEF Begin, TypeOK
  <1> QED BY <1>2, <1>3, <1>4, <1>5, <1>6

\* Begin keeps the types too.
LEMMA BeginLocal ==
  ASSUME TypeOK, Local, NEW w \in Worker, NEW r \in Request, NEW next, Begin(w, r, next),
         next \in {"begin", "clear", "count", "bind"},
         next # "bind" => r.region \in Region,
         next = "bind" => r.account \in Account
  PROVE  /\ pc' \in [Worker -> {"idle", "begin", "clear", "write", "count", "delete", "bind"}]
         /\ req' \in [Worker -> Request \cup {Blank}]
         /\ Local'
  <1>1. pc' \in [Worker -> {"idle", "begin", "clear", "write", "count", "delete", "bind"}]
    BY DEF Begin, TypeOK
  <1>2. ASSUME NEW v \in Worker PROVE Kept(v)'
    <2>1. CASE v = w
      BY <2>1, BeginEffect DEF Kept, Same
    <2>2. CASE v # w
      BY <2>2, BeginEffect DEF Kept, Same, Local
    <2> QED BY <2>1, <2>2
  <1> QED BY <1>1, <1>2, BeginEffect DEF Local

-----------------------------------------------------------------------------
\* A step of a goroutine that is under way keeps the invariant when it keeps
\* what is said of the tables and its own local variables are as they should.
\* What is said of requests that are alone holds: w is under way, so none but
\* w can be.
LEMMA GoOnStep ==
  ASSUME IInv, NEW w \in Worker, NEW r, NEW next, pc[w] # "idle", GoOn(w, r, next),
         regions' \in [Region -> Row \cup {Nil, Gone}],
         bound' \in [Account -> Region \cup {Nil}],
         OneDefault', BindingsExist',
         next \in {"idle", "begin", "clear", "write", "count", "delete", "bind"},
         next = "idle" => r = Blank,
         next # "idle" => /\ r \in Request /\ (r.alone => req[w].alone)
                          /\ UNCHANGED <<regions, bound>>,
         next \in {"begin", "clear", "write", "count", "delete"} => r.region \in Region,
         next = "bind" => r.account \in Account,
         next \in {"begin", "clear", "write"} /\ r.set => r.def,
         r.snap # {} => r.def,
         r.locked # {} => r.def,
         next \in {"count", "delete"} /\ r.alone => r.region \notin Defaults,
         next = "delete" /\ r.alone => Bound(r.region) = {},
         r.locked \subseteq Defaults',
         \A v \in Worker \ {w} : /\ req[v].locked \subseteq Defaults'
                                 /\ req[v].locked \cap r.locked = {}
  PROVE  IInv'
  <1> USE DEF IInv
  <1>1. TypeOK' /\ Local'
    BY GoOnLocal DEF TypeOK
  <1>2. \A v \in Worker : /\ v = w => pc'[v] = next /\ req'[v] = r
                          /\ v # w => pc'[v] = pc[v] /\ req'[v] = req[v]
    BY DEF GoOn, TypeOK
  <1>3. Intent'
    <2> SUFFICES ASSUME NEW v \in Worker
                 PROVE  /\ pc'[v] \in {"begin", "clear", "write"} /\ req'[v].set => req'[v].def
                        /\ req'[v].snap # {} => req'[v].def
                        /\ req'[v].locked # {} => req'[v].def
      BY DEF Intent
    <2>1. CASE v = w
      BY <1>2, <2>1
    <2>2. CASE v # w
      BY <1>2, <2>2 DEF Intent
    <2> QED BY <2>1, <2>2
  <1>4. Checked'
    <2> SUFFICES ASSUME NEW v \in Worker, pc'[v] # "idle", req'[v].alone
                 PROVE  /\ \A x \in Worker \ {v} : pc'[x] = "idle"
                        /\ pc'[v] \in {"count", "delete"} => req'[v].region \notin Defaults'
                        /\ pc'[v] = "delete" => Bound(req[v].region)' = {}
      BY DEF Checked, Bound
    <2>1. v = w
      BY <1>2 DEF Checked
    <2>2. /\ next # "idle" /\ r.alone /\ req[w].alone /\ UNCHANGED <<regions, bound>>
          /\ pc'[v] = next /\ req'[v] = r
      BY <1>2, <2>1
    <2>3. \A x \in Worker \ {v} : pc'[x] = "idle"
      BY <1>2, <2>1, <2>2 DEF Checked
    <2>4. Defaults' = Defaults /\ Bound(req[v].region)' = Bound(r.region)
      BY <2>2 DEF Defaults, Exists, Bound
    <2> QED BY <2>2, <2>3, <2>4
  <1>5. Locks'
    BY <1>2 DEF Locks
  <1> QED BY <1>1, <1>3, <1>4, <1>5

\* So does the first step of a request.
LEMMA BeginStep ==
  ASSUME IInv, NEW w \in Worker, NEW r \in Request, NEW next, Begin(w, r, next),
         UNCHANGED <<regions, bound>>,
         next \in {"begin", "clear", "count", "bind"},
         next # "bind" => r.region \in Region,
         next = "bind" => r.account \in Account,
         r.set \/ r.snap # {} => r.def, r.locked = {},
         next = "count" => r.region \notin Defaults
  PROVE  IInv'
  <1> USE DEF IInv
  <1>1. TypeOK' /\ Local'
    BY BeginLocal DEF TypeOK
  <1>2. Defaults' = Defaults /\ OneDefault' /\ BindingsExist'
    BY DEF OneDefault, BindingsExist, Defaults, Exists
  <1>3. ASSUME NEW v \in Worker
        PROVE  /\ pc'[v] \in {"begin", "clear", "write"} /\ req'[v].set => req'[v].def
               /\ req'[v].snap # {} => req'[v].def
               /\ req'[v].locked # {} => req'[v].def
    <2>1. CASE v = w
      BY <2>1, BeginEffect DEF Same
    <2>2. CASE v # w /\ pc[v] = "idle"
      BY <2>2, BeginEffect DEF Blank
    <2>3. CASE v # w /\ pc[v] # "idle"
      BY <2>3, BeginEffect DEF Same, Intent
    <2> QED BY <2>1, <2>2, <2>3
  <1>4. Checked'
    <2> SUFFICES ASSUME NEW v \in Worker, pc'[v] # "idle", req'[v].alone
                 PROVE  /\ \A x \in Worker \ {v} : pc'[x] = "idle"
                        /\ pc'[v] \in {"count", "delete"} => req'[v].region \notin Defaults'
                        /\ pc'[v] = "delete" => Bound(req[v].region)' = {}
      BY DEF Checked, Bound
    <2>1. v = w
      BY BeginEffect
    <2> QED BY <1>2, <2>1, BeginEffect DEF Same
  <1>5. \A v \in Worker : req'[v].locked = {} \/ (v # w /\ req'[v].locked = req[v].locked)
    BY BeginEffect DEF Same, Blank
  <1>6. Locks'
    BY <1>2, <1>5 DEF Locks
  <1> QED BY <1>1, <1>2, <1>3, <1>4, <1>6 DEF Intent

-----------------------------------------------------------------------------
\* The commit of an insert or an update: the index lets it write the flag only
\* when no other row keeps it.
LEMMA WriteStep ==
  ASSUME IInv, NEW w \in Worker, Write(w)
  PROVE  IInv'
  <1> USE DEF IInv
  <1> DEFINE me == req[w].region
             valid == /\ Admits(w)
                      /\ IF req[w].op = "insert" THEN regions[me] = Nil ELSE Exists(me)
  <1>1. /\ pc[w] = "write" /\ me \in Region /\ req[w] \in Request
        /\ req[w].def \in BOOLEAN /\ req[w].active \in BOOLEAN
    BY DEF Write, Local, Kept, Request
  <1>2. GoOn(w, Blank, "idle") /\ UNCHANGED bound
    BY DEF Write, Finish
  <1>3. \A v \in Worker \ {w} : /\ me \notin req[v].locked
                                /\ req[v].locked \cap req[w].locked = {}
                                /\ req[v].locked \subseteq Defaults
    BY <1>1 DEF Write, Held, Locks
  <1>4. CASE ~valid
    <2>1. regions' = regions
      BY <1>4 DEF Write
    <2>2. Defaults' = Defaults /\ OneDefault' /\ BindingsExist'
      BY <1>2, <2>1 DEF OneDefault, BindingsExist, Defaults, Exists
    <2> QED BY <1>1, <1>2, <1>3, <2>1, <2>2, GoOnStep DEF TypeOK, Blank
  <1>5. CASE valid
    <2> DEFINE row == [def |-> req[w].def, active |-> req[w].active]
    <2>1. regions' = [r \in Region |->
                        IF r = me THEN row
                        ELSE IF r \in req[w].locked THEN [regions[r] EXCEPT !.def = FALSE]
                        ELSE regions[r]]
      BY <1>5 DEF Write
    <2>2. row \in Row /\ row.def = req[w].def
      BY <1>1 DEF Row
    <2> HIDE DEF row
    <2>3. ASSUME NEW r \in Region, r # me, r \in req[w].locked
          PROVE  regions'[r] \in Row /\ regions'[r].def = FALSE
      <3>1. regions[r] \in Row
        BY <2>3 DEF TypeOK, Locks, Defaults, Exists
      <3>2. regions'[r] = [regions[r] EXCEPT !.def = FALSE]
        BY <2>1, <2>3
      <3> QED BY <3>1, <3>2 DEF Row
    <2>4. regions'[me] \in Row /\ regions'[me].def = req[w].def
      BY <1>1, <2>1, <2>2
    <2>5. \A r \in Region : (r # me /\ r \notin req[w].locked) => regions'[r] = regions[r]
      BY <2>1
    <2>6. regions' \in [Region -> Row \cup {Nil, Gone}]
      <3>1. \A r \in Region : regions'[r] \in Row \cup {Nil, Gone}
        BY <2>3, <2>4, <2>5 DEF TypeOK
      <3> QED BY <2>1, <3>1
    <2>7. \A r \in Region : Exists(r) => Exists(r)'
      BY <2>3, <2>4, <2>5, RegionsAssumption DEF Exists
    <2>8. BindingsExist'
      BY <1>2, <2>7 DEF BindingsExist, TypeOK
    <2>9. CASE req[w].def
      <3>1. Defaults' = {me}
        BY <1>1, <1>5, <2>3, <2>4, <2>5, <2>9, RegionsAssumption DEF Admits, Defaults, Exists
      <3>2. \A v \in Worker \ {w} : req[v].locked = {}
        BY <1>3, <1>5, <2>9 DEF Admits
      <3>3. OneDefault'
        BY <3>1 DEF OneDefault
      <3> QED BY <1>1, <1>2, <2>6, <2>8, <3>2, <3>3, GoOnStep DEF Blank, TypeOK
    <2>10. CASE ~req[w].def
      <3>1. req[w].locked = {}
        BY <2>10 DEF Intent
      <3>2. Defaults' = Defaults \ {me}
        BY <1>1, <2>4, <2>5, <2>10, <3>1 DEF Defaults, Exists
      <3>3. OneDefault'
        BY <3>2 DEF OneDefault
      <3> QED BY <1>1, <1>2, <1>3, <2>6, <2>8, <3>2, <3>3, GoOnStep DEF Blank, TypeOK
    <2> QED BY <2>9, <2>10
  <1> QED BY <1>4, <1>5

\* Deleting a region leaves the others as they are, and nothing bound to it.
LEMMA DeleteStep ==
  ASSUME IInv, NEW w \in Worker, DeleteRegion(w)
  PROVE  IInv'
  <1> USE DEF IInv
  <1> DEFINE me == req[w].region
  <1>1. pc[w] = "delete" /\ me \in Region /\ GoOn(w, Blank, "idle")
    BY DEF DeleteRegion, Local, Kept, Finish
  <1>2. /\ regions' = [regions EXCEPT ![me] = Gone]
        /\ bound' = [a \in Account |-> IF bound[a] = me THEN Nil ELSE bound[a]]
    BY DEF DeleteRegion
  <1>3. /\ regions' \in [Region -> Row \cup {Nil, Gone}]
        /\ bound' \in [Account -> Region \cup {Nil}]
    BY <1>1, <1>2 DEF TypeOK
  <1>4. Defaults' = Defaults \ {me}
    BY <1>1, <1>2 DEF Defaults, Exists, TypeOK
  <1>5. OneDefault'
    BY <1>4 DEF OneDefault
  <1>6. BindingsExist'
    BY <1>1, <1>2 DEF BindingsExist, Exists, TypeOK
  <1>7. \A v \in Worker \ {w} : me \notin req[v].locked
    BY <1>1 DEF DeleteRegion, Held
  <1>8. \A v \in Worker \ {w} : req[v].locked \subseteq Defaults'
    BY <1>4, <1>7 DEF Locks
  <1> QED BY <1>1, <1>3, <1>5, <1>6, <1>8, GoOnStep DEF Blank

\* An account is bound to a region that is there.
LEMMA BindStep ==
  ASSUME IInv, NEW w \in Worker, Bind(w)
  PROVE  IInv'
  <1> USE DEF IInv
  <1>1. /\ pc[w] = "bind" /\ req[w] \in Request /\ GoOn(w, Blank, "idle")
        /\ regions' = regions
    BY DEF Bind, Local, Kept, Finish
  <1>2. req[w].region \in Region \cup {Nil}
    BY <1>1 DEF Request
  <1>3. bound' \in [Account -> Region \cup {Nil}] /\ BindingsExist'
    BY <1>1, <1>2 DEF Bind, TypeOK, BindingsExist, Exists
  <1>4. Defaults' = Defaults /\ OneDefault'
    BY <1>1 DEF OneDefault, Defaults, Exists
  <1> QED BY <1>1, <1>3, <1>4, GoOnStep DEF Blank, TypeOK, Locks

\* The steps that only read, or wait: the tables stay, the local variables grow.
LEMMA QuietStep ==
  ASSUME IInv, NEW w \in Worker, NEW next, NEW r \in Request,
         pc[w] # "idle", GoOn(w, r, next), UNCHANGED <<regions, bound>>,
         next \in {"clear", "write", "delete"},
         r.region \in Region, r.alone => req[w].alone,
         (next # "delete" /\ r.set) \/ r.snap # {} \/ r.locked # {} => r.def,
         next = "delete" /\ r.alone => /\ r.region \notin Defaults
                                       /\ Bound(r.region) = {},
         r.locked \subseteq Defaults,
         \A v \in Worker \ {w} : req[v].locked \cap r.locked = {}
  PROVE  IInv'
  <1> USE DEF IInv
  <1>1. Defaults' = Defaults /\ OneDefault' /\ BindingsExist'
    BY DEF OneDefault, BindingsExist, Defaults, Exists
  <1> QED BY <1>1, GoOnStep DEF TypeOK, Locks

\* Every step keeps the invariant.
LEMMA StepIInv == IInv /\ [Next]_vars => IInv'
  <1> USE DEF IInv
  <1> SUFFICES ASSUME IInv, [Next]_vars PROVE IInv'
    OBVIOUS
  <1>1. CASE UNCHANGED vars
    BY <1>1 DEF vars, TypeOK, Local, Kept, Intent, Locks, OneDefault, BindingsExist, Checked,
                Defaults, Exists, Bound
  <1> SUFFICES ASSUME NEW w \in Worker, Step(w) PROVE IInv'
    BY <1>1 DEF Next
  <1>2. CASE Create(w)
    <2>1. PICK r \in Region, def \in BOOLEAN, active \in BOOLEAN :
             Begin(w, [Blank EXCEPT !.op = "insert", !.region = r, !.def = def,
                                    !.active = active, !.set = def,
                                    !.snap = IF def THEN Defaults ELSE {}], "clear")
      BY <1>2 DEF Create
    <2> DEFINE q == [Blank EXCEPT !.op = "insert", !.region = r, !.def = def,
                                  !.active = active, !.set = def,
                                  !.snap = IF def THEN Defaults ELSE {}]
    <2>2. q \in Request /\ q.region = r /\ q.locked = {} /\ q.def = def /\ q.set = def
          /\ q.snap = (IF def THEN Defaults ELSE {})
      BY DEF Blank, Request, Defaults
    <2>3. UNCHANGED <<regions, bound>> /\ Begin(w, q, "clear")
      BY <1>2, <2>1 DEF Create
    <2> HIDE DEF q
    <2> QED BY <2>2, <2>3, BeginStep
  <1>3. CASE LoadRegion(w)
    <2>1. PICK r \in Region, asked \in {TRUE, FALSE, Nil}, active \in BOOLEAN :
             /\ Exists(r)
             /\ Begin(w, [Blank EXCEPT !.op = "update", !.region = r, !.active = active,
                                       !.def = IF asked = Nil THEN regions[r].def ELSE asked,
                                       !.set = (asked = TRUE)], "begin")
      BY <1>3 DEF LoadRegion
    <2> DEFINE def == IF asked = Nil THEN regions[r].def ELSE asked
               set == (asked = TRUE)
               q == [Blank EXCEPT !.op = "update", !.region = r, !.active = active,
                                  !.def = def, !.set = set]
    <2>2. def \in BOOLEAN /\ set \in BOOLEAN /\ (set => def)
      <3>1. regions[r].def \in BOOLEAN
        BY <2>1 DEF Exists, TypeOK, Row
      <3> QED BY <3>1, RegionsAssumption
    <2>3. UNCHANGED <<regions, bound>> /\ Begin(w, q, "begin")
      BY <1>3, <2>1 DEF LoadRegion
    <2> HIDE DEF def, set
    <2>4. q \in Request /\ q.region = r /\ q.locked = {} /\ q.def = def /\ q.set = set
          /\ q.snap = {}
      BY <2>2 DEF Blank, Request
    <2> HIDE DEF q
    <2> QED BY <2>2, <2>3, <2>4, BeginStep
  <1>4. CASE BeginUpdate(w)
    <2> DEFINE snap == IF req[w].set THEN Defaults \ {req[w].region} ELSE {}
               q == [req[w] EXCEPT !.snap = snap]
    <2>1. pc[w] = "begin" /\ req[w] \in Request /\ req[w].region \in Region
          /\ GoOn(w, q, "clear") /\ UNCHANGED <<regions, bound>>
      BY <1>4 DEF BeginUpdate, Local, Kept
    <2>2. snap \subseteq Region /\ (snap # {} => req[w].set)
      BY DEF Defaults
    <2> HIDE DEF snap
    <2>3. q \in Request /\ q.region = req[w].region /\ q.locked = req[w].locked
          /\ q.def = req[w].def /\ q.set = req[w].set /\ q.snap = snap
          /\ q.alone = req[w].alone
      BY <2>1, <2>2 DEF Request
    <2>4. q.set \/ q.snap # {} \/ q.locked # {} => q.def
      BY <2>1, <2>2, <2>3 DEF Intent
    <2> HIDE DEF q
    <2> QED BY <2>1, <2>3, <2>4, QuietStep DEF Locks
  <1>5. CASE ClearDefault(w)
    <2> DEFINE locked == req[w].snap \cap Defaults
               q == [req[w] EXCEPT !.snap = {}, !.locked = locked]
    <2>1. pc[w] = "clear" /\ req[w] \in Request /\ req[w].region \in Region
          /\ GoOn(w, q, "write") /\ UNCHANGED <<regions, bound>> /\ ~Held(w, req[w].snap)
      BY <1>5 DEF ClearDefault, Local, Kept
    <2>2. locked \subseteq Region /\ locked \subseteq Defaults
          /\ \A v \in Worker \ {w} : req[v].locked \cap locked = {}
      BY <2>1 DEF Held, Defaults
    <2>3. locked # {} => req[w].def
      BY DEF Intent
    <2> HIDE DEF locked
    <2>4. q \in Request /\ q.region = req[w].region /\ q.locked = locked
          /\ q.def = req[w].def /\ q.set = req[w].set /\ q.snap = {}
          /\ q.alone = req[w].alone
      BY <2>1, <2>2 DEF Request
    <2>5. q.set \/ q.snap # {} \/ q.locked # {} => q.def
      BY <2>1, <2>3, <2>4 DEF Intent
    <2> HIDE DEF q
    <2> QED BY <2>1, <2>2, <2>4, <2>5, QuietStep
  <1>6. CASE LoadForDelete(w)
    <2>1. PICK r \in Region :
             /\ Exists(r) /\ ~regions[r].def
             /\ Begin(w, [Blank EXCEPT !.op = "delete", !.region = r], "count")
      BY <1>6 DEF LoadForDelete
    <2> DEFINE q == [Blank EXCEPT !.op = "delete", !.region = r]
    <2>2. q \in Request /\ q.region = r /\ q.locked = {} /\ ~q.set /\ q.snap = {}
      BY DEF Blank, Request
    <2>3. UNCHANGED <<regions, bound>> /\ Begin(w, q, "count") /\ r \notin Defaults
      BY <1>6, <2>1 DEF LoadForDelete, Defaults
    <2> HIDE DEF q
    <2> QED BY <2>2, <2>3, BeginStep
  <1> DEFINE Ends == GoOn(w, Blank, "idle") /\ pc[w] # "idle" /\ UNCHANGED <<regions, bound>>
  <1>7. ASSUME Ends PROVE IInv'
    <2>1. OneDefault' /\ BindingsExist' /\ Defaults' = Defaults
      BY <1>7 DEF OneDefault, BindingsExist, Defaults, Exists
    <2> QED BY <1>7, <2>1, GoOnStep DEF Blank, TypeOK, Locks
  <1>8. CASE BoundCount(w)
    <2>1. CASE Bound(req[w].region) = {}
      <3>1. pc[w] = "count" /\ req[w] \in Request /\ req[w].region \in Region
            /\ GoOn(w, req[w], "delete") /\ UNCHANGED <<regions, bound>>
        BY <1>8, <2>1 DEF BoundCount, Local, Kept
      <3>2. req[w].alone => req[w].region \notin Defaults
        BY <3>1 DEF Checked
      <3>3. req[w].snap # {} \/ req[w].locked # {} => req[w].def
        BY DEF Intent
      <3> QED BY <2>1, <3>1, <3>2, <3>3, QuietStep DEF Locks
    <2>2. CASE Bound(req[w].region) # {}
      BY <1>7, <1>8, <2>2 DEF BoundCount, Finish
    <2> QED BY <2>1, <2>2
  <1>9. CASE LoadAccount(w)
    <2>0. PICK a \in Account :
             \E r \in {bound[a], Nil} \cup {x \in Region : Exists(x) /\ regions[x].active} :
                Begin(w, [Blank EXCEPT !.op = "bind", !.account = a, !.region = r], "bind")
      BY <1>9 DEF LoadAccount
    <2>1. PICK r \in {bound[a], Nil} \cup {x \in Region : Exists(x) /\ regions[x].active} :
             Begin(w, [Blank EXCEPT !.op = "bind", !.account = a, !.region = r], "bind")
      BY <2>0
    <2> DEFINE q == [Blank EXCEPT !.op = "bind", !.account = a, !.region = r]
    <2>2. r \in Region \cup {Nil}
      BY DEF TypeOK
    <2>3. q \in Request /\ q.account = a /\ q.locked = {} /\ ~q.set /\ q.snap = {}
      BY <2>2 DEF Blank, Request
    <2>4. UNCHANGED <<regions, bound>> /\ Begin(w, q, "bind")
      BY <1>9, <2>1 DEF LoadAccount
    <2> HIDE DEF q
    <2> QED BY <2>3, <2>4, BeginStep
  <1>10. CASE Abort(w)
    BY <1>7, <1>10 DEF Abort, Finish
  <1> QED BY <1>2, <1>3, <1>4, <1>5, <1>6, <1>8, <1>9, <1>10, WriteStep, DeleteStep, BindStep
          DEF Step

-----------------------------------------------------------------------------
\* The invariant holds in every reachable state.
THEOREM Invariance == Spec => []IInv
  <1>1. Init => IInv
    BY InitIInv
  <1>2. IInv /\ [Next]_vars => IInv'
    BY StepIInv
  <1> QED BY <1>1, <1>2, PTL DEF Spec

\* Every variable always holds a value of its type.
THEOREM TypeCorrect == Spec => []TypeOK
  <1>1. IInv => TypeOK
    BY DEF IInv
  <1> QED BY <1>1, Invariance, PTL

\* However many requests set the default at once, at most one region has it.
THEOREM DefaultIsUnique == Spec => []OneDefault
  <1>1. IInv => OneDefault
    BY DEF IInv
  <1> QED BY <1>1, Invariance, PTL

\* No account is ever bound to a region that is not there.
THEOREM BindingsAreValid == Spec => []BindingsExist
  <1>1. IInv => BindingsExist
    BY DEF IInv
  <1> QED BY <1>1, Invariance, PTL

\* A delete that runs alone removes neither the default nor a bound region.
THEOREM DeleteRespectsChecks == Spec => []DeleteIsChecked
  <1>1. IInv => DeleteIsChecked
    BY DEF IInv, Checked, DeleteIsChecked
  <1> QED BY <1>1, Invariance, PTL

\* Handing the default over never leaves none, wherever it stops.
THEOREM DefaultIsHandedOver == Spec => DefaultHandedOver
  <1> DEFINE Over == (Defaults # {} /\ Defaults' = {}) =>
                        \E w \in Worker : /\ pc[w] \in {"write", "delete"} /\ pc'[w] = "idle"
                                          /\ req[w].region \in Defaults
  <1>1. IInv /\ [Next]_vars => [Over]_vars
    <2> SUFFICES ASSUME IInv, Next, Defaults # {}, Defaults' = {}
                 PROVE  \E w \in Worker : /\ pc[w] \in {"write", "delete"} /\ pc'[w] = "idle"
                                          /\ req[w].region \in Defaults
      OBVIOUS
    <2>1. PICK w \in Worker : Step(w)
      BY DEF Next
    <2>2. regions' # regions
      BY DEF Defaults, Exists
    <2>3. Write(w) \/ DeleteRegion(w)
      BY <2>1, <2>2
      DEF Step, Create, LoadRegion, BeginUpdate, ClearDefault, LoadForDelete, BoundCount,
          LoadAccount, Bind, Abort
    <2>4. /\ pc[w] \in {"write", "delete"} /\ pc'[w] = "idle"
          /\ req[w].region \in Region
      BY <2>3 DEF Write, DeleteRegion, Finish, GoOn, IInv, TypeOK, Local, Kept
    <2>5. CASE DeleteRegion(w)
      <3>1. \A r \in Region \ {req[w].region} : regions'[r] = regions[r]
        BY <2>4, <2>5 DEF DeleteRegion, IInv, TypeOK
      <3> QED BY <2>4, <3>1 DEF Defaults, Exists
    <2>6. CASE Write(w)
      <3> DEFINE row == [def |-> req[w].def, active |-> req[w].active]
      <3>1. regions' = [r \in Region |->
                          IF r = req[w].region THEN row
                          ELSE IF r \in req[w].locked THEN [regions[r] EXCEPT !.def = FALSE]
                          ELSE regions[r]]
        BY <2>2, <2>6 DEF Write
      <3>2. row \in Row /\ row.def = req[w].def
        BY <2>6 DEF Write, IInv, Local, Kept, Request, Row
      <3> HIDE DEF row
      <3>3. regions'[req[w].region] = row
        BY <2>4, <3>1
      <3>4. ~req[w].def
        BY <2>4, <3>2, <3>3, RegionsAssumption DEF Defaults, Exists
      <3>5. req[w].locked = {}
        BY <3>4 DEF IInv, Intent
      <3>6. \A r \in Region \ {req[w].region} : regions'[r] = regions[r]
        BY <3>1, <3>5
      <3> QED BY <2>4, <3>6 DEF Defaults, Exists
    <2> QED BY <2>3, <2>5, <2>6
  <1> QED BY <1>1, Invariance, PTL DEF Spec, DefaultHandedOver
=============================================================================

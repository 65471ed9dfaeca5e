---------------------------- MODULE AlertsProofs ----------------------------
(***************************************************************************)
(* What is proved of Alerts.  That open events are bounded counts them     *)
(* together with the evaluations about to insert one more (Bounded).  That *)
(* an evaluation is conclusive needs all it has established so far, rule   *)
(* by rule and target by target (Thorough), and that nobody else is at     *)
(* work while it is calm (Apart).                                          *)
(***************************************************************************)
EXTENDS Alerts, FiniteSetTheorems, TLAPS

Listed == {"quota", "bucket"}  \* the types of rules that go through a list of targets

(***************************************************************************)
(* The inductive invariant                                                 *)
(***************************************************************************)
\* What local variables hold at each statement.
Placed(place, r) ==
    /\ place \in {"usage", "rule", "answer"} => r.rule = Nil /\ r.target = Nil
    /\ place \in {"target", "announce", "sweep"} => r.rule \in Rule /\ kind[r.rule] \in Listed
    /\ place \in {"check", "insert"} =>
           r.rule \in Rule /\ IF kind[r.rule] \in Listed THEN r.target \in Target ELSE r.target = Nil
    /\ place = "announce" => r.target \in Account /\ r.back \in {"target", "sweep"}
    /\ place = "answer" => r.todo = {}
    /\ place = "ack" => r.event \in EventId /\ events[r.event] # Nil

Local == \A w \in Worker : Placed(pc[w], run[w])

\* Rules with one figure for the platform have events without a target.
Untargeted ==
    \A e \in EventId :
        (events[e] # Nil /\ events[e].rule \in Rule /\ kind[events[e].rule] \notin Listed)
            => events[e].target = Nil

\* The evaluations that found no open event and are about to insert one.
Inserting(r, t) == {w \in Worker : pc[w] = "insert" /\ run[w].rule = r /\ run[w].target = t}

About(r) == IF kind[r] \in Listed THEN Target ELSE {Nil}

Bounded ==
    \A r \in Rule : \A t \in About(r) :
        /\ IsFiniteSet(Open(r, t))
        /\ Cardinality(Open(r, t)) + Cardinality(Inserting(r, t)) <= Cardinality(Worker)

\* Nothing else is under way beside a calm request.
Apart ==
    \A w \in Worker : run[w].calm =>
        pc[w] # "idle" /\ \A v \in Worker \ {w} : pc[v] = "idle"

\* An event is open for t exactly if t has reached the threshold.
Right(r, t) == Open(r, t) # {} <=> t \in load

Counted(r) == {t \in Watched(kind[r]) : standing[t] = "counted"}

\* The rule is done with.
Done(r) == \A t \in Watched(kind[r]) : Open(r, t) # {} <=> (standing[t] = "counted" /\ t \in load)

\* What a calm evaluation has established of its rule.
OfRule(place, r) ==
    /\ r.seen = Counted(r.rule)
    /\ r.queue \subseteq r.seen
    /\ \A t \in r.seen \ r.queue : Right(r.rule, t) \/ (place \in {"check", "insert"} /\ t = r.target)
    /\ place \in {"check", "insert"} => r.target \in r.seen /\ r.target \in load
    /\ (place = "sweep" \/ (place = "announce" /\ r.back = "sweep")) =>
           /\ r.queue = {} /\ r.sweep \cap r.seen = {}
           /\ \A t \in Target \ (r.seen \cup r.sweep) : Open(r.rule, t) = {}

Thorough(place, r) ==
    /\ place \notin {"usage", "ack"} => r.use = load
    /\ place # "ack" =>
           \A q \in Rule : (Exists(q) /\ rules[q].on /\ kind[q] \in Listed)
                               => q \in r.todo \/ q = r.rule \/ Done(q)
    /\ (r.rule \in Rule /\ kind[r.rule] \in Listed) => OfRule(place, r)

Calm == \A w \in Worker : run[w].calm => Thorough(pc[w], run[w])

IInv == TypeOK /\ Local /\ Untargeted /\ Bounded /\ Apart /\ Calm

-----------------------------------------------------------------------------
(***************************************************************************)
(* Events, and those that are open                                         *)
(***************************************************************************)
Events == [EventId -> Event \cup {Nil}]
Places == {"idle", "usage", "rule", "target", "check", "insert", "announce", "sweep", "answer", "ack"}

\* No event is forgotten, or comes to be about something else.
SameSubjects ==
    \A e \in EventId : events[e] # Nil =>
        events'[e] # Nil /\ events'[e].rule = events[e].rule /\ events'[e].target = events[e].target

\* Closing events takes them from the open ones and changes nothing else.
LEMMA Closing ==
  ASSUME TypeOK, NEW S \in SUBSET EventId, \A e \in S : events[e] # Nil, events' = Closed(S)
  PROVE  /\ events' \in Events /\ SameSubjects
         /\ \A e \in EventId : events[e] = Nil => events'[e] = Nil
         /\ \A r, t : Open(r, t)' = Open(r, t) \ S
  <1>1. \A e \in EventId : events[e] \in Event \cup {Nil}
    BY DEF TypeOK
  <1>2. ASSUME NEW e \in EventId
        PROVE  /\ e \in S => /\ events'[e] \in Event /\ events'[e].status = "resolved"
                             /\ events'[e].rule = events[e].rule
                             /\ events'[e].target = events[e].target
               /\ e \notin S => events'[e] = events[e]
    BY <1>1 DEF Closed, Event
  <1>3. events' = [e \in EventId |-> events'[e]]
    BY DEF Closed
  <1>4. events' \in Events
    BY <1>1, <1>2, <1>3 DEF Events
  <1>5. SameSubjects /\ \A e \in EventId : events[e] = Nil => events'[e] = Nil
    BY <1>2, AlertsAssumption DEF SameSubjects
  <1>6. ASSUME NEW r, NEW t PROVE Open(r, t)' = Open(r, t) \ S
    BY <1>2, <1>5 DEF Open
  <1> QED BY <1>4, <1>5, <1>6

LEMMA ClosableFacts ==
  ASSUME TypeOK, NEW r \in Rule, NEW t \in Target \cup {Nil}
  PROVE  /\ Closable(r, t) \in SUBSET EventId
         /\ \A e \in Closable(r, t) : events[e] # Nil /\ events[e].rule = r
         /\ t \in Target => Closable(r, t) = Open(r, t)
  BY AlertsAssumption DEF Closable, Open

LEMMA UntargetedKept ==
  ASSUME Untargeted, kind' = kind, SameSubjects, \A e \in EventId : events[e] = Nil => events'[e] = Nil
  PROVE  Untargeted'
  BY DEF Untargeted, SameSubjects

\* Fewer open events, and nobody new who is about to insert one.
LEMMA BoundedKept ==
  ASSUME Bounded, kind' = kind,
         \A r \in Rule : \A t \in About(r) :
             Open(r, t)' \subseteq Open(r, t) /\ Inserting(r, t)' \subseteq Inserting(r, t)
  PROVE  Bounded'
  <1> SUFFICES ASSUME NEW r \in Rule, NEW t \in About(r)
               PROVE  /\ IsFiniteSet(Open(r, t)')
                      /\ Cardinality(Open(r, t)') + Cardinality(Inserting(r, t)') <= Cardinality(Worker)
    BY DEF Bounded, About
  <1>1. IsFiniteSet(Open(r, t)) /\ IsFiniteSet(Inserting(r, t))
    BY AlertsAssumption, FS_Subset DEF Bounded, Inserting
  <1>2. /\ IsFiniteSet(Open(r, t)') /\ Cardinality(Open(r, t)') <= Cardinality(Open(r, t))
        /\ IsFiniteSet(Inserting(r, t)')
        /\ Cardinality(Inserting(r, t)') <= Cardinality(Inserting(r, t))
    BY <1>1, FS_Subset
  <1>3. /\ Cardinality(Open(r, t)) \in Nat /\ Cardinality(Open(r, t)') \in Nat
        /\ Cardinality(Inserting(r, t)) \in Nat /\ Cardinality(Inserting(r, t)') \in Nat
        /\ Cardinality(Worker) \in Nat
    BY <1>1, <1>2, AlertsAssumption, FS_CardinalityType
  <1>4. Cardinality(Open(r, t)) + Cardinality(Inserting(r, t)) <= Cardinality(Worker)
    BY DEF Bounded
  <1> QED BY <1>2, <1>3, <1>4

-----------------------------------------------------------------------------
(***************************************************************************)
(* Steps of one request                                                    *)
(***************************************************************************)
\* A request goes on: what it must show for the invariant.
LEMMA MoveIInv ==
  ASSUME IInv, kind' = kind, NEW w \in Worker, pc[w] # "idle",
         NEW next \in Places, NEW r \in Run, GoOn(w, next, r),
         r.calm => run[w].calm /\ next # "idle",
         UNCHANGED <<rules, standing, load>>,
         board' \in [Rule -> [Account -> {Nil, "firing", "resolved"}]],
         events' \in Events, \A e \in EventId : events[e] # Nil => events'[e] # Nil,
         Untargeted', Bounded', Placed(next, r)', r.calm => Thorough(next, r)'
  PROVE  IInv'
  <1>1. /\ pc' \in [Worker -> Places] /\ run' \in [Worker -> Run]
        /\ pc'[w] = next /\ run'[w] = r
        /\ \A v \in Worker \ {w} : pc'[v] = pc[v] /\ run'[v] = run[v]
    BY DEF IInv, TypeOK, GoOn, Places
  <1>2. TypeOK'
    BY <1>1 DEF IInv, TypeOK, Events, Places
  <1>3. Local'
    BY <1>1 DEF IInv, Local, Placed
  <1>4. Apart'
    BY <1>1 DEF IInv, Apart
  <1>5. Calm'
    BY <1>1 DEF IInv, Apart, Calm
  <1> QED BY <1>2, <1>3, <1>4, <1>5 DEF IInv

\* The events stay as they are, and nobody is about to insert one.
LEMMA StayIInv ==
  ASSUME IInv, kind' = kind, NEW w \in Worker, pc[w] # "idle",
         NEW next \in Places, next # "insert", NEW r \in Run, GoOn(w, next, r),
         r.calm => run[w].calm /\ next # "idle",
         UNCHANGED <<rules, standing, load, events>>,
         board' \in [Rule -> [Account -> {Nil, "firing", "resolved"}]],
         Placed(next, r), r.calm => Thorough(next, r)
  PROVE  IInv'
  <1>1. events' \in Events
    BY DEF IInv, TypeOK, Events
  <1>2. Untargeted'
    BY DEF IInv, Untargeted
  <1>3. Bounded'
    <2>1. \A q, t : Inserting(q, t)' \subseteq Inserting(q, t) /\ Open(q, t)' = Open(q, t)
      BY DEF Inserting, Open, GoOn, IInv, TypeOK
    <2> QED BY <2>1, BoundedKept DEF IInv
  <1>4. Placed(next, r)'
    BY DEF Placed
  <1>5. r.calm => Thorough(next, r)'
    <2>1. (\A q, t : Open(q, t)' = Open(q, t)) /\ \A q : Counted(q)' = Counted(q)
      BY DEF Open, Counted, Watched
    <2>2. (\A q : Done(q)' = Done(q)) /\ \A q, t : Right(q, t)' = Right(q, t)
      BY <2>1 DEF Done, Right, Watched
    <2>3. OfRule(next, r)' = OfRule(next, r)
      BY <2>1, <2>2 DEF OfRule
    <2> QED BY <2>2, <2>3 DEF Thorough, Exists
  <1> QED BY <1>1, <1>2, <1>3, <1>4, <1>5, MoveIInv

\* Some events are closed.
LEMMA CloseIInv ==
  ASSUME IInv, kind' = kind, NEW w \in Worker, pc[w] # "idle",
         NEW next \in Places \ {"insert", "ack", "idle"}, NEW r \in Run, GoOn(w, next, r),
         r.calm => run[w].calm,
         UNCHANGED <<rules, standing, load, board>>,
         NEW S \in SUBSET EventId, \A e \in S : events[e] # Nil, events' = Closed(S),
         Placed(next, r), r.calm => Thorough(next, r)'
  PROVE  IInv'
  <1>1. /\ events' \in Events /\ SameSubjects
        /\ \A e \in EventId : events[e] = Nil => events'[e] = Nil
        /\ \A q, t : Open(q, t)' = Open(q, t) \ S
    BY Closing DEF IInv
  <1>2. Untargeted'
    BY <1>1, UntargetedKept DEF IInv
  <1>3. Bounded'
    <2>1. \A q, t : Inserting(q, t)' \subseteq Inserting(q, t)
      BY DEF Inserting, GoOn, IInv, TypeOK
    <2> QED BY <1>1, <2>1, BoundedKept DEF IInv
  <1>4. Placed(next, r)'
    BY DEF Placed
  <1>5. board' \in [Rule -> [Account -> {Nil, "firing", "resolved"}]]
    BY DEF IInv, TypeOK
  <1> QED BY <1>1, <1>2, <1>3, <1>4, <1>5, MoveIInv DEF SameSubjects

\* What a rule's events are is not changed by closing another rule's, or
\* another target's.
LEMMA Elsewhere ==
  ASSUME kind' = kind, UNCHANGED <<rules, standing, load>>, NEW q
  PROVE  /\ (\A t : Open(q, t)' = Open(q, t)) => Done(q)' = Done(q)
         /\ Counted(q)' = Counted(q)
         /\ \A t : Open(q, t)' = Open(q, t) => Right(q, t)' = Right(q, t)
  BY DEF Done, Counted, Right, Watched

LEMMA FinishIInv ==
  ASSUME IInv, kind' = kind, NEW w \in Worker, pc[w] # "idle", Finish(w), UNCHANGED data
  PROVE  IInv'
  <1>1. Blank \in Run /\ "idle" \in Places /\ Blank.calm = FALSE
    BY DEF Blank, Run, Places
  <1>2. Placed("idle", Blank)
    BY DEF Placed
  <1>3. board' \in [Rule -> [Account -> {Nil, "firing", "resolved"}]]
    BY DEF IInv, TypeOK, data
  <1> QED BY <1>1, <1>2, <1>3, StayIInv DEF Finish, data

\* What a request knows at each statement.
LEMMA Known ==
  ASSUME IInv, NEW w \in Worker
  PROVE  run[w] \in Run /\ Placed(pc[w], run[w]) /\ (run[w].calm => Thorough(pc[w], run[w]))
  BY DEF IInv, TypeOK, Local, Calm

LEMMA LoadUsageIInv ==
  ASSUME IInv, kind' = kind, NEW w \in Worker, LoadUsage(w)
  PROVE  IInv'
  <1>1. PICK r : /\ GoOn(w, "rule", r)
                 /\ \/ r = [run[w] EXCEPT !.use = load, !.truth = load]
                    \/ r = [run[w] EXCEPT !.truth = load, !.calm = FALSE]
    BY DEF LoadUsage
  <1>2. pc[w] = "usage" /\ UNCHANGED data /\ load \in SUBSET Target
    BY DEF LoadUsage, IInv, TypeOK
  <1>3. /\ r \in Run /\ r.rule = run[w].rule /\ r.target = run[w].target
        /\ r.todo = run[w].todo /\ (r.calm => run[w].calm /\ r.use = load)
    BY <1>1, <1>2, Known DEF Run
  <1>4. r.rule = Nil /\ r.target = Nil
    BY <1>2, <1>3, Known DEF Placed
  <1>5. Placed("rule", r)
    BY <1>4 DEF Placed
  <1>6. r.calm => Thorough("rule", r)
    BY <1>2, <1>3, <1>4, Known, AlertsAssumption DEF Thorough
  <1>7. board' \in [Rule -> [Account -> {Nil, "firing", "resolved"}]] /\ "rule" \in Places
    BY <1>2 DEF IInv, TypeOK, data, Places
  <1> QED BY <1>1, <1>2, <1>3, <1>5, <1>6, <1>7, StayIInv DEF data

LEMMA NextRuleIInv ==
  ASSUME IInv, kind' = kind, NEW w \in Worker, NextRule(w)
  PROVE  IInv'
  <1>1. PICK q \in run[w].todo :
          /\ kind[q] \in {"quota", "bucket"}
          /\ LET counted == {t \in Watched(kind[q]) : standing[t] = "counted"}
                 listed  == IF kind[q] = "bucket" /\ run[w].use = Nil THEN {} ELSE counted
             IN  GoOn(w, "target", [run[w] EXCEPT !.todo = @ \ {q}, !.rule = q,
                                                  !.queue = listed, !.seen = listed])
    BY DEF NextRule
  <1>2. pc[w] = "rule" /\ UNCHANGED data
    BY DEF NextRule
  <1>3. PICK listed : listed = IF kind[q] = "bucket" /\ run[w].use = Nil THEN {} ELSE Counted(q)
    OBVIOUS
  <1>4. PICK r : r = [run[w] EXCEPT !.todo = @ \ {q}, !.rule = q, !.queue = listed, !.seen = listed]
    OBVIOUS
  <1>5. GoOn(w, "target", r)
    BY <1>1, <1>3, <1>4 DEF Counted
  <1>6. listed \in SUBSET Target /\ q \in Rule
    BY <1>3, Known DEF Counted, Watched, Target, Run
  <1>7. /\ r \in Run /\ r.rule = q /\ r.todo = run[w].todo \ {q} /\ r.queue = listed
        /\ r.seen = listed /\ r.calm = run[w].calm /\ r.use = run[w].use
    BY <1>4, <1>6, Known DEF Run
  <1>8. Placed("target", r)
    BY <1>1, <1>6, <1>7 DEF Placed, Listed
  <1>9. r.calm => Thorough("target", r)
    <2> SUFFICES ASSUME run[w].calm PROVE Thorough("target", r)
      BY <1>7
    <2>1. run[w].use = load /\ load # Nil /\ run[w].rule = Nil
      BY <1>2, Known, AlertsAssumption DEF Thorough, Placed, IInv, TypeOK
    <2>2. listed = Counted(q)
      BY <1>3, <2>1
    <2>3. OfRule("target", r)
      BY <1>7, <2>2 DEF OfRule
    <2>4. \A p \in Rule : (Exists(p) /\ rules[p].on /\ kind[p] \in Listed)
                              => p \in r.todo \/ p = r.rule \/ Done(p)
      BY <1>2, <1>7, <2>1, Known, AlertsAssumption DEF Thorough
    <2> QED BY <1>7, <2>1, <2>3, <2>4 DEF Thorough
  <1>10. board' \in [Rule -> [Account -> {Nil, "firing", "resolved"}]] /\ "target" \in Places
    BY <1>2 DEF IInv, TypeOK, data, Places
  <1> QED BY <1>2, <1>5, <1>7, <1>8, <1>9, <1>10, StayIInv DEF data

\* Closing the events of a rule about one target, or all of them.
LEMMA ClosingOf ==
  ASSUME IInv, NEW q \in Rule, NEW t \in Target \cup {Nil}, events' = Closed(Closable(q, t))
  PROVE  /\ \A p, x : p # q => Open(p, x)' = Open(p, x)
         /\ t \in Target => Open(q, t)' = {} /\ \A x : x # t => Open(q, x)' = Open(q, x)
  <1>1. \A p, x : Open(p, x)' = Open(p, x) \ Closable(q, t)
    BY ClosableFacts, Closing DEF IInv
  <1>2. \A p, x : p # q => Open(p, x) \cap Closable(q, t) = {}
    BY ClosableFacts DEF IInv, Open
  <1>3. t \in Target => \A x : x # t => Open(q, x) \cap Open(q, t) = {}
    BY DEF Open
  <1>4. ASSUME NEW p, NEW x, p # q PROVE Open(p, x)' = Open(p, x)
    BY <1>1, <1>2, <1>4
  <1>5. ASSUME t \in Target
        PROVE  Open(q, t)' = {} /\ \A x : x # t => Open(q, x)' = Open(q, x)
    <2>1. Closable(q, t) = Open(q, t)
      BY <1>5, ClosableFacts DEF IInv
    <2>2. Open(q, t)' = {}
      BY <1>1, <2>1
    <2>3. ASSUME NEW x, x # t PROVE Open(q, x)' = Open(q, x)
      BY <1>1, <1>3, <1>5, <2>1, <2>3
    <2> QED BY <2>2, <2>3
  <1> QED BY <1>4, <1>5

LEMMA ReadRateIInv ==
  ASSUME IInv, kind' = kind, NEW w \in Worker, ReadRate(w)
  PROVE  IInv'
  <1>1. PICK q \in run[w].todo :
          /\ kind[q] \in {"rgw", "audit"}
          /\ LET next == [run[w] EXCEPT !.todo = @ \ {q}] IN
             \/ GoOn(w, "check", [next EXCEPT !.rule = q]) /\ UNCHANGED events
             \/ events' = Closed(Closable(q, Nil)) /\ GoOn(w, "rule", next)
             \/ GoOn(w, "rule", next) /\ UNCHANGED events
    BY DEF ReadRate
  <1>2. pc[w] = "rule" /\ UNCHANGED <<rules, standing, load, board>>
    BY DEF ReadRate
  <1>3. q \in Rule /\ q # Nil /\ kind[q] \notin Listed
    BY <1>1, Known, AlertsAssumption DEF Run, Listed
  <1>4. /\ board' \in [Rule -> [Account -> {Nil, "firing", "resolved"}]]
        /\ {"rule", "check"} \subseteq Places
    BY <1>2 DEF IInv, TypeOK, Places
  <1>5. PICK r : r = [run[w] EXCEPT !.todo = @ \ {q}]
    OBVIOUS
  <1>6. /\ r \in Run /\ r.rule = Nil /\ r.target = Nil /\ r.todo = run[w].todo \ {q}
        /\ r.calm = run[w].calm /\ r.use = run[w].use
    BY <1>2, <1>5, Known DEF Run, Placed
  <1>7. r.calm => Thorough("rule", r)
    BY <1>2, <1>3, <1>6, Known, AlertsAssumption DEF Thorough, Placed
  <1>8. Placed("rule", r)
    BY <1>6 DEF Placed
  <1>9. CASE GoOn(w, "check", [r EXCEPT !.rule = q]) /\ UNCHANGED events
    <2>1. PICK c : c = [r EXCEPT !.rule = q]
      OBVIOUS
    <2>2. c \in Run /\ c.rule = q /\ c.target = Nil /\ c.todo = r.todo /\ c.calm = r.calm /\ c.use = r.use
      BY <1>3, <1>6, <2>1 DEF Run
    <2>3. Placed("check", c)
      BY <1>3, <2>2 DEF Placed
    <2>4. c.calm => Thorough("check", c)
      BY <1>3, <1>6, <1>7, <2>2, AlertsAssumption DEF Thorough
    <2> QED BY <1>2, <1>4, <1>6, <1>9, <2>1, <2>2, <2>3, <2>4, StayIInv
  <1>10. CASE events' = Closed(Closable(q, Nil)) /\ GoOn(w, "rule", r)
    <2>1. r.calm => Thorough("rule", r)'
      <3>1. \A p \in Rule : kind[p] \in Listed => Done(p)' = Done(p)
        BY <1>2, <1>3, <1>10, ClosingOf, Elsewhere
      <3> QED BY <1>2, <1>6, <1>7, <3>1, AlertsAssumption DEF Thorough, Exists
    <2>2. Closable(q, Nil) \in SUBSET EventId /\ \A e \in Closable(q, Nil) : events[e] # Nil
      BY <1>3, ClosableFacts DEF IInv
    <2>3. PICK S \in SUBSET EventId : S = Closable(q, Nil)
      BY <2>2
    <2> QED BY <1>2, <1>4, <1>6, <1>8, <1>10, <2>1, <2>2, <2>3, CloseIInv
  <1>11. CASE GoOn(w, "rule", r) /\ UNCHANGED events
    BY <1>2, <1>4, <1>6, <1>7, <1>8, <1>11, StayIInv
  <1> QED BY <1>1, <1>5, <1>9, <1>10, <1>11

\* resolveAndProject, of a target of the list or of one that was not seen.
LEMMA ResolveIInv ==
  ASSUME IInv, kind' = kind, NEW w \in Worker, NEW here \in {"target", "sweep"}, pc[w] = here,
         NEW t \in Target, NEW r \in Run, ResolveAndProject(w, t, here, r),
         UNCHANGED <<rules, standing, load, board>>,
         r.rule = run[w].rule, r.calm => run[w].calm, r.calm => Thorough(here, r)'
  PROVE  IInv'
  <1>1. run[w].rule \in Rule /\ kind[run[w].rule] \in Listed
    BY Known DEF Placed
  <1>2. Closable(run[w].rule, t) \in SUBSET EventId /\ \A e \in Closable(run[w].rule, t) : events[e] # Nil
    BY <1>1, ClosableFacts DEF IInv
  <1>3. PICK S \in SUBSET EventId : S = Closable(run[w].rule, t)
    BY <1>2
  <1>4. events' = Closed(S) /\ (\A e \in S : events[e] # Nil) /\ here \in Places \ {"insert", "ack", "idle"}
    BY <1>2, <1>3 DEF ResolveAndProject, Places
  <1>5. CASE GoOn(w, here, r)
    <2>1. Placed(here, r)
      BY <1>1 DEF Placed
    <2> QED BY <1>4, <1>5, <2>1, CloseIInv
  <1>6. CASE t \in Account /\ GoOn(w, "announce", [r EXCEPT !.target = t, !.say = "resolved", !.back = here])
    <2>1. PICK c : c = [r EXCEPT !.target = t, !.say = "resolved", !.back = here]
      OBVIOUS
    <2>2. /\ c \in Run /\ c.target = t /\ c.back = here
          /\ c.rule = r.rule /\ c.calm = r.calm /\ c.todo = r.todo /\ c.use = r.use
          /\ c.seen = r.seen /\ c.queue = r.queue /\ c.sweep = r.sweep
      BY <2>1 DEF Run
    <2>3. Placed("announce", c)
      BY <1>1, <1>6, <2>2 DEF Placed
    <2>4. c.calm => Thorough("announce", c)'
      BY <2>2 DEF Thorough, OfRule
    <2>5. "announce" \in Places \ {"insert", "ack", "idle"}
      BY DEF Places
    <2> QED BY <1>4, <1>6, <2>1, <2>2, <2>3, <2>4, <2>5, CloseIInv
  <1> QED BY <1>5, <1>6 DEF ResolveAndProject

LEMMA NextTargetIInv ==
  ASSUME IInv, kind' = kind, NEW w \in Worker, NextTarget(w)
  PROVE  IInv'
  <1>1. PICK t \in run[w].queue, granted \in BOOLEAN :
          LET r    == [run[w] EXCEPT !.queue = @ \ {t}, !.calm = @ /\ granted]
              over == run[w].use # Nil /\ t \in run[w].use /\ granted
          IN  \/ over /\ GoOn(w, "check", [r EXCEPT !.target = t]) /\ UNCHANGED events
              \/ ~over /\ ResolveAndProject(w, t, "target", r)
    BY DEF NextTarget
  <1>2. pc[w] = "target" /\ UNCHANGED <<rules, standing, load, board>>
    BY DEF NextTarget
  <1>3. PICK r : r = [run[w] EXCEPT !.queue = @ \ {t}, !.calm = @ /\ granted]
    OBVIOUS
  <1>4. /\ r \in Run /\ r.rule = run[w].rule /\ r.queue = run[w].queue \ {t} /\ t \in Target
        /\ r.calm = (run[w].calm /\ granted) /\ r.todo = run[w].todo /\ r.use = run[w].use
        /\ r.seen = run[w].seen
    BY <1>3, Known DEF Run
  <1>5. r.rule \in Rule /\ kind[r.rule] \in Listed
    BY <1>2, <1>4, Known DEF Placed
  <1>6. r.calm => /\ r.use = load /\ load # Nil
                  /\ \A q \in Rule : (Exists(q) /\ rules[q].on /\ kind[q] \in Listed)
                                         => q \in r.todo \/ q = r.rule \/ Done(q)
                  /\ r.seen = Counted(r.rule) /\ run[w].queue \subseteq r.seen
                  /\ \A x \in r.seen \ run[w].queue : Right(r.rule, x)
    BY <1>2, <1>4, <1>5, Known, AlertsAssumption DEF Thorough, OfRule, IInv, TypeOK
  <1>7. CASE /\ run[w].use # Nil /\ t \in run[w].use /\ granted
             /\ GoOn(w, "check", [r EXCEPT !.target = t]) /\ UNCHANGED events
    <2>1. PICK c : c = [r EXCEPT !.target = t]
      OBVIOUS
    <2>2. /\ c \in Run /\ c.target = t
          /\ c.rule = r.rule /\ c.calm = r.calm /\ c.todo = r.todo /\ c.use = r.use
          /\ c.seen = r.seen /\ c.queue = r.queue
      BY <1>4, <2>1 DEF Run
    <2>3. Placed("check", c)
      BY <1>4, <1>5, <2>2 DEF Placed
    <2>4. c.calm => Thorough("check", c)
      BY <1>4, <1>6, <1>7, <2>2 DEF Thorough, OfRule
    <2>5. board' \in [Rule -> [Account -> {Nil, "firing", "resolved"}]] /\ "check" \in Places
      BY <1>2 DEF IInv, TypeOK, Places
    <2> QED BY <1>2, <1>4, <1>7, <2>1, <2>2, <2>3, <2>4, <2>5, StayIInv
  <1>8. CASE ~(run[w].use # Nil /\ t \in run[w].use /\ granted) /\ ResolveAndProject(w, t, "target", r)
    <2>1. r.calm => Thorough("target", r)'
      <3> SUFFICES ASSUME r.calm PROVE Thorough("target", r)'
        OBVIOUS
      <3>1. /\ \A p, x : p # r.rule => Open(p, x)' = Open(p, x)
            /\ Open(r.rule, t)' = {} /\ \A x : x # t => Open(r.rule, x)' = Open(r.rule, x)
        BY <1>4, <1>5, <1>8, ClosingOf DEF ResolveAndProject
      <3>2. t \notin load
        BY <1>4, <1>6, <1>8
      <3>3. \A x \in r.seen \ r.queue : Right(r.rule, x)'
        <4> SUFFICES ASSUME NEW x \in r.seen \ r.queue PROVE Right(r.rule, x)'
          OBVIOUS
        <4>1. CASE x = t
          BY <1>2, <3>1, <3>2, <4>1 DEF Right
        <4>2. CASE x # t
          BY <1>2, <1>4, <1>6, <3>1, <4>2 DEF Right
        <4> QED BY <4>1, <4>2
      <3>4. OfRule("target", r)'
        BY <1>2, <1>4, <1>6, <3>3, Elsewhere DEF OfRule
      <3>5. \A q \in Rule : (Exists(q) /\ rules[q].on /\ kind[q] \in Listed)'
                               => q \in r.todo \/ q = r.rule \/ Done(q)'
        BY <1>2, <1>6, <3>1, Elsewhere DEF Exists
      <3> QED BY <1>2, <1>6, <3>4, <3>5 DEF Thorough
    <2> QED BY <1>2, <1>4, <1>8, <2>1, ResolveIInv
  <1> QED BY <1>1, <1>3, <1>7, <1>8

\* Where fire leaves an evaluation.
LEMMA FiredGoes ==
  ASSUME IInv, NEW w \in Worker, pc[w] \in {"check", "insert"}, Fired(w)
  PROVE  \E next \in {"target", "rule"}, r \in Run :
            /\ GoOn(w, next, r) /\ Placed(next, r)
            /\ r.calm = run[w].calm /\ r.todo = run[w].todo /\ r.use = run[w].use
            /\ \/ /\ next = "target" /\ kind[run[w].rule] \in Listed
                  /\ r.rule = run[w].rule /\ r.queue = run[w].queue /\ r.seen = run[w].seen
               \/ next = "rule" /\ kind[run[w].rule] \notin Listed /\ r.rule = Nil
  <1>1. run[w] \in Run /\ run[w].rule \in Rule
    BY Known DEF Placed
  <1>2. CASE kind[run[w].rule] \in Listed
    <2>1. PICK r : r = TargetDone(run[w])
      OBVIOUS
    <2>2. /\ r \in Run /\ r.calm = run[w].calm /\ r.todo = run[w].todo /\ r.use = run[w].use
          /\ r.rule = run[w].rule /\ r.queue = run[w].queue /\ r.seen = run[w].seen
      BY <1>1, <2>1 DEF TargetDone, Run
    <2>3. GoOn(w, "target", r) /\ Placed("target", r)
      BY <1>1, <1>2, <2>1, <2>2 DEF Fired, Listed, Placed
    <2> QED BY <1>2, <2>2, <2>3
  <1>3. CASE kind[run[w].rule] \notin Listed
    <2>1. PICK r : r = RuleDone(run[w])
      OBVIOUS
    <2>2. /\ r \in Run /\ r.calm = run[w].calm /\ r.todo = run[w].todo /\ r.use = run[w].use
          /\ r.rule = Nil /\ r.target = Nil
      BY <1>1, <2>1 DEF RuleDone, Run
    <2>3. GoOn(w, "rule", r) /\ Placed("rule", r)
      BY <1>1, <1>3, <2>1, <2>2 DEF Fired, Listed, Placed
    <2> QED BY <1>3, <2>2, <2>3
  <1> QED BY <1>2, <1>3

LEMMA CheckIInv ==
  ASSUME IInv, kind' = kind, NEW w \in Worker, Check(w)
  PROVE  IInv'
  <1>1. pc[w] = "check" /\ UNCHANGED data
    BY DEF Check
  <1>2. /\ run[w] \in Run /\ run[w].rule \in Rule /\ run[w].rule # Nil
        /\ IF kind[run[w].rule] \in Listed THEN run[w].target \in Target ELSE run[w].target = Nil
    BY <1>1, Known, AlertsAssumption DEF Placed
  <1>3. /\ board' \in [Rule -> [Account -> {Nil, "firing", "resolved"}]]
        /\ {"target", "rule", "insert"} \subseteq Places
    BY <1>1 DEF IInv, TypeOK, data, Places
  <1>4. CASE Open(run[w].rule, run[w].target) # {} /\ Fired(w)
    <2>1. PICK next \in {"target", "rule"}, r \in Run :
            /\ GoOn(w, next, r) /\ Placed(next, r)
            /\ r.calm = run[w].calm /\ r.todo = run[w].todo /\ r.use = run[w].use
            /\ \/ /\ next = "target" /\ kind[run[w].rule] \in Listed
                  /\ r.rule = run[w].rule /\ r.queue = run[w].queue /\ r.seen = run[w].seen
               \/ next = "rule" /\ kind[run[w].rule] \notin Listed /\ r.rule = Nil
      BY <1>1, <1>4, FiredGoes
    <2>2. ASSUME r.calm PROVE Thorough(next, r)
      <3>1. Thorough("check", run[w])
        BY <1>1, <2>1, <2>2, Known
      <3>2. CASE next = "target"
        <4>1. OfRule("check", run[w])
          BY <1>2, <2>1, <3>1, <3>2 DEF Thorough
        <4>2. Right(run[w].rule, run[w].target)
          BY <1>4, <4>1 DEF OfRule, Right
        <4>3. OfRule("target", r)
          BY <2>1, <3>2, <4>1, <4>2 DEF OfRule
        <4> QED BY <2>1, <3>1, <3>2, <4>3 DEF Thorough
      <3>3. CASE next = "rule"
        BY <1>2, <2>1, <3>1, <3>3, AlertsAssumption DEF Thorough
      <3> QED BY <3>2, <3>3
    <2> QED BY <1>1, <1>3, <2>1, <2>2, StayIInv DEF data
  <1>5. CASE Open(run[w].rule, run[w].target) = {} /\ GoOn(w, "insert", run[w])
    <2>1. PICK r : r = run[w]
      OBVIOUS
    <2>2. Untargeted' /\ events' \in Events /\ \A e \in EventId : events[e] # Nil => events'[e] # Nil
      BY <1>1 DEF IInv, TypeOK, Untargeted, Events, data
    <2>3. Bounded'
      <3> SUFFICES ASSUME NEW q \in Rule, NEW t \in About(q)
                   PROVE  /\ IsFiniteSet(Open(q, t)')
                          /\ Cardinality(Open(q, t)') + Cardinality(Inserting(q, t)') <= Cardinality(Worker)
        BY DEF Bounded, About
      <3>1. Open(q, t)' = Open(q, t)
        BY <1>1 DEF Open, data
      <3>2. CASE q = run[w].rule /\ t = run[w].target
        <4>1. Open(q, t)' = {}
          BY <1>5, <3>1, <3>2
        <4>2. IsFiniteSet(Open(q, t)') /\ Cardinality(Open(q, t)') = 0
          BY <4>1, FS_EmptySet
        <4>3. Inserting(q, t)' \subseteq Worker
          BY DEF Inserting
        <4>4. /\ Cardinality(Inserting(q, t)') <= Cardinality(Worker)
              /\ Cardinality(Inserting(q, t)') \in Nat /\ Cardinality(Worker) \in Nat
          BY <4>3, AlertsAssumption, FS_Subset, FS_CardinalityType
        <4> QED BY <4>2, <4>4
      <3>3. CASE ~(q = run[w].rule /\ t = run[w].target)
        <4>1. Inserting(q, t)' = Inserting(q, t)
          BY <1>1, <1>5, <3>3 DEF Inserting, GoOn, IInv, TypeOK
        <4> QED BY <3>1, <4>1 DEF IInv, Bounded
      <3> QED BY <3>2, <3>3
    <2>4. Placed("insert", r)'
      BY <1>2, <2>1 DEF Placed
    <2>5. ASSUME r.calm PROVE Thorough("insert", r)'
      <3>1. Thorough("check", r)
        BY <1>1, <2>1, <2>5, Known
      <3>2. (\A q, t : Open(q, t)' = Open(q, t)) /\ \A q : Counted(q)' = Counted(q)
        BY <1>1 DEF Open, Counted, Watched, data
      <3>3. (\A q : Done(q)' = Done(q)) /\ \A q, t : Right(q, t)' = Right(q, t)
        BY <1>1, <3>2 DEF Done, Right, Watched, data
      <3>4. (r.rule \in Rule /\ kind[r.rule] \in Listed) => OfRule("insert", r)'
        BY <1>1, <3>1, <3>2, <3>3 DEF Thorough, OfRule, data
      <3> QED BY <1>1, <3>1, <3>3, <3>4 DEF Thorough, Exists, data
    <2> QED BY <1>1, <1>2, <1>3, <1>5, <2>1, <2>2, <2>3, <2>4, <2>5, MoveIInv DEF data
  <1> QED BY <1>4, <1>5 DEF Check

\* The event inserted is one more open event, of one evaluation less that is
\* about to insert one.
LEMMA InsertBounded ==
  ASSUME IInv, kind' = kind, NEW w \in Worker, pc[w] = "insert", pc'[w] # "insert",
         \A v \in Worker \ {w} : pc'[v] = pc[v] /\ run'[v] = run[v],
         NEW r \in Rule, NEW t \in Target \cup {Nil}, r = run[w].rule, t = run[w].target,
         NEW e \in EventId, events[e] = Nil,
         events' = [events EXCEPT ![e] = [rule |-> r, target |-> t, status |-> "firing"]]
  PROVE  /\ events' \in Events /\ SameSubjects /\ Untargeted' /\ Bounded'
         /\ Open(r, t)' # {}
         /\ \A q, x : ~(q = r /\ x = t) => Open(q, x)' = Open(q, x)
  <1>1. IF kind[r] \in Listed THEN t \in Target ELSE t = Nil
    BY Known DEF Placed
  <1>2. PICK x : x = [rule |-> r, target |-> t, status |-> "firing"]
    OBVIOUS
  <1>3. x \in Event /\ x.rule = r /\ x.target = t /\ x.status = "firing" /\ x # Nil
    BY <1>1, <1>2, AlertsAssumption DEF Event
  <1>4. events \in [EventId -> Event \cup {Nil}]
    BY DEF IInv, TypeOK
  <1>5. events'[e] = x /\ \A d \in EventId \ {e} : events'[d] = events[d]
    BY <1>2, <1>4
  <1>6. events' \in Events
    BY <1>2, <1>3, <1>4 DEF Events
  <1>7. SameSubjects
    BY <1>5 DEF SameSubjects
  <1>8. Untargeted'
    BY <1>1, <1>3, <1>5 DEF IInv, Untargeted
  <1>9. Open(r, t)' = Open(r, t) \cup {e}
    BY <1>3, <1>5 DEF Open
  <1>10. ASSUME NEW q, NEW u, ~(q = r /\ u = t)
         PROVE  Open(q, u)' = Open(q, u)
    BY <1>3, <1>5, <1>10 DEF Open
  <1>11. Bounded'
    <2> SUFFICES ASSUME NEW q \in Rule, NEW u \in About(q)
                 PROVE  /\ IsFiniteSet(Open(q, u)')
                        /\ Cardinality(Open(q, u)') + Cardinality(Inserting(q, u)') <= Cardinality(Worker)
      BY DEF Bounded, About
    <2>1. /\ IsFiniteSet(Open(q, u)) /\ IsFiniteSet(Inserting(q, u))
          /\ Cardinality(Open(q, u)) + Cardinality(Inserting(q, u)) <= Cardinality(Worker)
      BY AlertsAssumption, FS_Subset DEF IInv, Bounded, Inserting
    <2>2. /\ Cardinality(Open(q, u)) \in Nat /\ Cardinality(Inserting(q, u)) \in Nat
          /\ Cardinality(Worker) \in Nat
      BY <2>1, AlertsAssumption, FS_CardinalityType
    <2>3. CASE q = r /\ u = t
      <3>1. w \in Inserting(q, u) /\ Inserting(q, u)' = Inserting(q, u) \ {w}
        BY <2>3 DEF Inserting
      <3>2. Cardinality(Inserting(q, u)') = Cardinality(Inserting(q, u)) - 1
        BY <2>1, <3>1, FS_RemoveElement
      <3>3. /\ IsFiniteSet(Open(q, u)')
            /\ Cardinality(Open(q, u)') <= Cardinality(Open(q, u)) + 1
            /\ Cardinality(Open(q, u)') \in Nat
        <4>1. Open(q, u)' = Open(q, u) \cup {e}
          BY <1>9, <2>3
        <4>2. /\ IsFiniteSet(Open(q, u) \cup {e})
              /\ Cardinality(Open(q, u) \cup {e}) =
                     IF e \in Open(q, u) THEN Cardinality(Open(q, u)) ELSE Cardinality(Open(q, u)) + 1
          BY <2>1, FS_AddElement
        <4> QED BY <2>2, <4>1, <4>2
      <3> QED BY <2>1, <2>2, <3>2, <3>3
    <2>4. CASE ~(q = r /\ u = t)
      <3>1. Inserting(q, u)' = Inserting(q, u)
        BY <2>4 DEF Inserting
      <3> QED BY <1>10, <2>1, <2>4, <3>1
    <2> QED BY <2>3, <2>4
  <1> QED BY <1>6, <1>7, <1>8, <1>9, <1>10, <1>11

LEMMA InsertEventIInv ==
  ASSUME IInv, kind' = kind, NEW w \in Worker, InsertEvent(w)
  PROVE  IInv'
  <1>1. pc[w] = "insert" /\ UNCHANGED <<rules, standing, load, board>>
    BY DEF InsertEvent
  <1>2. CASE Finish(w) /\ UNCHANGED events
    BY <1>1, <1>2, FinishIInv DEF data
  <1>3. ASSUME NEW e \in EventId, events[e] = Nil,
               events' = [events EXCEPT ![e] = [rule |-> run[w].rule, target |-> run[w].target,
                                                status |-> "firing"]],
               \/ /\ run[w].rule \in run[w].notify /\ run[w].target \in Account
                  /\ GoOn(w, "announce", [run[w] EXCEPT !.say = "firing", !.back = "target"])
               \/ Fired(w)
        PROVE  IInv'
    <2>1. /\ run[w] \in Run /\ run[w].rule \in Rule /\ run[w].rule # Nil
          /\ IF kind[run[w].rule] \in Listed THEN run[w].target \in Target ELSE run[w].target = Nil
          /\ run[w].calm => Thorough("insert", run[w])
      BY <1>1, Known, AlertsAssumption DEF Placed
    <2>2. \E next \in {"target", "rule", "announce"}, r \in Run :
            /\ GoOn(w, next, r) /\ Placed(next, r)
            /\ r.calm = run[w].calm /\ r.todo = run[w].todo /\ r.use = run[w].use
            /\ next = "announce" => r.back = "target"
            /\ \/ /\ next # "rule" /\ kind[run[w].rule] \in Listed
                  /\ r.rule = run[w].rule /\ r.queue = run[w].queue /\ r.seen = run[w].seen
               \/ next = "rule" /\ kind[run[w].rule] \notin Listed /\ r.rule = Nil
      <3>1. CASE Fired(w)
        BY <1>1, <3>1, FiredGoes
      <3>2. CASE /\ run[w].target \in Account
                 /\ GoOn(w, "announce", [run[w] EXCEPT !.say = "firing", !.back = "target"])
        <4>1. PICK r : r = [run[w] EXCEPT !.say = "firing", !.back = "target"]
          OBVIOUS
        <4>2. /\ r \in Run /\ r.calm = run[w].calm /\ r.todo = run[w].todo /\ r.use = run[w].use
              /\ r.rule = run[w].rule /\ r.queue = run[w].queue /\ r.seen = run[w].seen
              /\ r.back = "target" /\ r.target = run[w].target
          BY <2>1, <4>1 DEF Run
        <4>3. kind[run[w].rule] \in Listed
          BY <2>1, <3>2, AlertsAssumption DEF Target
        <4>4. GoOn(w, "announce", r) /\ Placed("announce", r)
          BY <2>1, <3>2, <4>1, <4>2, <4>3 DEF Placed
        <4> QED BY <4>2, <4>3, <4>4
      <3> QED BY <1>3, <3>1, <3>2
    <2>3. PICK next \in {"target", "rule", "announce"}, r \in Run :
            /\ GoOn(w, next, r) /\ Placed(next, r)
            /\ r.calm = run[w].calm /\ r.todo = run[w].todo /\ r.use = run[w].use
            /\ next = "announce" => r.back = "target"
            /\ \/ /\ next # "rule" /\ kind[run[w].rule] \in Listed
                  /\ r.rule = run[w].rule /\ r.queue = run[w].queue /\ r.seen = run[w].seen
               \/ next = "rule" /\ kind[run[w].rule] \notin Listed /\ r.rule = Nil
      BY <2>2
    <2>4. pc'[w] # "insert" /\ \A v \in Worker \ {w} : pc'[v] = pc[v] /\ run'[v] = run[v]
      BY <2>3 DEF GoOn, IInv, TypeOK
    <2>9. PICK q0 \in Rule, t0 \in Target \cup {Nil} : q0 = run[w].rule /\ t0 = run[w].target
      BY <2>1
    <2>5. /\ events' \in Events /\ SameSubjects /\ Untargeted' /\ Bounded'
          /\ Open(q0, t0)' # {}
          /\ \A q, t : ~(q = q0 /\ t = t0) => Open(q, t)' = Open(q, t)
      <3>1. events' = [events EXCEPT ![e] = [rule |-> q0, target |-> t0, status |-> "firing"]]
        BY <1>3, <2>9
      <3>2. pc[w] = "insert" /\ events[e] = Nil
        BY <1>1, <1>3
      <3> HIDE <1>1, <1>3
      <3> QED BY <2>4, <2>9, <3>1, <3>2, InsertBounded
    <2>6. ASSUME r.calm PROVE Thorough(next, r)'
      <3>1. Thorough("insert", run[w])
        BY <2>1, <2>3, <2>6
      <3>2. \A q : q # run[w].rule => Done(q)' = Done(q)
        BY <1>1, <2>5, <2>9, Elsewhere
      <3>3. \A q \in Rule : (Exists(q) /\ rules[q].on /\ kind[q] \in Listed)'
                               => q \in r.todo \/ q = r.rule \/ Done(q)'
        BY <1>1, <2>1, <2>3, <3>1, <3>2 DEF Thorough, Exists
      <3>4. (r.rule \in Rule /\ kind[r.rule] \in Listed) => OfRule(next, r)'
        <4> SUFFICES ASSUME r.rule \in Rule, kind[r.rule] \in Listed PROVE OfRule(next, r)'
          OBVIOUS
        <4>1. /\ next # "rule" /\ r.rule = run[w].rule /\ r.queue = run[w].queue /\ r.seen = run[w].seen
              /\ kind[run[w].rule] \in Listed
          BY <2>3, AlertsAssumption
        <4>2. OfRule("insert", run[w])
          BY <2>1, <3>1, <4>1 DEF Thorough
        <4>3. \A t \in r.seen \ r.queue : Right(r.rule, t)'
          <5> SUFFICES ASSUME NEW t \in r.seen \ r.queue PROVE Right(r.rule, t)'
            OBVIOUS
          <5>1. CASE t = run[w].target
            <6>1. Open(r.rule, t)' # {}
              BY <2>5, <2>9, <4>1, <5>1
            <6>2. t \in load'
              BY <1>1, <4>2, <5>1 DEF OfRule
            <6> QED BY <6>1, <6>2 DEF Right
          <5>2. CASE t # run[w].target
            BY <1>1, <2>5, <2>9, <4>1, <4>2, <5>2, Elsewhere DEF OfRule
          <5> QED BY <5>1, <5>2
        <4>4. Counted(r.rule)' = Counted(r.rule)
          BY <1>1, Elsewhere
        <4> QED BY <1>1, <2>3, <4>1, <4>2, <4>3, <4>4 DEF OfRule
      <3> QED BY <1>1, <2>3, <3>1, <3>3, <3>4 DEF Thorough
    <2>7. Placed(next, r)'
      BY <2>3 DEF Placed
    <2>8. board' \in [Rule -> [Account -> {Nil, "firing", "resolved"}]] /\ next \in Places \ {"idle"}
      BY <1>1 DEF IInv, TypeOK, Places
    <2> QED BY <1>1, <2>3, <2>5, <2>6, <2>7, <2>8, MoveIInv DEF SameSubjects
  <1> QED BY <1>1, <1>2, <1>3 DEF InsertEvent

LEMMA AnnounceIInv ==
  ASSUME IInv, kind' = kind, NEW w \in Worker, Announce(w)
  PROVE  IInv'
  <1>1. pc[w] = "announce" /\ UNCHANGED <<rules, standing, load, events>>
    BY DEF Announce
  <1>2. PICK r : r = TargetDone(run[w])
    OBVIOUS
  <1>3. PICK next : next = run[w].back
    OBVIOUS
  <1>4. /\ run[w] \in Run /\ run[w].rule \in Rule /\ kind[run[w].rule] \in Listed
        /\ run[w].target \in Account /\ next \in {"target", "sweep"}
    BY <1>1, <1>3, Known DEF Placed
  <1>5. /\ r \in Run /\ r.rule = run[w].rule /\ r.calm = run[w].calm /\ r.todo = run[w].todo
        /\ r.use = run[w].use /\ r.seen = run[w].seen /\ r.queue = run[w].queue
        /\ r.sweep = run[w].sweep
    BY <1>2, <1>4 DEF TargetDone, Run
  <1>6. GoOn(w, next, r) /\ Placed(next, r) /\ next \in Places /\ next # "insert" /\ next # "idle"
    BY <1>2, <1>3, <1>4, <1>5 DEF Announce, Placed, Places
  <1>7. ASSUME r.calm PROVE Thorough(next, r)
    <2>1. Thorough("announce", run[w])
      BY <1>1, <1>5, <1>7, Known
    <2>2. OfRule(next, r)
      BY <1>3, <1>4, <1>5, <2>1 DEF Thorough, OfRule
    <2> QED BY <1>4, <1>5, <2>1, <2>2 DEF Thorough
  <1>8. board' \in [Rule -> [Account -> {Nil, "firing", "resolved"}]]
    <2>1. run[w].say \in {Nil, "firing", "resolved"}
      BY <1>4 DEF Run
    <2>2. board \in [Rule -> [Account -> {Nil, "firing", "resolved"}]]
      BY DEF IInv, TypeOK
    <2>3. \/ board' = board
          \/ board' = [board EXCEPT ![run[w].rule][run[w].target] = run[w].say]
      BY DEF Announce
    <2> QED BY <1>4, <2>1, <2>2, <2>3
  <1> QED BY <1>1, <1>5, <1>6, <1>7, <1>8, StayIInv

LEMMA ListUnseenIInv ==
  ASSUME IInv, kind' = kind, NEW w \in Worker, ListUnseen(w)
  PROVE  IInv'
  <1>1. pc[w] = "target" /\ run[w].queue = {} /\ UNCHANGED data
    BY DEF ListUnseen
  <1>2. PICK S \in SUBSET Target : S = {t \in Target \ run[w].seen : Open(run[w].rule, t) # {}}
    OBVIOUS
  <1>3. PICK r : r = [run[w] EXCEPT !.sweep = S]
    OBVIOUS
  <1>4. /\ r \in Run /\ r.rule = run[w].rule /\ r.calm = run[w].calm /\ r.todo = run[w].todo
        /\ r.use = run[w].use /\ r.seen = run[w].seen /\ r.queue = run[w].queue /\ r.sweep = S
    BY <1>3, Known DEF Run
  <1>5. r.rule \in Rule /\ kind[r.rule] \in Listed /\ GoOn(w, "sweep", r)
    BY <1>1, <1>2, <1>3, <1>4, Known DEF ListUnseen, Placed
  <1>6. Placed("sweep", r)
    BY <1>5 DEF Placed
  <1>7. ASSUME r.calm PROVE Thorough("sweep", r)
    <2>1. Thorough("target", run[w])
      BY <1>1, <1>4, <1>7, Known
    <2>2. OfRule("target", run[w])
      BY <1>4, <1>5, <2>1 DEF Thorough
    <2>3. OfRule("sweep", r)
      BY <1>1, <1>2, <1>4, <2>2 DEF OfRule
    <2> QED BY <1>4, <2>1, <2>3 DEF Thorough
  <1>8. board' \in [Rule -> [Account -> {Nil, "firing", "resolved"}]] /\ "sweep" \in Places
    BY <1>1 DEF IInv, TypeOK, data, Places
  <1> QED BY <1>1, <1>4, <1>5, <1>6, <1>7, <1>8, StayIInv DEF data

LEMMA ResolveUnseenIInv ==
  ASSUME IInv, kind' = kind, NEW w \in Worker, ResolveUnseen(w)
  PROVE  IInv'
  <1>1. pc[w] = "sweep" /\ UNCHANGED <<rules, standing, load, board>>
    BY DEF ResolveUnseen
  <1>2. run[w] \in Run /\ run[w].rule \in Rule /\ kind[run[w].rule] \in Listed
    BY <1>1, Known DEF Placed
  <1>3. run[w].calm => Thorough("sweep", run[w]) /\ OfRule("sweep", run[w])
    BY <1>1, <1>2, Known DEF Thorough
  <1>4. ASSUME NEW t \in run[w].sweep,
               ResolveAndProject(w, t, "sweep", [run[w] EXCEPT !.sweep = @ \ {t}])
        PROVE  IInv'
    <2>1. PICK r : r = [run[w] EXCEPT !.sweep = @ \ {t}]
      OBVIOUS
    <2>2. /\ r \in Run /\ r.rule = run[w].rule /\ r.calm = run[w].calm /\ r.todo = run[w].todo
          /\ r.use = run[w].use /\ r.seen = run[w].seen /\ r.queue = run[w].queue
          /\ r.sweep = run[w].sweep \ {t} /\ t \in Target
      BY <1>2, <2>1 DEF Run
    <2>3. PICK q \in Rule : q = run[w].rule
      BY <1>2
    <2>4. /\ \A p, x : p # q => Open(p, x)' = Open(p, x)
          /\ Open(q, t)' = {} /\ \A x : x # t => Open(q, x)' = Open(q, x)
      BY <1>4, <2>2, <2>3, ClosingOf DEF ResolveAndProject
    <2>5. ASSUME r.calm PROVE Thorough("sweep", r)'
      <3>1. \A x \in r.seen \ r.queue : Right(q, x)'
        <4> SUFFICES ASSUME NEW x \in r.seen \ r.queue PROVE Right(q, x)'
          OBVIOUS
        <4>1. Right(q, x) /\ x # t
          BY <1>3, <2>2, <2>3, <2>5 DEF OfRule
        <4> QED BY <1>1, <2>4, <4>1, Elsewhere
      <3>2. \A x \in Target \ (r.seen \cup r.sweep) : Open(q, x)' = {}
        BY <1>3, <2>2, <2>3, <2>4, <2>5 DEF OfRule
      <3>3. Counted(q)' = Counted(q)
        BY <1>1, Elsewhere
      <3>4. OfRule("sweep", r)'
        BY <1>3, <2>2, <2>3, <2>5, <3>1, <3>2, <3>3 DEF OfRule
      <3>5. \A p : p # q => Done(p)' = Done(p)
        BY <1>1, <2>4, Elsewhere
      <3> QED BY <1>1, <1>3, <2>2, <2>3, <2>5, <3>4, <3>5 DEF Thorough, Exists
    <2> QED BY <1>1, <1>4, <2>1, <2>2, <2>5, ResolveIInv
  <1>5. ASSUME run[w].sweep = {}, GoOn(w, "rule", RuleDone(run[w])), UNCHANGED events
        PROVE  IInv'
    <2>1. PICK r : r = RuleDone(run[w])
      OBVIOUS
    <2>2. /\ r \in Run /\ r.rule = Nil /\ r.target = Nil /\ r.calm = run[w].calm
          /\ r.todo = run[w].todo /\ r.use = run[w].use
      BY <1>2, <2>1 DEF RuleDone, Run
    <2>3. Placed("rule", r)
      BY <2>2 DEF Placed
    <2>4. ASSUME r.calm PROVE Thorough("rule", r)
      <3>1. PICK q \in Rule : q = run[w].rule
        BY <1>2
      <3>2. Watched(kind[q]) \subseteq Target
        BY DEF Watched, Target
      <3>3. Done(q)
        BY <1>3, <1>5, <2>2, <2>4, <3>1, <3>2 DEF OfRule, Counted, Done, Right
      <3> QED BY <1>3, <2>2, <2>4, <3>1, <3>3, AlertsAssumption DEF Thorough
    <2>5. board' \in [Rule -> [Account -> {Nil, "firing", "resolved"}]] /\ "rule" \in Places
      BY <1>1 DEF IInv, TypeOK, Places
    <2> QED BY <1>1, <1>5, <2>1, <2>2, <2>3, <2>4, <2>5, StayIInv
  <1> QED BY <1>4, <1>5 DEF ResolveUnseen

LEMMA ConcludeIInv ==
  ASSUME IInv, kind' = kind, NEW w \in Worker, Conclude(w)
  PROVE  IInv'
  <1>1. pc[w] = "rule" /\ run[w].todo = {} /\ UNCHANGED data
    BY DEF Conclude
  <1>2. PICK r \in Run : r = run[w]
    BY Known
  <1>3. Placed("answer", r)
    BY <1>1, <1>2, Known DEF Placed
  <1>4. r.calm => Thorough("answer", r)
    BY <1>1, <1>2, Known, AlertsAssumption DEF Thorough, Placed
  <1>5. board' \in [Rule -> [Account -> {Nil, "firing", "resolved"}]] /\ "answer" \in Places
    BY <1>1 DEF IInv, TypeOK, data, Places
  <1>6. GoOn(w, "answer", r)
    BY <1>2 DEF Conclude
  <1> QED BY <1>1, <1>2, <1>3, <1>4, <1>5, <1>6, StayIInv DEF data

LEMMA AcknowledgeIInv ==
  ASSUME IInv, kind' = kind, NEW w \in Worker, Acknowledge(w)
  PROVE  IInv'
  <1>1. pc[w] = "ack" /\ Finish(w) /\ UNCHANGED <<rules, standing, load, board>>
    BY DEF Acknowledge
  <1>2. PICK e \in EventId : e = run[w].event /\ events[e] # Nil
    BY <1>1, Known DEF Placed
  <1>3. events \in [EventId -> Event \cup {Nil}]
    BY DEF IInv, TypeOK
  <1>4. PICK x : x = [events[e] EXCEPT !.status = IF @ = "resolved" THEN @ ELSE "acknowledged"]
    OBVIOUS
  <1>5. /\ x \in Event /\ x.rule = events[e].rule /\ x.target = events[e].target
        /\ x.status = "resolved" <=> events[e].status = "resolved"
    BY <1>2, <1>3, <1>4 DEF Event
  <1>6. events' = [events EXCEPT ![e] = x]
    BY <1>2, <1>3, <1>4 DEF Acknowledge
  <1>7. events'[e] = x /\ x # Nil /\ \A d \in EventId \ {e} : events'[d] = events[d]
    BY <1>3, <1>5, <1>6, AlertsAssumption
  <1>8. events' \in Events /\ SameSubjects /\ \A d \in EventId : events[d] = Nil => events'[d] = Nil
    BY <1>2, <1>3, <1>5, <1>6, <1>7 DEF Events, SameSubjects
  <1>9. Untargeted'
    BY <1>8, UntargetedKept DEF IInv
  <1>10. \A q, t : Open(q, t)' = Open(q, t)
    BY <1>2, <1>5, <1>7 DEF Open
  <1>11. \A q, t : Inserting(q, t)' \subseteq Inserting(q, t)
    BY <1>1 DEF Inserting, Finish, GoOn, IInv, TypeOK
  <1>12. Bounded'
    BY <1>10, <1>11, BoundedKept DEF IInv
  <1>13. Blank \in Run /\ "idle" \in Places /\ Blank.calm = FALSE /\ Placed("idle", Blank)'
    BY DEF Blank, Run, Places, Placed
  <1>14. board' \in [Rule -> [Account -> {Nil, "firing", "resolved"}]]
    BY <1>1 DEF IInv, TypeOK
  <1> QED BY <1>1, <1>8, <1>9, <1>12, <1>13, <1>14, MoveIInv DEF Finish, SameSubjects

-----------------------------------------------------------------------------
(***************************************************************************)
(* Steps after which no request that was under way is calm                 *)
(***************************************************************************)
LEMMA DisturbedType ==
  ASSUME TypeOK
  PROVE  Disturbed \in [Worker -> Run]
  <1>1. ASSUME NEW w \in Worker PROVE [run[w] EXCEPT !.calm = FALSE] \in Run
    <2>1. PICK r \in Run : r = run[w]
      BY DEF TypeOK
    <2>2. [r EXCEPT !.calm = FALSE] \in Run
      BY DEF Run
    <2> QED BY <2>1, <2>2
  <1> QED BY <1>1 DEF Disturbed

LEMMA DisturbedRuns ==
  ASSUME TypeOK, NEW w \in Worker
  PROVE  /\ Disturbed[w] \in Run /\ Disturbed[w].calm = FALSE
         /\ \A place : Placed(place, Disturbed[w]) = Placed(place, run[w])
         /\ Disturbed[w].rule = run[w].rule /\ Disturbed[w].target = run[w].target
         /\ Disturbed[w].event = run[w].event
  <1>1. PICK r \in Run : r = run[w]
    BY DEF TypeOK
  <1>2. PICK d \in Run : d = Disturbed[w]
    BY DisturbedType
  <1>3. d = [r EXCEPT !.calm = FALSE]
    BY <1>1, <1>2 DEF Disturbed
  <1>4. /\ d.calm = FALSE /\ d.rule = r.rule /\ d.target = r.target /\ d.event = r.event
        /\ d.back = r.back /\ d.todo = r.todo
    BY <1>3 DEF Run
  <1>5. \A place : Placed(place, d) = Placed(place, r)
    BY <1>4 DEF Placed
  <1> QED BY <1>1, <1>2, <1>4, <1>5

\* Something else happened: no event is forgotten, and none becomes open.
LEMMA DisturbIInv ==
  ASSUME IInv, kind' = kind, run' = Disturbed, pc' = pc,
         rules' \in [Rule -> RuleRow \cup {Nil, Gone}],
         standing' \in [Target -> {"counted", "exempt", "gone"}], load' \subseteq Target,
         board' = board, events' \in Events,
         \A e \in EventId : events[e] # Nil => events'[e] # Nil,
         Untargeted', \A r \in Rule : \A t \in About(r) : Open(r, t)' \subseteq Open(r, t)
  PROVE  IInv'
  <1>1. TypeOK'
    BY DisturbedType DEF IInv, TypeOK, Events
  <1>2. \A v \in Worker : /\ run'[v].calm = FALSE
                          /\ run'[v].rule = run[v].rule /\ run'[v].target = run[v].target
    BY DisturbedRuns DEF IInv
  <1>3. Local'
    <2> SUFFICES ASSUME NEW v \in Worker PROVE Placed(pc[v], run[v])'
      BY DEF Local
    <2>1. PICK place, d : place = pc'[v] /\ d = run'[v] /\ d = Disturbed[v]
      OBVIOUS
    <2>2. Placed(place, d)
      BY <2>1, Known, DisturbedRuns DEF IInv
    <2>3. Placed(place, d)'
      BY <2>2 DEF Placed
    <2> QED BY <2>1, <2>3 DEF Placed
  <1>4. Bounded'
    <2>1. \A r, t : Inserting(r, t)' = Inserting(r, t)
      BY <1>2 DEF Inserting
    <2> QED BY <2>1, BoundedKept DEF IInv
  <1>5. Apart' /\ Calm'
    BY <1>2 DEF Apart, Calm
  <1> QED BY <1>1, <1>3, <1>4, <1>5 DEF IInv

\* A request begins.
LEMMA BeginIInv ==
  ASSUME IInv, kind' = kind, NEW w \in Worker, NEW next \in {"usage", "ack"}, NEW r \in Run,
         Begin(w, next, r), UNCHANGED data, Placed(next, r), r.rule = Nil,
         Thorough(next, r)
  PROVE  IInv'
  <1>1. PICK c \in BOOLEAN : c = (\A v \in Worker \ {w} : pc[v] = "idle")
    OBVIOUS
  <1>2. PICK b : b = [r EXCEPT !.calm = c]
    OBVIOUS
  <1>3. /\ b \in Run /\ b.calm = c /\ b.rule = r.rule
        /\ b.target = r.target /\ b.event = r.event /\ b.todo = r.todo /\ b.use = r.use
        /\ b.back = r.back
    BY <1>2 DEF Run
  <1>4. /\ pc' = [pc EXCEPT ![w] = next] /\ run' = [Disturbed EXCEPT ![w] = b] /\ pc[w] = "idle"
    BY <1>1, <1>2 DEF Begin
  <1>5. /\ pc' \in [Worker -> Places] /\ run' \in [Worker -> Run]
        /\ pc'[w] = next /\ run'[w] = b
        /\ \A v \in Worker \ {w} : pc'[v] = pc[v] /\ run'[v] = Disturbed[v]
    BY <1>3, <1>4, DisturbedType DEF IInv, TypeOK, Places
  <1>6. TypeOK'
    BY <1>5 DEF IInv, TypeOK, data, Places
  <1>7. Placed(next, b)
    BY <1>3 DEF Placed
  <1>8. Local'
    <2> SUFFICES ASSUME NEW v \in Worker PROVE Placed(pc[v], run[v])'
      BY DEF Local
    <2>1. PICK place, d : place = pc'[v] /\ d = run'[v]
      OBVIOUS
    <2>2. Placed(place, d)
      BY <1>5, <1>7, <2>1, Known, DisturbedRuns DEF IInv
    <2>3. Placed(place, d)'
      BY <2>2 DEF Placed, data
    <2> QED BY <2>1, <2>3 DEF Placed
  <1>9. \A q, t : Open(q, t)' = Open(q, t)
    BY DEF Open, data
  <1>10. Bounded'
    <2>1. \A q, t : Inserting(q, t)' \subseteq Inserting(q, t)
      BY <1>4, <1>5, DisturbedRuns DEF Inserting, IInv
    <2> QED BY <1>9, <2>1, BoundedKept DEF IInv
  <1>11. Untargeted'
    BY DEF IInv, Untargeted, data
  <1>12. Apart'
    <2>1. \A v \in Worker \ {w} : run'[v].calm = FALSE
      BY <1>5, DisturbedRuns DEF IInv
    <2>2. run'[w].calm => \A v \in Worker \ {w} : pc'[v] = "idle"
      BY <1>1, <1>3, <1>5
    <2>3. pc'[w] # "idle"
      BY <1>5
    <2> QED BY <2>1, <2>2, <2>3 DEF Apart
  <1>13. Calm'
    <2>1. Thorough(next, b)'
      <3>1. \A q : Done(q)' = Done(q)
        BY <1>9, Elsewhere DEF data
      <3> QED BY <1>3, <3>1, AlertsAssumption DEF Thorough, Exists, data
    <2> QED BY <1>5, <2>1, DisturbedRuns DEF Calm, IInv
  <1> QED BY <1>6, <1>8, <1>10, <1>11, <1>12, <1>13 DEF IInv

LEMMA EvaluateIInv ==
  ASSUME IInv, kind' = kind, NEW w \in Worker, Evaluate(w)
  PROVE  IInv'
  <1>1. PICK r : r = [Blank EXCEPT !.todo = {q \in Rule : Exists(q) /\ rules[q].on},
                                   !.notify = {q \in Rule : Exists(q) /\ rules[q].notify}]
    OBVIOUS
  <1>2. /\ r \in Run /\ r.rule = Nil /\ r.target = Nil
        /\ r.todo = {q \in Rule : Exists(q) /\ rules[q].on}
    BY <1>1 DEF Blank, Run
  <1>3. Begin(w, "usage", r) /\ UNCHANGED data
    BY <1>1 DEF Evaluate
  <1>4. Placed("usage", r)
    BY <1>2 DEF Placed
  <1>5. Thorough("usage", r)
    BY <1>2, AlertsAssumption DEF Thorough
  <1> QED BY <1>2, <1>3, <1>4, <1>5, BeginIInv

LEMMA LoadEventIInv ==
  ASSUME IInv, kind' = kind, NEW w \in Worker, LoadEvent(w)
  PROVE  IInv'
  <1>1. PICK e \in EventId : events[e] # Nil /\ Begin(w, "ack", [Blank EXCEPT !.event = e])
    BY DEF LoadEvent
  <1>2. PICK r : r = [Blank EXCEPT !.event = e]
    OBVIOUS
  <1>3. r \in Run /\ r.rule = Nil /\ r.event = e
    BY <1>2 DEF Blank, Run
  <1>4. Placed("ack", r)
    BY <1>1, <1>3 DEF Placed
  <1>5. Thorough("ack", r)
    BY <1>3, AlertsAssumption DEF Thorough
  <1> QED BY <1>1, <1>2, <1>3, <1>4, <1>5, BeginIInv DEF LoadEvent

LEMMA ResolveEventIInv ==
  ASSUME IInv, kind' = kind, Resolve
  PROVE  IInv'
  <1>1. PICK S \in SUBSET EventId : (\A e \in S : events[e] # Nil) /\ events' = Closed(S)
    BY DEF Resolve
  <1>2. /\ events' \in Events /\ SameSubjects
        /\ \A e \in EventId : events[e] = Nil => events'[e] = Nil
        /\ \A q, t : Open(q, t)' = Open(q, t) \ S
    BY <1>1, Closing DEF IInv
  <1>3. Untargeted'
    BY <1>2, UntargetedKept DEF IInv
  <1> QED BY <1>2, <1>3, DisturbIInv DEF Resolve, IInv, TypeOK, SameSubjects

\* Rules, use or standing change; the events do not.
LEMMA ChangeIInv ==
  ASSUME IInv, kind' = kind, run' = Disturbed, UNCHANGED <<pc, events, board>>,
         rules' \in [Rule -> RuleRow \cup {Nil, Gone}],
         standing' \in [Target -> {"counted", "exempt", "gone"}], load' \subseteq Target
  PROVE  IInv'
  <1>1. events' \in Events /\ Untargeted'
    BY DEF IInv, TypeOK, Events, Untargeted
  <1>2. \A q, t : Open(q, t)' = Open(q, t)
    BY DEF Open
  <1> QED BY <1>1, <1>2, DisturbIInv

LEMMA UseChangesIInv ==
  ASSUME IInv, kind' = kind, UseChanges
  PROVE  IInv'
  BY ChangeIInv DEF UseChanges, IInv, TypeOK

LEMMA StandingChangesIInv ==
  ASSUME IInv, kind' = kind, StandingChanges
  PROVE  IInv'
  <1>1. standing' \in [Target -> {"counted", "exempt", "gone"}]
    BY DEF StandingChanges, IInv, TypeOK
  <1> QED BY <1>1, ChangeIInv DEF StandingChanges, IInv, TypeOK

LEMMA WriteRuleIInv ==
  ASSUME IInv, kind' = kind, WriteRule
  PROVE  IInv'
  <1>1. rules' \in [Rule -> RuleRow \cup {Nil, Gone}]
    BY DEF WriteRule, IInv, TypeOK
  <1> QED BY <1>1, ChangeIInv DEF WriteRule, IInv, TypeOK

\* An event loses its target, and with it is no longer one about the target;
\* rules with one figure for the platform have none to lose.
LEMMA RemoveAccountIInv ==
  ASSUME IInv, kind' = kind, RemoveAccount
  PROVE  IInv'
  <1>1. PICK a \in Account :
          /\ standing' = [standing EXCEPT ![a] = "gone"]
          /\ events' = [e \in EventId |->
                           IF events[e] # Nil /\ events[e].target = a
                           THEN [events[e] EXCEPT !.target = Nil] ELSE events[e]]
    BY DEF RemoveAccount
  <1>2. events \in [EventId -> Event \cup {Nil}] /\ a # Nil
    BY AlertsAssumption DEF IInv, TypeOK, Target
  <1>3. ASSUME NEW e \in EventId
        PROVE  /\ events'[e] \in Event \cup {Nil}
               /\ events'[e] = Nil <=> events[e] = Nil
               /\ \/ events[e] = Nil
                  \/ events'[e].rule = events[e].rule /\ events'[e].status = events[e].status
               /\ IF events[e] # Nil /\ events[e].target = a
                  THEN events'[e].target = Nil ELSE events'[e] = events[e]
    <2>1. PICK x \in Event \cup {Nil} : x = events[e]
      BY <1>2
    <2>2. CASE x # Nil /\ x.target = a
      <3>1. events'[e] = [x EXCEPT !.target = Nil]
        BY <1>1, <2>1, <2>2
      <3>2. PICK y : y = [x EXCEPT !.target = Nil]
        OBVIOUS
      <3>3. y \in Event /\ y.rule = x.rule /\ y.status = x.status /\ y.target = Nil
        BY <2>2, <3>2 DEF Event
      <3> QED BY <2>1, <2>2, <3>1, <3>2, <3>3, AlertsAssumption
    <2>3. CASE ~(x # Nil /\ x.target = a)
      BY <1>1, <2>1, <2>3
    <2> QED BY <2>2, <2>3
  <1>4. events' \in Events /\ \A e \in EventId : events[e] # Nil => events'[e] # Nil
    BY <1>1, <1>3 DEF Events
  <1>5. Untargeted'
    BY <1>3 DEF IInv, Untargeted
  <1>6. \A r \in Rule : \A t \in About(r) : Open(r, t)' \subseteq Open(r, t)
    BY <1>2, <1>3, AlertsAssumption DEF IInv, Untargeted, Open, About
  <1>7. standing' \in [Target -> {"counted", "exempt", "gone"}]
    BY <1>1 DEF IInv, TypeOK
  <1> QED BY <1>4, <1>5, <1>6, <1>7, DisturbIInv DEF RemoveAccount, IInv, TypeOK

LEMMA DeleteRuleIInv ==
  ASSUME IInv, kind' = kind, DeleteRule
  PROVE  IInv'
  <1>1. PICK q \in Rule :
          /\ rules' = [rules EXCEPT ![q] = Gone]
          /\ events' = [e \in EventId |->
                           IF events[e] # Nil /\ events[e].rule = q
                           THEN [events[e] EXCEPT !.rule = Nil] ELSE events[e]]
    BY DEF DeleteRule
  <1>2. events \in [EventId -> Event \cup {Nil}] /\ Nil \notin Rule
    BY AlertsAssumption DEF IInv, TypeOK
  <1>3. ASSUME NEW e \in EventId
        PROVE  /\ events'[e] \in Event \cup {Nil}
               /\ events'[e] = Nil <=> events[e] = Nil
               /\ events'[e] = events[e] \/ events'[e].rule = Nil
    <2>1. PICK x \in Event \cup {Nil} : x = events[e]
      BY <1>2
    <2>2. CASE x # Nil /\ x.rule = q
      <3>1. events'[e] = [x EXCEPT !.rule = Nil]
        BY <1>1, <2>1, <2>2
      <3>2. PICK y : y = [x EXCEPT !.rule = Nil]
        OBVIOUS
      <3>3. y \in Event /\ y.rule = Nil
        BY <2>2, <3>2 DEF Event
      <3> QED BY <2>1, <2>2, <3>1, <3>2, <3>3, AlertsAssumption
    <2>3. CASE ~(x # Nil /\ x.rule = q)
      BY <1>1, <2>1, <2>3
    <2> QED BY <2>2, <2>3
  <1>4. events' \in Events /\ \A e \in EventId : events[e] # Nil => events'[e] # Nil
    BY <1>1, <1>3 DEF Events
  <1>5. Untargeted'
    BY <1>2, <1>3 DEF IInv, Untargeted
  <1>6. \A r \in Rule : \A t \in About(r) : Open(r, t)' \subseteq Open(r, t)
    BY <1>2, <1>3 DEF Open
  <1>7. rules' \in [Rule -> RuleRow \cup {Nil, Gone}]
    BY <1>1 DEF IInv, TypeOK
  <1> QED BY <1>4, <1>5, <1>6, <1>7, DisturbIInv DEF DeleteRule, IInv, TypeOK

-----------------------------------------------------------------------------
LEMMA InitIInv ==
  ASSUME Init
  PROVE  IInv
  <1>1. TypeOK
    BY DEF Init, TypeOK, Blank, Run
  <1>2. /\ \A w \in Worker : pc[w] = "idle" /\ run[w] = Blank
        /\ \A e \in EventId : events[e] = Nil
    BY DEF Init
  <1>3. Local /\ Untargeted
    BY <1>2 DEF Local, Untargeted, Placed
  <1>4. Bounded
    <2> SUFFICES ASSUME NEW r \in Rule, NEW t \in About(r)
                 PROVE  /\ IsFiniteSet(Open(r, t))
                        /\ Cardinality(Open(r, t)) + Cardinality(Inserting(r, t)) <= Cardinality(Worker)
      BY DEF Bounded
    <2>1. Open(r, t) = {} /\ Inserting(r, t) = {}
      BY <1>2 DEF Open, Inserting
    <2>2. Cardinality(Worker) \in Nat
      BY AlertsAssumption, FS_CardinalityType
    <2> QED BY <2>1, <2>2, FS_EmptySet
  <1>5. Apart /\ Calm
    BY <1>2 DEF Apart, Calm, Blank
  <1> QED BY <1>1, <1>3, <1>4, <1>5 DEF IInv

LEMMA StepIInv ==
  ASSUME IInv, [Next]_vars
  PROVE  IInv'
  <1>1. CASE UNCHANGED vars
    <2>1. TypeOK' /\ Untargeted' /\ Apart'
      BY <1>1 DEF vars, IInv, TypeOK, Untargeted, Apart
    <2>2. Local'
      BY <1>1 DEF vars, IInv, Local, Placed
    <2>3. Bounded'
      BY <1>1 DEF vars, IInv, Bounded, About, Open, Inserting
    <2>4. Calm'
      BY <1>1 DEF vars, IInv, Calm, Thorough, OfRule, Right, Counted, Done, Open, Exists
    <2> QED BY <2>1, <2>2, <2>3, <2>4 DEF IInv
  <1>2. ASSUME Next PROVE IInv'
    <2>1. kind' = kind
      BY <1>2 DEF Next
    <2>2. ASSUME NEW w \in Worker, RunStep(w) PROVE IInv'
      <3>1. CASE Stop(w)
        BY <2>1, <3>1, FinishIInv DEF Stop
      <3> QED BY <2>1, <2>2, <3>1, EvaluateIInv, LoadUsageIInv, NextRuleIInv, ReadRateIInv,
                 NextTargetIInv, CheckIInv, InsertEventIInv, AnnounceIInv, ListUnseenIInv,
                 ResolveUnseenIInv, ConcludeIInv DEF RunStep
    <2>3. ASSUME NEW w \in Worker, LoadEvent(w) \/ Acknowledge(w) PROVE IInv'
      BY <2>1, <2>3, LoadEventIInv, AcknowledgeIInv
    <2> QED BY <1>2, <2>1, <2>2, <2>3, ResolveEventIInv, UseChangesIInv, StandingChangesIInv,
               RemoveAccountIInv, WriteRuleIInv, DeleteRuleIInv DEF Next
  <1> QED BY <1>1, <1>2

\* Every state of every behaviour satisfies the inductive invariant.
THEOREM Invariance == Spec => []IInv
  <1> QED BY InitIInv, StepIInv, PTL DEF Spec

-----------------------------------------------------------------------------
(***************************************************************************)
(* What follows                                                            *)
(***************************************************************************)
\* Every variable always holds a value of its type, whatever the overlap of
\* evaluations, edits and requests about events.
THEOREM TypeCorrect == Spec => []TypeOK
  <1>1. IInv => TypeOK
    BY DEF IInv
  <1> QED BY <1>1, Invariance, PTL

\* However evaluations overlap, a rule never has more open events about one
\* target than there are goroutines: each was about to insert at most one
\* (evaluate.go, fire: HasOpenEvent and InsertEvent are two statements).
THEOREM OpenEventsAreBounded == Spec => []OpenEventsBounded
  <1>1. ASSUME IInv PROVE OpenEventsBounded
    <2> SUFFICES ASSUME NEW r \in Rule, NEW t \in About(r)
                 PROVE  Cardinality(Open(r, t)) <= Cardinality(Worker)
      BY DEF OpenEventsBounded, About, Listed
    <2>1. /\ IsFiniteSet(Open(r, t)) /\ IsFiniteSet(Inserting(r, t))
          /\ Cardinality(Open(r, t)) + Cardinality(Inserting(r, t)) <= Cardinality(Worker)
      BY <1>1, AlertsAssumption, FS_Subset DEF IInv, Bounded, Inserting
    <2>2. /\ Cardinality(Open(r, t)) \in Nat /\ Cardinality(Inserting(r, t)) \in Nat
          /\ Cardinality(Worker) \in Nat
      BY <2>1, AlertsAssumption, FS_CardinalityType
    <2> QED BY <2>1, <2>2
  <1> QED BY <1>1, Invariance, PTL

\* An evaluation that nothing disturbed has, when it answers, left an open
\* event for exactly the targets that have reached the threshold: those it
\* saw were checked or closed one by one, those it did not were swept
\* (evaluate.go, fire, resolveAndProject, resolveUnseen).
THEOREM EvaluationsAreConclusive == Spec => []EvaluationConclusive
  <1>1. ASSUME IInv PROVE EvaluationConclusive
    <2> SUFFICES ASSUME NEW w \in Worker, pc[w] = "answer", run[w].calm,
                        NEW q \in Rule, Exists(q), rules[q].on, kind[q] \in Listed
                 PROVE  Done(q)
      BY DEF EvaluationConclusive, Done, Listed
    <2>1. run[w].rule = Nil /\ run[w].todo = {} /\ Thorough("answer", run[w])
      BY <1>1, Known DEF Placed
    <2> QED BY <2>1, AlertsAssumption DEF Thorough
  <1> QED BY <1>1, Invariance, PTL

\* What one step does to a resolved event.
LEMMA StepResolved ==
  ASSUME IInv, [Next]_vars, NEW e \in EventId, events[e] # Nil, events[e].status = "resolved"
  PROVE  events'[e].status = "resolved"
  <1>1. events \in [EventId -> Event \cup {Nil}] /\ events[e] \in Event
    BY DEF IInv, TypeOK
  <1>2. CASE events' = events
    BY <1>2
  <1>3. ASSUME NEW S, events' = Closed(S) PROVE events'[e].status = "resolved"
    BY <1>1, <1>3 DEF Closed, Event
  <1>4. CASE \E w \in Worker : InsertEvent(w)
    BY <1>1, <1>4 DEF InsertEvent
  <1>5. CASE \E w \in Worker : Acknowledge(w)
    <2>1. PICK w \in Worker : Acknowledge(w)
      BY <1>5
    <2>2. PICK d \in EventId : d = run[w].event
      BY <2>1, Known DEF Acknowledge, Placed
    <2>3. events' = [events EXCEPT ![d].status = IF @ = "resolved" THEN @ ELSE "acknowledged"]
      BY <2>1, <2>2 DEF Acknowledge
    <2> QED BY <1>1, <2>3 DEF Event
  <1>6. CASE RemoveAccount
    BY <1>1, <1>6 DEF RemoveAccount, Event
  <1>7. CASE DeleteRule
    BY <1>1, <1>7 DEF DeleteRule, Event
  <1>8. CASE UNCHANGED vars
    BY <1>2, <1>8 DEF vars
  <1>9. CASE Resolve \/ UseChanges \/ StandingChanges \/ WriteRule
    BY <1>2, <1>3, <1>9 DEF Resolve, UseChanges, StandingChanges, WriteRule
  <1>10. CASE \E w \in Worker : \/ Evaluate(w) \/ LoadUsage(w) \/ NextRule(w) \/ Check(w)
                                \/ Announce(w) \/ ListUnseen(w) \/ Conclude(w) \/ Stop(w)
                                \/ LoadEvent(w)
    BY <1>2, <1>10 DEF Evaluate, LoadUsage, NextRule, Check, Announce, ListUnseen, Conclude,
                       Stop, LoadEvent, data
  <1>11. CASE \E w \in Worker : ReadRate(w) \/ NextTarget(w) \/ ResolveUnseen(w)
    <2>1. ASSUME NEW w \in Worker, ReadRate(w)
          PROVE  events' = events \/ \E q : events' = Closed(Closable(q, Nil))
      BY <2>1 DEF ReadRate
    <2>2. ASSUME NEW w, NEW t, NEW here, NEW r, ResolveAndProject(w, t, here, r)
          PROVE  events' = Closed(Closable(run[w].rule, t))
      BY <2>2 DEF ResolveAndProject
    <2>3. ASSUME NEW w \in Worker, NextTarget(w)
          PROVE  events' = events \/ \E t, r : ResolveAndProject(w, t, "target", r)
      BY <2>3 DEF NextTarget
    <2>4. ASSUME NEW w \in Worker, ResolveUnseen(w)
          PROVE  events' = events \/ \E t, r : ResolveAndProject(w, t, "sweep", r)
      BY <2>4 DEF ResolveUnseen
    <2>5. events' = events \/ \E S : events' = Closed(S)
      BY <1>11, <2>1, <2>2, <2>3, <2>4
    <2> QED BY <1>2, <1>3, <2>5
  <1> QED BY <1>4, <1>5, <1>6, <1>7, <1>8, <1>9, <1>10, <1>11 DEF Next, RunStep

\* A resolved event stays resolved, though ack reads the status in one
\* statement and writes it in another (store.go, Acknowledge).
THEOREM ResolvedStaysResolved == Spec => ResolvedIsFinal
  <1>1. IInv /\ [Next]_vars =>
            [\A e \in EventId : (events[e] # Nil /\ events[e].status = "resolved")
                                    => events'[e].status = "resolved"]_vars
    BY StepResolved
  <1> QED BY <1>1, Invariance, PTL DEF Spec, ResolvedIsFinal
=============================================================================

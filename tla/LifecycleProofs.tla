-------------------------- MODULE LifecycleProofs --------------------------
(***************************************************************************)
(* What is proved of Lifecycle.  That a task is thorough is proved page by *)
(* page: what is left to delete is on the page or after the token          *)
(* (Ahead), which needs that a page is a beginning of what was found.      *)
(***************************************************************************)
EXTENDS Lifecycle, FiniteSetTheorems, WellFoundedInduction, TLAPS

(***************************************************************************)
(* The inductive invariant                                                 *)
(***************************************************************************)
Local ==
    /\ pc \in {"list", "items"} => run.task \in Task
    /\ pc = "idle" => run = Blank
    /\ run.cutoff <= now

\* Tasks are about what enabled rules ask for.
Wanted ==
    \A t \in Task, k \in Key :
        /\ t \in run.todo \/ (pc \in {"list", "items"} /\ t = run.task)
        /\ About(t.act, t.prefix, k)
        => k \in run.asked

\* What is on the page was old when it was listed.
Listed ==
    \A k \in run.page : /\ k \in run.asked
                        /\ written[k] = Nil \/ written[k] < now \/ k \in run.rewritten

\* What the task under way is about and has not deleted yet.
Left(k) ==
    About(run.task.act, run.task.prefix, k) /\ written[k] # Nil /\ written[k] < run.cutoff

Ahead ==
    (run.clean /\ run.task # Nil) => \A k \in Key : Left(k) =>
        /\ pc = "list" => k > run.token
        /\ pc = "items" => k \in run.page \/ (run.more /\ k > run.token)
        /\ pc = "task" => run.deleted >= MaxDeletes

IInv == TypeOK /\ Local /\ Wanted /\ Listed /\ Ahead

-----------------------------------------------------------------------------
(***************************************************************************)
(* Least and greatest keys, and pages                                      *)
(***************************************************************************)
\* A set of naturals has a least element.
LEMMA Least ==
  ASSUME NEW S \in SUBSET Nat, S # {}
  PROVE  \E m \in S : \A n \in S : m <= n
  <1>1. PICK R : R = OpToRel(<, Nat)
    OBVIOUS
  <1>2. IsWellFoundedOn(R, Nat)
    BY <1>1, NatLessThanWellFounded
  <1>3. PICK m \in S : \A n \in S : <<n, m>> \notin R
    BY <1>2, WFMin
  <1>4. ASSUME NEW n \in S PROVE m <= n
    <2>1. n \in Nat /\ m \in Nat /\ <<n, m>> \notin R
      BY <1>3
    <2>2. ~(n < m)
      BY <1>1, <2>1 DEF OpToRel
    <2> QED BY <2>1, <2>2
  <1> QED BY <1>4

LEMMA KeyFacts == /\ Len(Listing) \in Nat /\ Key = 1..Len(Listing) /\ Key \subseteq Nat
                  /\ IsFiniteSet(Key)
                  /\ \A k \in Key : Listing[k].area \in {Subject[a] : a \in Action}
  <1>1. PICK Areas : Areas = {Subject[a] : a \in Action}
    OBVIOUS
  <1>2. PICK Entries : Entries = [area : Areas, dir : Prefix]
    OBVIOUS
  <1>3. Listing \in Seq(Entries)
    BY <1>1, <1>2, LifecycleAssumption, Zenon
  <1>4. Len(Listing) \in Nat /\ Key = 1..Len(Listing) /\ \A k \in 1..Len(Listing) : Listing[k] \in Entries
    BY <1>3 DEF Key
  <1>5. \A k \in Key : Listing[k].area \in Areas
    BY <1>2, <1>4
  <1>6. IsFiniteSet(1..Len(Listing))
    BY <1>4, FS_Interval
  <1> QED BY <1>1, <1>4, <1>5, <1>6

LEMMA Sizes == PageSize \in Nat /\ PageSize >= 1 /\ MaxDeletes \in Nat /\ MaxTime \in Nat
  <1>1. PageSize \in Nat \ {0} /\ MaxDeletes \in Nat /\ MaxTime \in Nat
    BY LifecycleAssumption, Zenon
  <1> QED BY <1>1

LEMMA MinOfKeys ==
  ASSUME NEW S \in SUBSET Key, S # {}
  PROVE  Min(S) \in S /\ \A k \in S : Min(S) <= k
  <1>1. \E m \in S : \A k \in S : m <= k
    BY KeyFacts, Least
  <1> QED BY <1>1 DEF Min

\* The greatest is the least upper bound.
LEMMA MaxOfKeys ==
  ASSUME NEW S \in SUBSET Key, S # {}
  PROVE  Max(S) \in S /\ \A k \in S : k <= Max(S)
  <1>1. PICK B \in SUBSET Nat : B = {n \in Nat : \A k \in S : k <= n}
    OBVIOUS
  <1>2. Len(Listing) \in B
    BY <1>1, KeyFacts
  <1>3. PICK m \in B : \A n \in B : m <= n
    BY <1>2, Least
  <1>4. m \in Nat /\ (\A k \in S : k <= m) /\ S \subseteq 1..Len(Listing)
    BY <1>1, KeyFacts
  <1>5. m \in S
    <2>1. SUFFICES ASSUME m \notin S PROVE FALSE
      OBVIOUS
    <2>2. \A k \in S : k <= m - 1 /\ m - 1 \in Nat
      BY <1>4, <2>1, KeyFacts
    <2>3. m - 1 \in B
      BY <1>1, <2>2
    <2> QED BY <1>3, <1>4, <2>3
  <1>6. \E x \in S : \A y \in S : x >= y
    BY <1>4, <1>5
  <1>7. Max(S) \in S /\ \A y \in S : Max(S) >= y
    BY <1>6 DEF Max
  <1> QED BY <1>4, <1>7

\* What a listing finds and the task keeps is what the task is about.
LEMMA KeptFacts ==
  ASSUME NEW t, NEW k \in Key, written[k] # Nil
  PROVE  k \in Found(t) /\ Keep(t, k) <=> About(t.act, t.prefix, k)
  <1>1. Subject["delete"] = "live"
    BY DEF Subject
  <1>2. About("delete", t.prefix, k) => Listing[k].area = "live"
    BY <1>1 DEF About
  <1>3. Listing[k].area = "live" => About("delete", "", k)
    BY <1>1 DEF About
  <1> QED BY <1>2, <1>3 DEF Found, Keep

\* What is found, but on no page so far, comes after the page and its token.
LEMMA PageFacts ==
  ASSUME NEW t, NEW token, TypeOK
  PROVE  /\ Page(t, token) \in SUBSET Found(t) /\ Found(t) \in SUBSET Key
         /\ \A k \in Found(t) : k > token /\ k \notin Page(t, token) =>
                NextToken(t, token) \in Key /\ k > NextToken(t, token)
  <1>1. Page(t, token) \in SUBSET Found(t) /\ Found(t) \in SUBSET Key
    BY DEF Page, Found
  <1>2. ASSUME NEW k \in Found(t), k > token, k \notin Page(t, token)
        PROVE  NextToken(t, token) \in Key /\ k > NextToken(t, token)
    <2>1. PICK rest \in SUBSET Key : rest = {x \in Found(t) : x > token}
      BY <1>1
    <2>2. PICK P \in SUBSET rest : P = {x \in rest : Cardinality({j \in rest : j <= x}) <= PageSize}
      OBVIOUS
    <2>3. P = Page(t, token) /\ k \in rest /\ k \notin P
      BY <1>2, <2>1, <2>2 DEF Page
    <2>4. PICK first \in rest : \A x \in rest : first <= x
      BY <2>3, KeyFacts, Least
    <2>5. first \in P
      <3>1. {j \in rest : j <= first} = {first}
        <4>1. first \in Nat /\ rest \subseteq Nat
          BY <2>4, KeyFacts
        <4>2. \A j \in rest : j <= first <=> j = first
          BY <2>4, <4>1
        <4> QED BY <2>4, <4>2, Zenon
      <3>2. Cardinality({first}) = 1
        BY FS_Singleton
      <3>3. Cardinality({first}) <= PageSize
        BY <3>2, Sizes
      <3> QED BY <2>2, <2>4, <3>1, <3>3
    <2>6. Max(P) \in P
      BY <2>5, MaxOfKeys
    <2>7. ~(k <= Max(P))
      <3>1. SUFFICES ASSUME k <= Max(P) PROVE FALSE
        OBVIOUS
      <3>2. PICK A, B : A = {j \in rest : j <= k} /\ B = {j \in rest : j <= Max(P)}
        OBVIOUS
      <3>3. A \subseteq B /\ IsFiniteSet(B)
        <4>1. rest \subseteq Nat /\ k \in Nat /\ Max(P) \in Nat
          BY <2>3, <2>6, KeyFacts
        <4>2. PICK m \in Nat : m = Max(P)
          BY <4>1
        <4>3. A \subseteq B
          <5>1. \A j \in rest : j <= k => j <= m
            BY <3>1, <4>1, <4>2
          <5> QED BY <3>2, <4>2, <5>1
        <4>4. B \subseteq Key
          BY <3>2
        <4> QED BY <4>3, <4>4, KeyFacts, FS_Subset
      <3>4. /\ Cardinality(A) \in Nat /\ Cardinality(B) \in Nat
            /\ Cardinality(A) <= Cardinality(B)
        BY <3>3, FS_Subset, FS_CardinalityType
      <3>5. Cardinality(B) <= PageSize
        <4>1. Cardinality({j \in rest : j <= Max(P)}) <= PageSize
          BY <2>2, <2>6
        <4> QED BY <3>2, <4>1
      <3>6. Cardinality(A) <= PageSize
        BY <3>4, <3>5, Sizes
      <3> QED BY <2>2, <2>3, <3>2, <3>6
    <2>8. k \in Nat /\ Max(P) \in Nat /\ Max(P) \in Key
      BY <2>3, <2>6, KeyFacts
    <2> QED BY <2>3, <2>7, <2>8 DEF NextToken
  <1> QED BY <1>1, <1>2

-----------------------------------------------------------------------------
(***************************************************************************)
(* The steps                                                               *)
(***************************************************************************)
LEMMA BlankFacts ==
  /\ Blank \in Run /\ Blank.todo = {} /\ Blank.task = Nil /\ Blank.cutoff = 0
  /\ Blank.page = {} /\ Blank.clean = FALSE
  BY Sizes DEF Blank, Run, Time

\* The run is over.
LEMMA IdleIInv ==
  ASSUME IInv, GoOn("idle", Blank), UNCHANGED <<now, written>>
  PROVE  IInv'
  <1>1. pc' = "idle" /\ run' = Blank
    BY DEF GoOn
  <1>2. TypeOK' /\ Local' /\ Listed' /\ Ahead'
    BY <1>1, BlankFacts, Sizes DEF IInv, TypeOK, Local, Listed, Ahead, Time
  <1>3. Wanted'
    BY <1>1, BlankFacts DEF Wanted
  <1> QED BY <1>2, <1>3 DEF IInv

LEMMA BeginRunIInv ==
  ASSUME IInv, BeginRun
  PROVE  IInv'
  <1>1. PICK rules \in [Rule -> Row \cup {Nil}] :
          LET tasks == {t \in Task : /\ t.rule \in Enabled(rules)
                                     /\ t.prefix = rules[t.rule].prefix
                                     /\ t.act \in rules[t.rule].acts}
              wanted(k) == \E r \in Rule : /\ rules[r] # Nil /\ rules[r].on
                                           /\ \E a \in rules[r].acts : About(a, rules[r].prefix, k)
          IN  GoOn("task", [Blank EXCEPT !.todo = tasks, !.asked = {k \in Key : wanted(k)}])
    BY DEF BeginRun
  <1>2. PICK tasks \in SUBSET Task : tasks = {t \in Task : /\ t.rule \in Enabled(rules)
                                                           /\ t.prefix = rules[t.rule].prefix
                                                           /\ t.act \in rules[t.rule].acts}
    OBVIOUS
  <1>3. PICK asked \in SUBSET Key :
          asked = {k \in Key : \E r \in Rule : /\ rules[r] # Nil /\ rules[r].on
                                               /\ \E a \in rules[r].acts : About(a, rules[r].prefix, k)}
    OBVIOUS
  <1>4. PICK r : r = [Blank EXCEPT !.todo = tasks, !.asked = asked]
    OBVIOUS
  <1>5. pc' = "task" /\ run' = r /\ UNCHANGED <<now, written>>
    BY <1>1, <1>2, <1>3, <1>4 DEF GoOn, BeginRun
  <1>6. /\ r \in Run /\ r.todo = tasks /\ r.asked = asked /\ r.task = Nil /\ r.cutoff = 0
        /\ r.page = {} /\ r.clean = FALSE
    BY <1>4, BlankFacts DEF Run
  <1>7. TypeOK' /\ Local' /\ Listed' /\ Ahead'
    BY <1>5, <1>6, Sizes DEF IInv, TypeOK, Local, Listed, Ahead, Time
  <1>8. Wanted'
    <2> SUFFICES ASSUME NEW t \in tasks, NEW k \in Key, About(t.act, t.prefix, k)
                 PROVE  k \in asked
      BY <1>5, <1>6 DEF Wanted
    <2>1. /\ t.rule \in Rule /\ rules[t.rule] # Nil /\ rules[t.rule].on
          /\ t.act \in rules[t.rule].acts /\ About(t.act, rules[t.rule].prefix, k)
      BY <1>2 DEF Enabled
    <2> QED BY <1>3, <2>1
  <1> QED BY <1>7, <1>8 DEF IInv

LEMMA NextTaskIInv ==
  ASSUME IInv, NextTask
  PROVE  IInv'
  <1>1. PICK t \in run.todo :
          GoOn("list", [Blank EXCEPT !.todo = run.todo \ {t}, !.task = t, !.cutoff = now,
                                     !.asked = run.asked, !.clean = TRUE])
    BY DEF NextTask
  <1>2. PICK r : r = [Blank EXCEPT !.todo = run.todo \ {t}, !.task = t, !.cutoff = now,
                                   !.asked = run.asked, !.clean = TRUE]
    OBVIOUS
  <1>3. pc' = "list" /\ run' = r /\ UNCHANGED <<now, written>>
    BY <1>1, <1>2 DEF GoOn, NextTask
  <1>4. run \in Run /\ t \in Task /\ now \in Time
    BY DEF IInv, TypeOK, Run
  <1>5. /\ r \in Run /\ r.todo = run.todo \ {t} /\ r.asked = run.asked /\ r.task = t
        /\ r.cutoff = now /\ r.page = {} /\ r.token = 0
    BY <1>2, <1>4, BlankFacts DEF Run, Blank
  <1>6. TypeOK' /\ Local' /\ Listed'
    BY <1>3, <1>4, <1>5, Sizes DEF IInv, TypeOK, Local, Listed, Time
  <1>7. Wanted'
    BY <1>3, <1>4, <1>5 DEF IInv, Wanted
  <1>8. Ahead'
    BY <1>3, <1>5, KeyFacts DEF Ahead
  <1> QED BY <1>6, <1>7, <1>8 DEF IInv

LEMMA ListPageIInv ==
  ASSUME IInv, ListPage
  PROVE  IInv'
  <1>1. PICK page, more : /\ page = Page(run.task, run.token)
                          /\ more = (\E k \in Found(run.task) : k > run.token /\ k \notin page)
    OBVIOUS
  <1>2. PICK old \in SUBSET page : old = {k \in page : Keep(run.task, k) /\ written[k] < run.cutoff}
    OBVIOUS
  <1>3. PICK token : token = IF more THEN NextToken(run.task, run.token) ELSE run.token
    OBVIOUS
  <1>4. pc = "list" /\ UNCHANGED <<now, written>> /\ run \in Run /\ run.task \in Task /\ more \in BOOLEAN
    BY <1>1 DEF ListPage, IInv, TypeOK, Local
  <1>5. /\ page \in SUBSET Found(run.task) /\ Found(run.task) \in SUBSET Key
        /\ more => token \in Key
        /\ \A k \in Found(run.task) : k > run.token /\ k \notin page => more /\ k > token
    BY <1>1, <1>3, PageFacts DEF IInv
  <1>6. token \in Key \cup {0}
    BY <1>3, <1>4, <1>5 DEF Run
  <1>7. CASE GoOn("items", [run EXCEPT !.page = old, !.token = token, !.more = more, !.rewritten = {}])
    <2>1. PICK r : r = [run EXCEPT !.page = old, !.token = token, !.more = more, !.rewritten = {}]
      OBVIOUS
    <2>2. pc' = "items" /\ run' = r
      BY <1>7, <2>1 DEF GoOn
    <2>3. /\ r \in Run /\ r.page = old /\ r.token = token /\ r.more = more /\ r.rewritten = {}
          /\ r.todo = run.todo /\ r.task = run.task /\ r.cutoff = run.cutoff /\ r.asked = run.asked
          /\ r.clean = run.clean /\ r.deleted = run.deleted
      BY <1>2, <1>4, <1>5, <1>6, <2>1 DEF Run
    <2>4. TypeOK' /\ Local' /\ Wanted'
      BY <1>4, <2>2, <2>3 DEF IInv, TypeOK, Local, Wanted
    <2>5. Listed'
      <3> SUFFICES ASSUME NEW k \in old PROVE k \in run.asked /\ (written[k] = Nil \/ written[k] < now)
        BY <1>4, <2>2, <2>3 DEF Listed
      <3>1. k \in Key /\ k \in Found(run.task) /\ Keep(run.task, k) /\ written[k] < run.cutoff
        BY <1>2, <1>5
      <3>2. About(run.task.act, run.task.prefix, k)
        BY <3>1, KeptFacts DEF Found
      <3>3. k \in run.asked
        BY <1>4, <3>1, <3>2 DEF IInv, Wanted
      <3>4. written[k] = Nil \/ written[k] < now
        BY <1>4, <3>1, Sizes DEF IInv, TypeOK, Local, Run, Time
      <3> QED BY <3>3, <3>4
    <2>6. Ahead'
      <3> SUFFICES ASSUME r.clean, NEW k \in Key, About(run.task.act, run.task.prefix, k),
                          written[k] # Nil, written[k] < run.cutoff, run.task # Nil
                   PROVE  k \in old \/ (more /\ k > token)
        BY <1>4, <2>2, <2>3 DEF Ahead, Left
      <3>1. k > run.token
        BY <1>4, <2>3 DEF IInv, Ahead, Left
      <3>2. k \in Found(run.task) /\ Keep(run.task, k)
        BY KeptFacts
      <3> QED BY <1>2, <1>5, <3>1, <3>2
    <2> QED BY <2>4, <2>5, <2>6 DEF IInv
  <1>8. CASE GoOn("task", [run EXCEPT !.clean = FALSE])
    <2>1. PICK r : r = [run EXCEPT !.clean = FALSE]
      OBVIOUS
    <2>2. pc' = "task" /\ run' = r
      BY <1>8, <2>1 DEF GoOn
    <2>3. /\ r \in Run /\ r.page = run.page /\ r.todo = run.todo /\ r.cutoff = run.cutoff
          /\ r.asked = run.asked /\ r.clean = FALSE /\ r.rewritten = run.rewritten
      BY <1>4, <2>1 DEF Run
    <2>4. TypeOK' /\ Local' /\ Wanted' /\ Listed' /\ Ahead'
      BY <1>4, <2>2, <2>3 DEF IInv, TypeOK, Local, Wanted, Listed, Ahead
    <2> QED BY <2>4 DEF IInv
  <1> QED BY <1>1, <1>2, <1>3, <1>7, <1>8 DEF ListPage

LEMMA DeleteNextIInv ==
  ASSUME IInv, DeleteNext
  PROVE  IInv'
  <1>1. PICK key : key = Min(run.page)
    OBVIOUS
  <1>2. /\ pc = "items" /\ run \in Run /\ run.task \in Task /\ now' = now /\ run.deleted < MaxDeletes
        /\ written \in [Key -> Time \cup {Nil}]
    BY Sizes DEF DeleteNext, Full, IInv, TypeOK, Local, Run
  <1>3. key \in run.page /\ key \in Key
    BY <1>1, <1>2, MinOfKeys DEF DeleteNext, Run
  <1>4. CASE /\ written' = [written EXCEPT ![key] = Nil]
             /\ GoOn("items", [[run EXCEPT !.page = @ \ {key}] EXCEPT !.deleted = @ + 1])
    <2>1. PICK page \in SUBSET Key : page = run.page \ {key}
      BY <1>2 DEF Run
    <2>2. PICK deleted \in 0..MaxDeletes : deleted = run.deleted + 1
      BY <1>2, Sizes DEF Run
    <2>3. PICK r : r = [run EXCEPT !.page = page, !.deleted = deleted]
      OBVIOUS
    <2>4. pc' = "items" /\ run' = r
      BY <1>2, <1>4, <2>1, <2>2, <2>3 DEF GoOn, Run
    <2>5. /\ r \in Run /\ r.page = page /\ r.token = run.token /\ r.more = run.more
          /\ r.todo = run.todo /\ r.task = run.task /\ r.cutoff = run.cutoff /\ r.asked = run.asked
          /\ r.clean = run.clean /\ r.deleted = deleted /\ r.rewritten = run.rewritten
      BY <1>2, <2>3 DEF Run
    <2>6. /\ written' \in [Key -> Time \cup {Nil}]
          /\ written'[key] = Nil /\ \A k \in Key \ {key} : written'[k] = written[k]
      BY <1>2, <1>3, <1>4
    <2>7. TypeOK' /\ Local' /\ Wanted'
      BY <1>2, <2>4, <2>5, <2>6 DEF IInv, TypeOK, Local, Wanted
    <2>8. Listed'
      BY <1>2, <2>1, <2>4, <2>5, <2>6 DEF IInv, Listed
    <2>9. Ahead'
      BY <1>2, <2>1, <2>4, <2>5, <2>6 DEF IInv, Ahead, Left
    <2> QED BY <2>7, <2>8, <2>9 DEF IInv
  <1>5. CASE /\ GoOn("items", [[run EXCEPT !.page = @ \ {key}] EXCEPT !.clean = FALSE])
             /\ UNCHANGED written
    <2>1. PICK page \in SUBSET Key : page = run.page \ {key}
      BY <1>2 DEF Run
    <2>2. PICK r : r = [run EXCEPT !.page = page, !.clean = FALSE]
      OBVIOUS
    <2>3. pc' = "items" /\ run' = r
      BY <1>2, <1>5, <2>1, <2>2 DEF GoOn, Run
    <2>4. /\ r \in Run /\ r.page = page /\ r.todo = run.todo /\ r.task = run.task
          /\ r.cutoff = run.cutoff /\ r.asked = run.asked /\ r.clean = FALSE
          /\ r.rewritten = run.rewritten
      BY <1>2, <2>2 DEF Run
    <2>5. TypeOK' /\ Local' /\ Wanted'
      BY <1>2, <1>5, <2>3, <2>4 DEF IInv, TypeOK, Local, Wanted
    <2>6. Listed' /\ Ahead'
      BY <1>2, <1>5, <2>1, <2>3, <2>4 DEF IInv, Listed, Ahead
    <2> QED BY <2>5, <2>6 DEF IInv
  <1> QED BY <1>1, <1>4, <1>5 DEF DeleteNext

LEMMA PageDoneIInv ==
  ASSUME IInv, PageDone
  PROVE  IInv'
  <1>1. PICK next : next = IF run.more /\ ~Full THEN "list" ELSE "task"
    OBVIOUS
  <1>2. PICK r : r = [run EXCEPT !.page = {}]
    OBVIOUS
  <1>3. /\ pc = "items" /\ pc' = next /\ run' = r /\ UNCHANGED <<now, written>>
        /\ run.page = {} \/ run.deleted >= MaxDeletes
        /\ next = "list" => run.more /\ ~(run.deleted >= MaxDeletes)
        /\ next = "task" => ~run.more \/ run.deleted >= MaxDeletes
        /\ next \in {"list", "task"}
    BY <1>1, <1>2 DEF PageDone, GoOn, Full
  <1>4. run \in Run /\ run.task \in Task
    BY <1>3 DEF IInv, TypeOK, Local
  <1>5. /\ r \in Run /\ r.page = {} /\ r.token = run.token
        /\ r.todo = run.todo /\ r.task = run.task /\ r.cutoff = run.cutoff /\ r.asked = run.asked
        /\ r.clean = run.clean /\ r.deleted = run.deleted
    BY <1>2, <1>4 DEF Run
  <1>6. TypeOK' /\ Local' /\ Wanted' /\ Listed'
    BY <1>3, <1>4, <1>5 DEF IInv, TypeOK, Local, Wanted, Listed
  <1>7. Ahead'
    BY <1>3, <1>5 DEF IInv, Ahead, Left
  <1> QED BY <1>6, <1>7 DEF IInv

LEMMA WriteIInv ==
  ASSUME IInv, Write
  PROVE  IInv'
  <1>1. PICK key \in Key :
          /\ written' = [written EXCEPT ![key] = now]
          /\ run' = IF pc = "idle" THEN run
                    ELSE [run EXCEPT !.rewritten = IF key \in run.page THEN @ \cup {key} ELSE @,
                                     !.clean = FALSE]
    BY DEF Write
  <1>2. UNCHANGED <<now, pc>> /\ run \in Run /\ now \in Time /\ written \in [Key -> Time \cup {Nil}]
    BY DEF Write, IInv, TypeOK
  <1>3. /\ written' \in [Key -> Time \cup {Nil}]
        /\ \A k \in Key \ {key} : written'[k] = written[k]
    BY <1>1, <1>2
  <1>4. CASE pc = "idle"
    <2>1. run' = run
      BY <1>1, <1>4
    <2>2. TypeOK' /\ Local' /\ Wanted'
      BY <1>2, <1>3, <2>1 DEF IInv, TypeOK, Local, Wanted
    <2>3. Listed' /\ Ahead'
      BY <1>2, <1>3, <1>4, <2>1, BlankFacts DEF IInv, Local, Listed, Ahead, Left
    <2> QED BY <2>2, <2>3 DEF IInv
  <1>5. CASE pc # "idle"
    <2>1. PICK S \in SUBSET Key : S = IF key \in run.page THEN run.rewritten \cup {key} ELSE run.rewritten
      BY <1>2 DEF Run
    <2>2. PICK r : r = [run EXCEPT !.rewritten = S, !.clean = FALSE]
      OBVIOUS
    <2>3. run' = r
      BY <1>1, <1>5, <2>1, <2>2
    <2>4. /\ r \in Run /\ r.page = run.page /\ r.todo = run.todo /\ r.task = run.task
          /\ r.cutoff = run.cutoff /\ r.asked = run.asked /\ r.clean = FALSE /\ r.rewritten = S
      BY <1>2, <2>2 DEF Run
    <2>5. TypeOK' /\ Local' /\ Wanted' /\ Ahead'
      BY <1>2, <1>3, <1>5, <2>3, <2>4 DEF IInv, TypeOK, Local, Wanted, Ahead
    <2>6. Listed'
      BY <1>2, <1>3, <2>1, <2>3, <2>4 DEF IInv, Listed, Run
    <2> QED BY <2>5, <2>6 DEF IInv
  <1> QED BY <1>4, <1>5

LEMMA DeleteIInv ==
  ASSUME IInv, Delete
  PROVE  IInv'
  <1>1. PICK key \in Key : written' = [written EXCEPT ![key] = Nil]
    BY DEF Delete
  <1>2. /\ UNCHANGED <<now, pc, run>> /\ run \in Run /\ written \in [Key -> Time \cup {Nil}]
    BY DEF Delete, IInv, TypeOK
  <1>3. /\ written' \in [Key -> Time \cup {Nil}]
        /\ written'[key] = Nil /\ \A k \in Key \ {key} : written'[k] = written[k]
    BY <1>1, <1>2
  <1>4. TypeOK' /\ Local' /\ Wanted'
    BY <1>2, <1>3 DEF IInv, TypeOK, Local, Wanted
  <1>5. Listed' /\ Ahead'
    BY <1>2, <1>3 DEF IInv, Listed, Ahead, Left, Run
  <1> QED BY <1>4, <1>5 DEF IInv

LEMMA TickIInv ==
  ASSUME IInv, Tick
  PROVE  IInv'
  <1>1. now' = now + 1 /\ now < MaxTime /\ UNCHANGED <<written, pc, run>> /\ now \in Nat /\ run \in Run
    BY Sizes DEF Tick, IInv, TypeOK, Time
  <1>2. TypeOK' /\ Local' /\ Wanted' /\ Ahead'
    BY <1>1, Sizes DEF IInv, TypeOK, Local, Wanted, Ahead, Left, Time, Run
  <1>3. Listed'
    <2> SUFFICES ASSUME NEW k \in run.page, written[k] # Nil, written[k] < now PROVE written[k] < now + 1
      BY <1>1 DEF IInv, Listed
    <2>1. written[k] \in Nat
      BY <1>1, Sizes DEF IInv, TypeOK, Time, Run
    <2> QED BY <1>1, <2>1
  <1> QED BY <1>2, <1>3 DEF IInv

LEMMA InitIInv ==
  ASSUME Init
  PROVE  IInv
  BY BlankFacts, Sizes DEF Init, IInv, TypeOK, Local, Wanted, Listed, Ahead, Time

LEMMA StepIInv ==
  ASSUME IInv, [Next]_vars
  PROVE  IInv'
  <1>1. CASE UNCHANGED vars
    BY <1>1 DEF vars, IInv, TypeOK, Local, Wanted, Listed, Ahead, Left
  <1>2. CASE EndRun \/ Crash
    BY <1>2, IdleIInv DEF EndRun, Crash
  <1> QED BY <1>1, <1>2, BeginRunIInv, NextTaskIInv, ListPageIInv, DeleteNextIInv, PageDoneIInv,
             WriteIInv, DeleteIInv, TickIInv DEF Next, RunStep

\* Every state of every behaviour satisfies the inductive invariant.
THEOREM Invariance == Spec => []IInv
  <1> QED BY InitIInv, StepIInv, PTL DEF Spec

-----------------------------------------------------------------------------
(***************************************************************************)
(* What follows                                                            *)
(***************************************************************************)
\* Every variable always holds a value of its type; in particular no action
\* deletes more than its limit, over however many pages and failures
\* (runner.go, deletePrefix and abortMultipart).
THEOREM TypeCorrect == Spec => []TypeOK
  <1>1. IInv => TypeOK
    BY DEF IInv
  <1> QED BY <1>1, Invariance, PTL

\* A task that ended below its limit, with no call failing and nothing written
\* meanwhile, has left nothing old of what it is about, however many pages the
\* listing had and whatever tenants deleted between two of them.
THEOREM TasksAreThorough == Spec => []TaskIsThorough
  <1>1. ASSUME IInv PROVE TaskIsThorough
    <2> SUFFICES ASSUME pc = "task", run.task # Nil, run.clean, run.deleted < MaxDeletes,
                        NEW k \in Key, About(run.task.act, run.task.prefix, k), written[k] # Nil
                 PROVE  written[k] >= run.cutoff
      BY DEF TaskIsThorough
    <2>1. written[k] \in Nat /\ run.cutoff \in Nat /\ run.deleted \in Nat
      BY <1>1, Sizes DEF IInv, TypeOK, Run, Time
    <2>2. ~(written[k] < run.cutoff)
      BY <1>1, <2>1, Sizes DEF IInv, Ahead, Left
    <2> QED BY <2>1, <2>2
  <1> QED BY <1>1, Invariance, PTL

\* A run deletes only what rules enabled when it began ask for, and only what
\* is old - or was overwritten after the page with it was listed.
THEOREM OnlyAskedIsDeleted == Spec => DeletesAreAsked
  <1>1. ASSUME IInv, DeleteNext, NEW k \in Key, written[k] # Nil, written'[k] = Nil
        PROVE  k \in run.asked /\ (written[k] < now \/ k \in run.rewritten)
    <2>1. written' # written
      BY <1>1
    <2>2. written' = [written EXCEPT ![Min(run.page)] = Nil] /\ run.page # {} /\ run.page \in SUBSET Key
      BY <1>1, <2>1 DEF DeleteNext, IInv, TypeOK, Run
    <2>3. Min(run.page) \in run.page
      BY <2>2, MinOfKeys
    <2>4. k = Min(run.page)
      BY <1>1, <2>2 DEF IInv, TypeOK
    <2> QED BY <1>1, <2>3, <2>4 DEF IInv, Listed
  <1>2. IInv /\ [Next]_vars =>
            [\A k \in Key : (DeleteNext /\ written[k] # Nil /\ written'[k] = Nil) =>
                k \in run.asked /\ (written[k] < now \/ k \in run.rewritten)]_vars
    BY <1>1
  <1> QED BY <1>2, Invariance, PTL DEF Spec, DeletesAreAsked
=============================================================================

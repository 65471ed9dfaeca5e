--------------------------- MODULE DispatchProofs ---------------------------
(***************************************************************************)
(* The inductive invariant of Tables: the properties themselves, and what  *)
(* a request that has read a row knows of it (Loaded): the columns nobody  *)
(* has named since are still those it read, and what it read of a channel  *)
(* was valid.                                                              *)
(***************************************************************************)
EXTENDS Dispatch, TLAPS

AnyRow    == LifecycleRow \cup RuleRow \cup ChannelRow
AnyColumn == {"enabled", "days", "channel_ids", "channel_type", "config"}

Shapes ==
    /\ rows \in [Id -> AnyRow \cup {Nil, Gone}]
    /\ asked \in [Id -> AnyRow \cup {Nil}]
    /\ doubt \in [Id -> SUBSET AnyColumn]
    /\ run \in [Worker -> [id : Id \cup {Nil}, row : AnyRow \cup {Nil, Gone}, over : SUBSET AnyColumn]]

Sound(id, row) == id \in Channel => ValidChannel(row.channel_type, row.config)

\* What a request knows of the row it has read.
Knows(w) ==
    LET id == run[w].id IN
    /\ id \in Id
    /\ rows[id] # Nil
    /\ run[w].row \in Row(id)
    /\ Sound(id, run[w].row)
    /\ Exists(id) => \A c \in Column(id) \ run[w].over : run[w].row[c] = rows[id][c]

Loaded == \A w \in Worker : pc[w] = "loaded" => Knows(w)

Asked == \A id \in Id : Exists(id) => asked[id] \in Row(id)

IInv == Shapes /\ TypeOK /\ Loaded /\ Asked /\ AskedIsStored /\ ChannelsAreValid

-----------------------------------------------------------------------------
(***************************************************************************)
(* Merging                                                                 *)
(***************************************************************************)
\* A patch whose columns, where it names them, are values of the table.
Fits(id, patch) ==
    /\ id \in LifecycleRule => patch \in LifecyclePatch /\ ValidDays(patch.days)
    /\ id \in AlertRule => patch \in RulePatch
    /\ id \in Channel => patch \in ChannelPatch

\* Rows of a table are merged into rows of that table.
LEMMA MergeIsRow ==
  ASSUME NEW id \in Id, NEW row \in Row(id), NEW patch, Fits(id, patch)
  PROVE  Merge(id, row, patch) \in Row(id)
  <1>1. CASE id \in LifecycleRule
    BY <1>1, TablesAssumption
    DEF Fits, Row, Column, Merge, LifecycleRow, LifecyclePatch, ValidDays
  <1>2. CASE id \in AlertRule
    BY <1>2, TablesAssumption DEF Fits, Row, Column, Merge, RuleRow, RulePatch
  <1>3. CASE id \in Channel
    BY <1>3, TablesAssumption DEF Fits, Row, Column, Merge, ChannelRow, ChannelPatch
  <1> QED BY <1>1, <1>2, <1>3 DEF Id

LEMMA RowsAreAny == \A id \in Id : Row(id) \subseteq AnyRow
  BY DEF Row, AnyRow, Id

LEMMA ColumnsAreAny == \A id : Column(id) \subseteq AnyColumn
  BY DEF Column, AnyColumn

-----------------------------------------------------------------------------
\* Init establishes the invariant.
LEMMA InitIInv == Init => IInv
  BY TablesAssumption
  DEF Init, IInv, Shapes, TypeOK, Loaded, Asked, AskedIsStored, ChannelsAreValid, Exists, Blank, Id

\* A request that reads a row, or ends, leaves the tables alone.
LEMMA GoOnIInv ==
  ASSUME IInv, NEW w \in Worker, NEW r, NEW next, GoOn(w, next, r), UNCHANGED data,
         next \in {"idle", "loaded", "answer", "panicked"},
         r \in [id : Id \cup {Nil}, row : AnyRow \cup {Nil, Gone}, over : SUBSET AnyColumn],
         r.over = {},
         next = "loaded" => /\ r.id \in Id
                            /\ rows[r.id] \notin {Nil, Gone}
                            /\ r.row = rows[r.id]
  PROVE  IInv'
  <1>1. Shapes'
    BY DEF IInv, Shapes, GoOn, data
  <1>2. next = "loaded" => r.row \in Row(r.id) /\ Sound(r.id, r.row)
    BY DEF IInv, TypeOK, ChannelsAreValid, Sound, Exists
  <1>3. \A v \in Worker : v # w => pc'[v] = pc[v] /\ run'[v] = run[v]
    BY DEF GoOn, IInv, Shapes, TypeOK
  <1>4. pc'[w] = next /\ run'[w] = r
    BY DEF GoOn, IInv, Shapes, TypeOK
  <1>5. TypeOK'
    <2>1. \A id \in Id : /\ rows'[id] \in Row(id) \cup {Nil, Gone}
                         /\ asked'[id] \in Row(id) \cup {Nil}
                         /\ doubt'[id] \subseteq Column(id)
      BY DEF IInv, TypeOK, data
    <2>2. pc' \in [Worker -> {"idle", "loaded", "answer", "panicked"}]
      BY DEF GoOn, IInv, TypeOK
    <2>3. \A v \in Worker : /\ run'[v].id \in Id \cup {Nil}
                            /\ pc'[v] = "loaded" => run'[v].row \in Row(run'[v].id)
                            /\ run'[v].over \subseteq Column(run'[v].id)
      BY <1>2, <1>3, <1>4 DEF IInv, TypeOK
    <2> QED BY <2>1, <2>2, <2>3 DEF TypeOK
  <1>6. Loaded'
    <2> SUFFICES ASSUME NEW v \in Worker, pc'[v] = "loaded" PROVE Knows(v)'
      BY DEF Loaded
    <2>1. CASE v = w
      BY <2>1, <1>2, <1>4 DEF Knows, Exists, data, Sound
    <2>2. CASE v # w
      BY <2>2, <1>3 DEF IInv, Loaded, Knows, Exists, data, Sound
    <2> QED BY <2>1, <2>2
  <1>7. Asked' /\ AskedIsStored' /\ ChannelsAreValid'
    BY DEF IInv, Asked, AskedIsStored, ChannelsAreValid, Exists, data
  <1> QED BY <1>1, <1>5, <1>6, <1>7 DEF IInv

\* Blank is what a request that has ended keeps.
LEMMA BlankFits ==
  /\ Blank \in [id : Id \cup {Nil}, row : AnyRow \cup {Nil, Gone}, over : SUBSET AnyColumn]
  /\ Blank.over = {}
  BY DEF Blank

LEMMA LoadIInv ==
  ASSUME IInv, NEW w \in Worker, NEW ids \in SUBSET Id, Load(w, ids)
  PROVE  IInv'
  <1>1. PICK id \in ids : Exists(id) /\ GoOn(w, "loaded", [Blank EXCEPT !.id = id, !.row = rows[id]])
    BY DEF Load
  <1> DEFINE r == [Blank EXCEPT !.id = id, !.row = rows[id]]
  <1>2. /\ r.id = id /\ r.row = rows[id] /\ r.over = {}
        /\ r \in [id : Id \cup {Nil}, row : AnyRow \cup {Nil, Gone}, over : SUBSET AnyColumn]
    BY <1>1 DEF Blank, IInv, Shapes
  <1> HIDE DEF r
  <1>3. GoOn(w, "loaded", r)
    BY <1>1 DEF r
  <1>4. UNCHANGED data
    BY DEF Load
  <1> QED BY <1>1, <1>2, <1>3, <1>4, GoOnIInv DEF Exists

LEMMA FinishIInv ==
  ASSUME IInv, NEW w \in Worker, Finish(w), UNCHANGED data
  PROVE  IInv'
  BY GoOnIInv, BlankFits DEF Finish

LEMMA EndsIInv ==
  ASSUME IInv, NEW w \in Worker, Ends(w)
  PROVE  IInv'
  <1>1. UNCHANGED data
    BY DEF Ends, Refuse, Answer, Recover
  <1>2. CASE Finish(w)
    BY <1>1, <1>2, FinishIInv
  <1>3. CASE GoOn(w, "panicked", Blank)
    BY <1>1, <1>3, GoOnIInv, BlankFits
  <1> QED BY <1>2, <1>3 DEF Ends, Refuse, Answer, Recover

\* A row that is gone, or was never there, stays as it is; one that is there
\* becomes the merged row.
LEMMA UpdateIInv ==
  ASSUME IInv, NEW w \in Worker, pc[w] = "loaded", NEW patch, Fits(run[w].id, patch),
         run[w].id \in Channel => /\ patch.channel_type = Absent
                                  /\ patch.config # Absent =>
                                         ValidChannel(run[w].row.channel_type, patch.config),
         Update(w, patch)
  PROVE  IInv'
  <1> DEFINE id     == run[w].id
             named  == Named(id, patch)
             over   == run[w].over
             merged == Merge(id, run[w].row, patch)
  <1>1. Knows(w) /\ id \in Id
    BY DEF IInv, Loaded, Knows
  <1>2. over \subseteq Column(id) /\ named \subseteq Column(id) /\ Column(id) \subseteq AnyColumn
    BY ColumnsAreAny DEF IInv, TypeOK, Named
  <1>3. merged \in Row(id) /\ merged \in AnyRow /\ merged \notin {Nil, Gone}
    BY <1>1, MergeIsRow, RowsAreAny, TablesAssumption DEF Knows
  <1>4. Sound(id, merged)
    BY <1>1, TablesAssumption DEF Knows, Sound, Merge, Column, Id
  <1>5. \A c \in Column(id) : merged[c] = IF c \in named THEN patch[c] ELSE run[w].row[c]
    BY DEF Merge, Named
  <1>6. PICK next \in {"answer", "idle"} :
          /\ pc' = [pc EXCEPT ![w] = next]
          /\ run' = [v \in Worker |->
                        IF v = w THEN IF next = "idle" THEN Blank ELSE [Blank EXCEPT !.id = id]
                        ELSE IF run[v].id = id THEN [run[v] EXCEPT !.over = @ \cup named \cup over]
                        ELSE run[v]]
    BY DEF Update
  <1>7. \A v \in Worker \ {w} : /\ pc'[v] = pc[v]
                                /\ run'[v].id = run[v].id /\ run'[v].row = run[v].row
                                /\ run'[v].over = IF run[v].id = id THEN run[v].over \cup named \cup over
                                                  ELSE run[v].over
    BY <1>6 DEF IInv, TypeOK, Shapes
  <1>8. pc'[w] = next /\ run'[w].id \in {id, Nil} /\ run'[w].row = Nil /\ run'[w].over = {}
    BY <1>6 DEF IInv, TypeOK, Blank
  <1>9. run' \in [Worker -> [id : Id \cup {Nil}, row : AnyRow \cup {Nil, Gone}, over : SUBSET AnyColumn]]
    BY <1>1, <1>2, <1>6 DEF IInv, Shapes, Blank
  <1>10. pc' \in [Worker -> {"idle", "loaded", "answer", "panicked"}]
    BY <1>6 DEF IInv, TypeOK
  <1>11. \A v \in Worker : /\ run'[v].id \in Id \cup {Nil}
                           /\ pc'[v] = "loaded" => run'[v].row \in Row(run'[v].id)
                           /\ run'[v].over \subseteq Column(run'[v].id)
    BY <1>1, <1>2, <1>6, <1>7, <1>8 DEF IInv, TypeOK
  <1>12. CASE ~Exists(id)
    <2>1. UNCHANGED data
      BY <1>12 DEF Update
    <2>2. Loaded'
      <3> SUFFICES ASSUME NEW v \in Worker, pc'[v] = "loaded" PROVE Knows(v)'
        BY DEF Loaded
      <3>1. v # w
        BY <1>8
      <3>2. Knows(v)
        BY <3>1, <1>7 DEF IInv, Loaded
      <3> QED BY <2>1, <3>1, <3>2, <1>7 DEF Knows, Exists, data, Sound
    <2>3. Shapes' /\ TypeOK'
      BY <2>1, <1>9, <1>10, <1>11 DEF IInv, Shapes, TypeOK, data
    <2>4. Asked' /\ AskedIsStored' /\ ChannelsAreValid'
      BY <2>1 DEF IInv, Asked, AskedIsStored, ChannelsAreValid, Exists, data
    <2> QED BY <2>2, <2>3, <2>4 DEF IInv
  <1>13. CASE Exists(id)
    <2> DEFINE wanted == [c \in Column(id) |-> IF c \in named THEN patch[c] ELSE asked[id][c]]
    <2>1. /\ rows' = [rows EXCEPT ![id] = merged]
          /\ asked' = [asked EXCEPT ![id] = wanted]
          /\ doubt' = [doubt EXCEPT ![id] = (doubt[id] \cup over) \ named]
      BY <1>13 DEF Update
    <2>2. wanted = Merge(id, asked[id], patch)
      BY DEF Merge, Named
    <2>3. wanted \in Row(id) /\ wanted \in AnyRow
      BY <1>1, <1>13, <2>2, MergeIsRow, RowsAreAny DEF IInv, Asked
    <2>4. \A c \in Column(id) : wanted[c] = IF c \in named THEN patch[c] ELSE asked[id][c]
      OBVIOUS
    <2> HIDE DEF merged, wanted, id, named, over
    <2>5. /\ rows'[id] = merged /\ asked'[id] = wanted
          /\ doubt'[id] = (doubt[id] \cup over) \ named
          /\ \A i \in Id \ {id} : rows'[i] = rows[i] /\ asked'[i] = asked[i] /\ doubt'[i] = doubt[i]
      BY <1>1, <2>1 DEF IInv, Shapes
    <2>6. Shapes'
      BY <1>2, <1>3, <1>9, <2>1, <2>3 DEF IInv, Shapes
    <2>7. TypeOK'
      <3>1. \A i \in Id : /\ rows'[i] \in Row(i) \cup {Nil, Gone}
                          /\ asked'[i] \in Row(i) \cup {Nil}
                          /\ doubt'[i] \subseteq Column(i)
        BY <1>2, <1>3, <2>3, <2>5 DEF IInv, TypeOK
      <3> QED BY <3>1, <1>10, <1>11 DEF TypeOK
    <2>8. Loaded'
      <3> SUFFICES ASSUME NEW v \in Worker, pc'[v] = "loaded" PROVE Knows(v)'
        BY DEF Loaded
      <3>1. v # w
        BY <1>8
      <3>2. Knows(v)
        BY <3>1, <1>7 DEF IInv, Loaded
      <3> DEFINE i == run[v].id
      <3>3. run'[v].id = i /\ run'[v].row = run[v].row
        BY <3>1, <1>7
      <3>4. i \in Id /\ run[v].row \in Row(i) /\ Sound(i, run[v].row) /\ rows[i] # Nil
        BY <3>2 DEF Knows
      <3>5. \A c \in Column(i) \ run'[v].over :
              rows'[i] \notin {Nil, Gone} => run[v].row[c] = rows'[i][c]
        <4>1. CASE i # id
          BY <3>1, <3>2, <3>4, <4>1, <1>7, <2>5 DEF Knows, Exists
        <4>2. CASE i = id
          <5> SUFFICES ASSUME NEW c \in Column(id), c \notin run'[v].over
                       PROVE  run[v].row[c] = merged[c]
            BY <4>2, <2>5
          <5>1. c \notin run[v].over /\ c \notin named /\ c \notin over
            BY <3>1, <4>2, <1>7
          <5>2. run[v].row[c] = rows[id][c]
            BY <3>2, <4>2, <5>1, <1>13 DEF Knows
          <5>3. run[w].row[c] = rows[id][c]
            BY <1>1, <5>1, <1>13 DEF Knows, id, over
          <5> QED BY <5>1, <5>2, <5>3, <1>5
        <4> QED BY <4>1, <4>2
      <3>6. rows'[i] # Nil
        BY <3>4, <1>3, <2>5
      <3> QED BY <3>3, <3>4, <3>5, <3>6 DEF Knows, Exists, Sound
    <2>9. Asked'
      BY <2>3, <2>5 DEF IInv, Asked, Exists
    <2>10. AskedIsStored'
      <3> SUFFICES ASSUME NEW i \in Id, Exists(i)', NEW c \in Column(i), c \notin doubt'[i]
                   PROVE  rows'[i][c] = asked'[i][c]
        BY DEF AskedIsStored
      <3>1. CASE i # id
        BY <3>1, <2>5 DEF IInv, AskedIsStored, Exists
      <3>2. CASE i = id /\ c \in named
        BY <3>2, <1>5, <2>4, <2>5
      <3>3. CASE i = id /\ c \notin named
        <4>1. c \notin doubt[id] /\ c \notin over
          BY <3>3, <2>5
        <4>2. rows[id][c] = asked[id][c]
          BY <1>13, <3>3, <4>1 DEF IInv, AskedIsStored
        <4>3. run[w].row[c] = rows[id][c]
          BY <1>1, <1>13, <3>3, <4>1 DEF Knows, id, over
        <4> QED BY <3>3, <4>2, <4>3, <1>5, <2>4, <2>5
      <3> QED BY <3>1, <3>2, <3>3
    <2>11. ChannelsAreValid'
      BY <1>4, <2>5 DEF IInv, ChannelsAreValid, Exists, Sound, Id
    <2> QED BY <2>6, <2>7, <2>8, <2>9, <2>10, <2>11 DEF IInv
  <1> QED BY <1>12, <1>13

\* A new row is what was asked for, and no request has read it.
LEMMA InsertIInv ==
  ASSUME IInv, NEW w \in Worker, pc[w] = "idle", NEW ids \in SUBSET Id, NEW row,
         \A id \in ids : row \in Row(id) /\ Sound(id, row),
         Insert(w, ids, row)
  PROVE  IInv'
  <1>1. PICK id \in ids : /\ rows[id] = Nil
                          /\ rows' = [rows EXCEPT ![id] = row]
                          /\ asked' = [asked EXCEPT ![id] = row]
                          /\ doubt' = [doubt EXCEPT ![id] = {}]
                          /\ \/ GoOn(w, "answer", [Blank EXCEPT !.id = id])
                             \/ Finish(w)
    BY DEF Insert
  <1>2. row \in Row(id) /\ row \in AnyRow /\ Sound(id, row) /\ row \notin {Nil, Gone}
    BY RowsAreAny, TablesAssumption
  <1>3. PICK next \in {"answer", "idle"}, r \in {Blank, [Blank EXCEPT !.id = id]} : GoOn(w, next, r)
    BY <1>1 DEF Finish
  <1>4. /\ r.over = {} /\ r.id \in {id, Nil}
        /\ r \in [id : Id \cup {Nil}, row : AnyRow \cup {Nil, Gone}, over : SUBSET AnyColumn]
    BY <1>3 DEF Blank
  <1>5. /\ rows'[id] = row /\ asked'[id] = row /\ doubt'[id] = {}
        /\ \A i \in Id \ {id} : rows'[i] = rows[i] /\ asked'[i] = asked[i] /\ doubt'[i] = doubt[i]
    BY <1>1 DEF IInv, Shapes
  <1>6. /\ pc'[w] = next /\ run'[w] = r
        /\ \A v \in Worker \ {w} : pc'[v] = pc[v] /\ run'[v] = run[v]
    BY <1>3 DEF GoOn, IInv, Shapes, TypeOK
  <1>7. Shapes'
    BY <1>1, <1>2, <1>3, <1>4 DEF IInv, Shapes, GoOn
  <1>8. TypeOK'
    <2>1. \A i \in Id : /\ rows'[i] \in Row(i) \cup {Nil, Gone}
                        /\ asked'[i] \in Row(i) \cup {Nil}
                        /\ doubt'[i] \subseteq Column(i)
      BY <1>2, <1>5 DEF IInv, TypeOK
    <2>2. pc' \in [Worker -> {"idle", "loaded", "answer", "panicked"}]
      BY <1>3 DEF GoOn, IInv, TypeOK
    <2>3. \A v \in Worker : /\ run'[v].id \in Id \cup {Nil}
                            /\ pc'[v] = "loaded" => run'[v].row \in Row(run'[v].id)
                            /\ run'[v].over \subseteq Column(run'[v].id)
      BY <1>4, <1>6 DEF IInv, TypeOK
    <2> QED BY <2>1, <2>2, <2>3 DEF TypeOK
  <1>9. Loaded'
    <2> SUFFICES ASSUME NEW v \in Worker, pc'[v] = "loaded" PROVE Knows(v)'
      BY DEF Loaded
    <2>1. v # w /\ Knows(v)
      BY <1>6 DEF IInv, Loaded
    <2>2. run[v].id # id
      BY <1>1, <2>1 DEF Knows
    <2> QED BY <2>1, <2>2, <1>5, <1>6 DEF Knows, Exists, Sound
  <1>10. Asked' /\ AskedIsStored' /\ ChannelsAreValid'
    BY <1>2, <1>5 DEF IInv, Asked, AskedIsStored, ChannelsAreValid, Exists, Sound, Id
  <1> QED BY <1>7, <1>8, <1>9, <1>10 DEF IInv

LEMMA DeleteIInv ==
  ASSUME IInv, NEW w \in Worker, NEW ids \in SUBSET Id, Delete(w, ids)
  PROVE  IInv'
  <1>1. PICK id \in ids : /\ rows' = [rows EXCEPT ![id] = Gone]
                          /\ asked' = [asked EXCEPT ![id] = Nil]
                          /\ doubt' = [doubt EXCEPT ![id] = {}]
    BY DEF Delete
  <1>2. UNCHANGED <<pc, run>>
    BY DEF Delete
  <1>3. /\ rows'[id] = Gone /\ asked'[id] = Nil /\ doubt'[id] = {}
        /\ \A i \in Id \ {id} : rows'[i] = rows[i] /\ asked'[i] = asked[i] /\ doubt'[i] = doubt[i]
    BY <1>1 DEF IInv, Shapes
  <1>4. Shapes'
    BY <1>1, <1>2 DEF IInv, Shapes
  <1>5. TypeOK'
    BY <1>2, <1>3 DEF IInv, TypeOK
  <1>6. Loaded'
    BY <1>2, <1>3, TablesAssumption DEF IInv, Loaded, Knows, Exists, Sound
  <1>7. Asked' /\ AskedIsStored' /\ ChannelsAreValid'
    BY <1>3 DEF IInv, Asked, AskedIsStored, ChannelsAreValid, Exists, Id
  <1> QED BY <1>4, <1>5, <1>6, <1>7 DEF IInv
-----------------------------------------------------------------------------
(***************************************************************************)
(* The steps, one lemma for each table                                     *)
(***************************************************************************)
LEMMA LifecyclesIInv ==
  ASSUME IInv, NEW w \in Worker, Lifecycles(w)
  PROVE  IInv'
  <1> LifecycleRule \in SUBSET Id
    BY DEF Id
  <1>1. CASE CreateLifecycle(w)
    <2>1. PICK row \in LifecycleRow : Insert(w, LifecycleRule, row)
      BY <1>1 DEF CreateLifecycle
    <2>2. pc[w] = "idle"
      BY <1>1 DEF CreateLifecycle
    <2>3. \A id \in LifecycleRule : row \in Row(id) /\ Sound(id, row)
      BY TablesAssumption DEF Row, Sound
    <2> QED BY <2>1, <2>2, <2>3, InsertIInv
  <1>2. CASE LoadLifecycle(w)
    BY <1>2, LoadIInv DEF LoadLifecycle
  <1>3. CASE UpdateLifecycle(w)
    <2>1. PICK patch \in LifecyclePatch : ValidDays(patch.days) /\ Update(w, patch)
      BY <1>3 DEF UpdateLifecycle
    <2>2. pc[w] = "loaded" /\ run[w].id \in LifecycleRule
      BY <1>3 DEF UpdateLifecycle
    <2>3. run[w].id \notin AlertRule /\ run[w].id \notin Channel
      BY <2>2, TablesAssumption
    <2>4. Fits(run[w].id, patch)
      BY <2>1, <2>3 DEF Fits
    <2> QED BY <2>1, <2>2, <2>3, <2>4, UpdateIInv
  <1>4. CASE RemoveLifecycle(w)
    BY <1>4, DeleteIInv DEF RemoveLifecycle
  <1> QED BY <1>1, <1>2, <1>3, <1>4 DEF Lifecycles

LEMMA RulesIInv ==
  ASSUME IInv, NEW w \in Worker, Rules(w)
  PROVE  IInv'
  <1> AlertRule \in SUBSET Id
    BY DEF Id
  <1>1. CASE CreateRule(w)
    <2>1. PICK row \in RuleRow : Insert(w, AlertRule, row)
      BY <1>1 DEF CreateRule
    <2>2. pc[w] = "idle"
      BY <1>1 DEF CreateRule
    <2>3. \A id \in AlertRule : row \in Row(id) /\ Sound(id, row)
      BY TablesAssumption DEF Row, Sound
    <2> QED BY <2>1, <2>2, <2>3, InsertIInv
  <1>2. CASE LoadRule(w)
    BY <1>2, LoadIInv DEF LoadRule
  <1>3. CASE UpdateRule(w)
    <2>1. PICK patch \in RulePatch : Update(w, patch)
      BY <1>3 DEF UpdateRule
    <2>2. pc[w] = "loaded" /\ run[w].id \in AlertRule
      BY <1>3 DEF UpdateRule
    <2>3. run[w].id \notin LifecycleRule /\ run[w].id \notin Channel
      BY <2>2, TablesAssumption
    <2>4. Fits(run[w].id, patch)
      BY <2>1, <2>3 DEF Fits
    <2> QED BY <2>1, <2>2, <2>3, <2>4, UpdateIInv
  <1>4. CASE RemoveRule(w)
    BY <1>4, DeleteIInv DEF RemoveRule
  <1> QED BY <1>1, <1>2, <1>3, <1>4 DEF Rules

\* An update of a channel leaves out the type its body names.
LEMMA TakenFits ==
  ASSUME NEW patch \in ChannelPatch
  PROVE  /\ Taken(patch) \in ChannelPatch
         /\ Taken(patch).channel_type = Absent
         /\ Taken(patch).config = patch.config
  BY DEF Taken, ChannelPatch

LEMMA ChannelsIInv ==
  ASSUME IInv, NEW w \in Worker, Channels(w)
  PROVE  IInv'
  <1> Channel \in SUBSET Id
    BY DEF Id
  <1>1. CASE CreateChannel(w)
    <2>1. PICK row \in ChannelRow : /\ ValidChannel(row.channel_type, row.config)
                                    /\ Insert(w, Channel, row)
      BY <1>1 DEF CreateChannel
    <2>2. pc[w] = "idle"
      BY <1>1 DEF CreateChannel
    <2>3. \A id \in Channel : row \in Row(id) /\ Sound(id, row)
      BY <2>1, TablesAssumption DEF Row, Sound
    <2> QED BY <2>1, <2>2, <2>3, InsertIInv
  <1>2. CASE LoadChannel(w)
    BY <1>2, LoadIInv DEF LoadChannel
  <1>3. CASE UpdateChannel(w)
    <2>1. PICK patch \in ChannelPatch :
            /\ patch.config # Absent => ValidChannel(TypeOfUpdate(w, patch), patch.config)
            /\ Update(w, Taken(patch))
      BY <1>3 DEF UpdateChannel
    <2>2. pc[w] = "loaded" /\ run[w].id \in Channel
      BY <1>3 DEF UpdateChannel
    <2>3. run[w].id \notin LifecycleRule /\ run[w].id \notin AlertRule
      BY <2>2, TablesAssumption
    <2> DEFINE taken == Taken(patch)
    <2>4. /\ Fits(run[w].id, taken)
          /\ taken.channel_type = Absent
          /\ taken.config # Absent => ValidChannel(run[w].row.channel_type, taken.config)
      BY <2>1, <2>3, TakenFits DEF Fits, TypeOfUpdate
    <2>5. Update(w, taken)
      BY <2>1
    <2> HIDE DEF taken
    <2> QED BY <2>2, <2>4, <2>5, UpdateIInv
  <1>4. CASE RemoveChannel(w)
    BY <1>4, DeleteIInv DEF RemoveChannel
  <1> QED BY <1>1, <1>2, <1>3, <1>4 DEF Channels

LEMMA StepIInv == IInv /\ [Next]_vars => IInv'
  <1> SUFFICES ASSUME IInv, [Next]_vars PROVE IInv'
    OBVIOUS
  <1>1. ASSUME NEW w \in Worker, Lifecycles(w) \/ Rules(w) \/ Channels(w) \/ Ends(w)
        PROVE  IInv'
    BY <1>1, LifecyclesIInv, RulesIInv, ChannelsIInv, EndsIInv
  <1>2. CASE UNCHANGED vars
    <2>1. Shapes' /\ TypeOK'
      BY <1>2 DEF IInv, Shapes, TypeOK, vars, data
    <2>2. Loaded' /\ Asked'
      BY <1>2 DEF IInv, Loaded, Knows, Asked, Exists, Sound, vars, data
    <2>3. AskedIsStored' /\ ChannelsAreValid'
      BY <1>2 DEF IInv, AskedIsStored, ChannelsAreValid, Exists, vars, data
    <2> QED BY <2>1, <2>2, <2>3 DEF IInv
  <1> QED BY <1>1, <1>2 DEF Next

-----------------------------------------------------------------------------
(***************************************************************************)
(* Theorems                                                                *)
(***************************************************************************)
\* The invariant holds, whatever requests overlap.
THEOREM Invariance == Spec => []IInv
  BY InitIInv, StepIInv, PTL DEF Spec

\* Every variable of the three handlers keeps its type; in particular a column
\* of days never holds a number below 1 (internal/lifecycle/validate.go:12).
THEOREM TypeCorrect == Spec => []TypeOK
  <1>1. IInv => TypeOK
    BY DEF IInv
  <1> QED BY <1>1, Invariance, PTL

\* With any number of rows, columns and overlapping requests, a column holds
\* what the last request to name it asked for, unless an update that had read
\* the row before wrote it back (internal/lifecycle/handler.go:227,
\* internal/alerts/handler.go:189,298).
THEOREM AskedValuesAreStored == Spec => []AskedIsStored
  <1>1. IInv => AskedIsStored
    BY DEF IInv
  <1> QED BY <1>1, Invariance, PTL

\* With any number of channels and overlapping requests, the config of a
\* channel has the key its type calls for (internal/alerts/handler.go:298).
THEOREM ChannelsStayValid == Spec => []ChannelsAreValid
  <1>1. IInv => ChannelsAreValid
    BY DEF IInv
  <1> QED BY <1>1, Invariance, PTL

-----------------------------------------------------------------------------
(***************************************************************************)
(* What is proved of Dispatch.  Evaluations never touch the three tables,  *)
(* so what is shown of them above holds under Dispatch too.  That a quiet  *)
(* channel is sent nothing needs an invariant of its own: it is not        *)
(* enabled now, and no evaluation holds a copy of it for that event.       *)
(***************************************************************************)

\* Every step of Dispatch is a step of Tables or leaves the tables as they are.
THEOREM DispatchKeepsTables == DispatchSpec => Spec
  <1>1. DispatchInit => Init
    BY DEF DispatchInit
  <1>2. [DispatchNext]_<<vars, dispatch>> => [Next]_vars
    BY DEF DispatchNext, Edit
  <1> QED BY <1>1, <1>2, PTL DEF DispatchSpec, Spec

\* Under Dispatch too, a column holds what the last request to name it asked
\* for unless an overlapping update wrote it back, and channels stay valid
\* (internal/lifecycle/handler.go:227, internal/alerts/handler.go:189,298).
THEOREM TablesUnderDispatch == DispatchSpec => [](AskedIsStored /\ ChannelsAreValid)
  BY DispatchKeepsTables, AskedValuesAreStored, ChannelsStayValid, PTL

-----------------------------------------------------------------------------
(***************************************************************************)
(* The inductive invariant of the evaluations                              *)
(***************************************************************************)
Steps   == {"idle", "rule", "list", "send"}
Results == UNION {[S -> Outcome] : S \in SUBSET Channel}
Local   == [rule : AlertRule \cup {Nil}, ids : SUBSET Channel, event : EventId \cup {Nil},
            todo : SUBSET Copy, results : Results]

DispatchShapes ==
    /\ got \in [EventId -> [Channel -> Nat]]
    /\ notes \in [EventId -> Results \cup {Nil}]
    /\ listed \in [EventId -> {Nil} \cup SUBSET Channel]
    /\ quiet \in [EventId -> SUBSET Channel]
    /\ step \in [Evaluator -> Steps]
    /\ loc \in [Evaluator -> Local]

Busy(e) == step[e] \in {"list", "send"}

\* An event that was not fired has nothing.
Fresh ==
    \A v \in EventId : listed[v] = Nil => notes[v] = Nil /\ \A ch \in Channel : got[v][ch] = 0

\* An evaluation that lists or sends has fired its event, and nobody else has it.
Owns ==
    \A e \in Evaluator : Busy(e) =>
        /\ loc[e].event \in EventId
        /\ listed[loc[e].event] # Nil
        /\ notes[loc[e].event] = Nil
        /\ \A d \in Evaluator : Busy(d) /\ loc[d].event = loc[e].event => d = e

\* Before it sends, an evaluation has no results and its event was sent to nobody.
Before ==
    \A e \in Evaluator :
        /\ step[e] \in {"rule", "list"} => loc[e].results = NoResults
        /\ step[e] = "list" => \A ch \in Channel : got[loc[e].event][ch] = 0

\* While it sends: every channel that was listed is still to be sent to, once,
\* or has a result, and the results are the truth.
Sends(e) ==
    LET v       == loc[e].event
        todo    == loc[e].todo
        results == loc[e].results
    IN  /\ \A c1, c2 \in todo : c1.id = c2.id => c1 = c2
        /\ \A ch \in Channel :
             ch \in listed[v] <=> ch \in DOMAIN results \/ \E copy \in todo : copy.id = ch
        /\ \A copy \in todo : copy.id \notin DOMAIN results /\ copy.id \notin quiet[v]
        /\ \A ch \in Channel : got[v][ch] = 1 => ch \in DOMAIN results
        /\ \A ch \in DOMAIN results : /\ results[ch] = "sent" => got[v][ch] = 1
                                      /\ results[ch] = "queued" => got[v][ch] = 0

Sending == \A e \in Evaluator : step[e] = "send" => Sends(e)

\* A quiet channel is not enabled.
QuietIsOff == \A v \in EventId : \A ch \in quiet[v] : ~Enabled(ch)

DInv ==
    /\ DispatchShapes
    /\ Fresh
    /\ Owns
    /\ Before
    /\ Sending
    /\ NotesAreTrue
    /\ QuietIsOff
    /\ QuietGetsNothing

-----------------------------------------------------------------------------
LEMMA NoResultsFits == NoResults \in Results /\ DOMAIN NoResults = {}
  BY DEF NoResults, Results

LEMMA BlankLocalFits == EvBlank \in Local /\ EvBlank.results = NoResults
  BY NoResultsFits DEF EvBlank, Local

LEMMA InitDInv == DispatchInit => DInv
  BY BlankLocalFits, DispatchAssumption
  DEF DispatchInit, DInv, DispatchShapes, Fresh, Owns, Before, Sending, NotesAreTrue,
      QuietIsOff, QuietGetsNothing, Busy, Steps

\* What a step of one evaluation leaves of the others.
LEMMA ProceedIs ==
  ASSUME DispatchShapes, NEW e \in Evaluator, NEW next \in Steps, NEW l \in Local,
         Proceed(e, next, l)
  PROVE  /\ step'[e] = next /\ loc'[e] = l
         /\ \A d \in Evaluator \ {e} : step'[d] = step[d] /\ loc'[d] = loc[d]
         /\ step' \in [Evaluator -> Steps] /\ loc' \in [Evaluator -> Local]
  BY DEF Proceed, DispatchShapes

\* An evaluation that goes back to its rule, or ends, changes nothing else.
LEMMA LeaveDInv ==
  ASSUME DInv, NEW e \in Evaluator, NEW next \in {"idle", "rule"}, NEW l \in Local,
         Proceed(e, next, l), l.results = NoResults,
         UNCHANGED <<got, notes, listed, quiet>>, UNCHANGED vars
  PROVE  DInv'
  <1>1. /\ step'[e] = next /\ loc'[e] = l
        /\ \A d \in Evaluator \ {e} : step'[d] = step[d] /\ loc'[d] = loc[d]
        /\ step' \in [Evaluator -> Steps] /\ loc' \in [Evaluator -> Local]
    BY ProceedIs DEF DInv, Steps
  <1>2. DispatchShapes'
    BY <1>1 DEF DInv, DispatchShapes
  <1>3. Fresh' /\ NotesAreTrue' /\ QuietGetsNothing'
    BY DEF DInv, Fresh, NotesAreTrue, QuietGetsNothing
  <1>4. Owns'
    BY <1>1 DEF DInv, Owns, Busy
  <1>5. Before'
    BY <1>1 DEF DInv, Before
  <1>6. Sending'
    BY <1>1 DEF DInv, Sending, Sends
  <1>7. QuietIsOff'
    BY DEF DInv, QuietIsOff, Enabled, Exists, vars, data
  <1> QED BY <1>2, <1>3, <1>4, <1>5, <1>6, <1>7 DEF DInv

LEMMA FireDInv ==
  ASSUME DInv, NEW e \in Evaluator, Fire(e), UNCHANGED vars
  PROVE  DInv'
  <1>1. PICK v \in EventId :
          /\ listed[v] = Nil
          /\ listed' = [listed EXCEPT ![v] = {}]
          /\ quiet' = [quiet EXCEPT ![v] = {ch \in Channel : ~Enabled(ch)}]
          /\ Proceed(e, IF loc[e].ids = {} THEN "rule" ELSE "list", [loc[e] EXCEPT !.event = v])
    BY DEF Fire
  <1> DEFINE next == IF loc[e].ids = {} THEN "rule" ELSE "list"
             l    == [loc[e] EXCEPT !.event = v]
  <1>2. l \in Local /\ l.event = v /\ l.results = loc[e].results /\ next \in {"rule", "list"}
    BY DEF DInv, DispatchShapes, Local
  <1>3. step[e] = "rule" /\ UNCHANGED <<got, notes>>
    BY DEF Fire
  <1>4. Proceed(e, next, l)
    BY <1>1
  <1> HIDE DEF next, l
  <1>5. /\ step'[e] = next /\ loc'[e] = l
        /\ \A d \in Evaluator \ {e} : step'[d] = step[d] /\ loc'[d] = loc[d]
        /\ step' \in [Evaluator -> Steps] /\ loc' \in [Evaluator -> Local]
    BY <1>2, <1>4, ProceedIs DEF DInv, Steps
  <1>6. /\ listed'[v] = {} /\ quiet'[v] = {ch \in Channel : ~Enabled(ch)}
        /\ \A u \in EventId \ {v} : listed'[u] = listed[u] /\ quiet'[u] = quiet[u]
    BY <1>1 DEF DInv, DispatchShapes
  <1>7. notes[v] = Nil /\ \A ch \in Channel : got[v][ch] = 0
    BY <1>1 DEF DInv, Fresh
  <1>8. {} # Nil
    BY DispatchAssumption
  <1>9. \A d \in Evaluator : Busy(d) => loc[d].event \in EventId \ {v}
    BY <1>1 DEF DInv, Owns
  <1>10. DispatchShapes'
    BY <1>1, <1>3, <1>5 DEF DInv, DispatchShapes
  <1>11. Fresh'
    BY <1>3, <1>6, <1>8 DEF DInv, Fresh
  <1>12. Owns'
    <2> SUFFICES ASSUME NEW d \in Evaluator, Busy(d)'
                 PROVE  /\ loc'[d].event \in EventId
                        /\ listed'[loc'[d].event] # Nil
                        /\ notes'[loc'[d].event] = Nil
                        /\ \A c \in Evaluator : Busy(c)' /\ loc'[c].event = loc'[d].event => c = d
      BY DEF Owns
    <2>1. CASE d = e
      BY <2>1, <1>2, <1>3, <1>5, <1>6, <1>7, <1>8, <1>9 DEF Busy
    <2>2. CASE d # e
      <3>1. Busy(d) /\ loc'[d] = loc[d]
        BY <2>2, <1>5 DEF Busy
      <3>2. /\ loc[d].event \in EventId \ {v} /\ listed[loc[d].event] # Nil
            /\ notes[loc[d].event] = Nil
            /\ \A c \in Evaluator : Busy(c) /\ loc[c].event = loc[d].event => c = d
        BY <3>1, <1>9 DEF DInv, Owns
      <3> QED BY <3>1, <3>2, <1>2, <1>3, <1>5, <1>6 DEF Busy
    <2> QED BY <2>1, <2>2
  <1>13. Before'
    BY <1>2, <1>3, <1>5, <1>7 DEF DInv, Before
  <1>14. Sending'
    <2> SUFFICES ASSUME NEW d \in Evaluator, step'[d] = "send" PROVE Sends(d)'
      BY DEF Sending
    <2>1. d # e /\ step[d] = "send" /\ loc'[d] = loc[d]
      BY <1>2, <1>5
    <2>2. Sends(d) /\ loc[d].event \in EventId \ {v}
      BY <2>1, <1>9 DEF DInv, Sending, Busy
    <2> QED BY <2>1, <2>2, <1>3, <1>6 DEF Sends
  <1>15. NotesAreTrue'
    BY <1>3, <1>6, <1>7 DEF DInv, NotesAreTrue
  <1>16. QuietIsOff'
    BY <1>6 DEF DInv, QuietIsOff, Enabled, Exists, vars, data
  <1>17. QuietGetsNothing'
    BY <1>3, <1>6, <1>7 DEF DInv, QuietGetsNothing
  <1> QED BY <1>10, <1>11, <1>12, <1>13, <1>14, <1>15, <1>16, <1>17 DEF DInv

LEMMA ListDInv ==
  ASSUME DInv, TypeOK, NEW e \in Evaluator, ListChannels(e), UNCHANGED vars
  PROVE  DInv'
  <1> DEFINE v     == loc[e].event
             chans == Listed(loc[e].ids)
             todo  == {[id |-> ch, type |-> rows[ch].channel_type, config |-> rows[ch].config] :
                          ch \in chans}
             l     == [loc[e] EXCEPT !.todo = todo]
  <1>1. step[e] = "list" /\ UNCHANGED <<got, notes, quiet>>
    BY DEF ListChannels
  <1>2. CASE Proceed(e, "rule", loc[e]) /\ UNCHANGED listed
    <2>1. loc[e] \in Local /\ loc[e].results = NoResults
      BY <1>1 DEF DInv, DispatchShapes, Before
    <2> QED BY <1>1, <1>2, <2>1, LeaveDInv
  <1>3. CASE listed' = [listed EXCEPT ![v] = chans] /\ Proceed(e, "send", l)
    <2>1. chans \subseteq Channel /\ (\A ch \in chans : Enabled(ch)) /\ v \in EventId
      BY <1>1 DEF DInv, DispatchShapes, Local, Listed, Owns, Busy
    <2>2. \A ch \in chans : rows[ch] \in ChannelRow
      BY <2>1, TablesAssumption DEF TypeOK, Enabled, Exists, Row, Id
    <2>3. todo \subseteq Copy
      BY <2>1, <2>2 DEF Copy, ChannelRow
    <2>4. /\ \A c1, c2 \in todo : c1.id = c2.id => c1 = c2
          /\ \A ch : ch \in chans <=> \E copy \in todo : copy.id = ch
      <3> DEFINE copyOf(ch) ==
                   [id |-> ch, type |-> rows[ch].channel_type, config |-> rows[ch].config]
      <3>1. \A ch : copyOf(ch).id = ch
        OBVIOUS
      <3>2. todo = {copyOf(ch) : ch \in chans}
        OBVIOUS
      <3> HIDE DEF copyOf, todo, chans
      <3> QED BY <3>1, <3>2
    <2> HIDE DEF todo
    <2>5. /\ l \in Local /\ l.event = v /\ l.todo = todo /\ l.results = NoResults
      BY <1>1, <2>3 DEF DInv, DispatchShapes, Local, Before
    <2>6. Proceed(e, "send", l)
      BY <1>3
    <2> HIDE DEF l, chans
    <2>7. /\ step'[e] = "send" /\ loc'[e] = l
          /\ \A d \in Evaluator \ {e} : step'[d] = step[d] /\ loc'[d] = loc[d]
          /\ step' \in [Evaluator -> Steps] /\ loc' \in [Evaluator -> Local]
      BY <2>5, <2>6, ProceedIs DEF DInv, Steps
    <2>8. listed'[v] = chans /\ \A u \in EventId \ {v} : listed'[u] = listed[u]
      BY <1>3, <2>1 DEF DInv, DispatchShapes
    <2>9. chans # Nil
      BY <2>1, DispatchAssumption
    <2>10. notes[v] = Nil /\ \A d \in Evaluator : Busy(d) /\ loc[d].event = v => d = e
      BY <1>1 DEF DInv, Owns, Busy
    <2>11. DispatchShapes'
      BY <1>1, <1>3, <2>1, <2>7 DEF DInv, DispatchShapes
    <2>12. Fresh'
      BY <1>1, <2>8, <2>9 DEF DInv, Fresh
    <2>13. Owns'
      BY <1>1, <2>5, <2>7, <2>8, <2>9 DEF DInv, Owns, Busy
    <2>14. Before'
      BY <1>1, <2>7 DEF DInv, Before
    <2>15. Sending'
      <3> SUFFICES ASSUME NEW d \in Evaluator, step'[d] = "send" PROVE Sends(d)'
        BY DEF Sending
      <3>1. CASE d = e
        <4>1. \A ch \in Channel : got[v][ch] = 0
          BY <1>1 DEF DInv, Before
        <4>2. \A copy \in todo : copy.id \notin quiet[v]
          BY <2>1, <2>4 DEF DInv, QuietIsOff
        <4>3. DOMAIN NoResults = {}
          BY NoResultsFits
        <4> QED BY <3>1, <4>1, <4>2, <4>3, <1>1, <2>4, <2>5, <2>7, <2>8 DEF Sends
      <3>2. CASE d # e
        <4>1. step[d] = "send" /\ loc'[d] = loc[d]
          BY <3>2, <2>7
        <4>2. Sends(d) /\ loc[d].event \in EventId \ {v}
          BY <3>2, <4>1, <2>10 DEF DInv, Sending, Busy, Owns
        <4> QED BY <4>1, <4>2, <1>1, <2>8 DEF Sends
      <3> QED BY <3>1, <3>2
    <2>16. NotesAreTrue'
      BY <1>1, <2>8, <2>10 DEF DInv, NotesAreTrue
    <2>17. QuietIsOff' /\ QuietGetsNothing'
      BY <1>1 DEF DInv, QuietIsOff, QuietGetsNothing, Enabled, Exists, vars, data
    <2> QED BY <2>11, <2>12, <2>13, <2>14, <2>15, <2>16, <2>17 DEF DInv
  <1> QED BY <1>2, <1>3 DEF ListChannels

LEMMA SendDInv ==
  ASSUME DInv, NEW e \in Evaluator, SendChannel(e), UNCHANGED vars
  PROVE  DInv'
  <1> DEFINE v == loc[e].event
  <1>1. PICK copy \in loc[e].todo, answered \in BOOLEAN, arrives \in BOOLEAN :
          /\ answered => arrives
          /\ arrives => copy.type # "email" /\ Sendable(copy)
          /\ got' = [got EXCEPT ![v][copy.id] = IF arrives THEN got[v][copy.id] + 1
                                               ELSE got[v][copy.id]]
          /\ Proceed(e, "send", [loc[e] EXCEPT
                 !.todo = loc[e].todo \ {copy},
                 !.results = [ch \in DOMAIN loc[e].results \cup {copy.id} |->
                                 IF ch = copy.id THEN Report(copy, answered)
                                 ELSE loc[e].results[ch]]])
    BY DEF SendChannel
  <1> DEFINE results == [ch \in DOMAIN loc[e].results \cup {copy.id} |->
                            IF ch = copy.id THEN Report(copy, answered) ELSE loc[e].results[ch]]
             l       == [loc[e] EXCEPT !.todo = loc[e].todo \ {copy}, !.results = results]
  <1>2. step[e] = "send" /\ UNCHANGED <<notes, listed, quiet>>
    BY DEF SendChannel
  <1>3. v \in EventId /\ copy \in Copy /\ copy.id \in Channel /\ Sends(e)
    BY <1>2 DEF DInv, DispatchShapes, Local, Owns, Busy, Copy, Sending
  <1>4. listed[v] # Nil /\ notes[v] = Nil
        /\ \A d \in Evaluator : Busy(d) /\ loc[d].event = v => d = e
    BY <1>2 DEF DInv, Owns, Busy
  <1>5. /\ Report(copy, answered) \in Outcome
        /\ Report(copy, answered) = "sent" => arrives
        /\ Report(copy, answered) = "queued" => ~arrives
    BY <1>1 DEF Report, Outcome
  <1>6. results \in Results
    <2> DEFINE old == loc[e].results
    <2>0. old \in Results
      BY DEF DInv, DispatchShapes, Local
    <2> HIDE DEF old
    <2>1. PICK S \in SUBSET Channel : old \in [S -> Outcome]
      BY <2>0 DEF Results
    <2>2. results \in [S \cup {copy.id} -> Outcome]
      BY <2>1, <1>5 DEF old
    <2>3. S \cup {copy.id} \in SUBSET Channel
      BY <1>3
    <2> QED BY <2>2, <2>3 DEF Results
  <1>7. /\ DOMAIN results = DOMAIN loc[e].results \cup {copy.id}
        /\ results[copy.id] = Report(copy, answered)
        /\ \A ch \in DOMAIN loc[e].results : ch # copy.id => results[ch] = loc[e].results[ch]
    OBVIOUS
  <1> HIDE DEF results
  <1>8. /\ l \in Local /\ l.event = v /\ l.results = results /\ l.todo = loc[e].todo \ {copy}
    BY <1>6 DEF DInv, DispatchShapes, Local
  <1>9. Proceed(e, "send", l)
    BY <1>1 DEF results
  <1> HIDE DEF l
  <1>10. /\ step'[e] = "send" /\ loc'[e] = l
         /\ \A d \in Evaluator \ {e} : step'[d] = step[d] /\ loc'[d] = loc[d]
         /\ step' \in [Evaluator -> Steps] /\ loc' \in [Evaluator -> Local]
    BY <1>8, <1>9, ProceedIs DEF DInv, Steps
  <1>11. /\ got[v][copy.id] = 0
         /\ got'[v][copy.id] = IF arrives THEN 1 ELSE 0
         /\ \A ch \in Channel \ {copy.id} : got'[v][ch] = got[v][ch]
         /\ \A u \in EventId \ {v} : got'[u] = got[u]
         /\ got' \in [EventId -> [Channel -> Nat]]
    <2>1. got[v][copy.id] # 1
      BY <1>3 DEF Sends
    <2>2. got[v][copy.id] \in Nat /\ got[v][copy.id] <= 1
      BY <1>3 DEF DInv, DispatchShapes, NotesAreTrue
    <2>3. got[v][copy.id] = 0
      BY <2>1, <2>2
    <2> QED BY <1>1, <1>3, <2>3 DEF DInv, DispatchShapes
  <1>12. DispatchShapes'
    BY <1>2, <1>10, <1>11 DEF DInv, DispatchShapes
  <1>13. Fresh'
    BY <1>2, <1>4, <1>11 DEF DInv, Fresh
  <1>14. Owns'
    BY <1>2, <1>8, <1>10 DEF DInv, Owns, Busy
  <1>15. Before'
    <2> SUFFICES ASSUME NEW d \in Evaluator
                 PROVE  /\ step'[d] \in {"rule", "list"} => loc'[d].results = NoResults
                        /\ step'[d] = "list" => \A ch \in Channel : got'[loc'[d].event][ch] = 0
      BY DEF Before
    <2>1. CASE step'[d] \in {"rule", "list"}
      <3>1. d # e /\ step[d] = step'[d] /\ loc'[d] = loc[d]
        BY <2>1, <1>10
      <3>2. step[d] = "list" => loc[d].event \in EventId \ {v}
        BY <3>1, <1>4 DEF DInv, Owns, Busy
      <3> QED BY <3>1, <3>2, <2>1, <1>11 DEF DInv, Before
    <2> QED BY <2>1
  <1>16. Sending'
    <2> SUFFICES ASSUME NEW d \in Evaluator, step'[d] = "send" PROVE Sends(d)'
      BY DEF Sending
    <2>1. CASE d = e
      <3> SUFFICES
            /\ \A c1, c2 \in loc[e].todo \ {copy} : c1.id = c2.id => c1 = c2
            /\ \A ch \in Channel : ch \in listed[v] <=>
                 ch \in DOMAIN results \/ \E c \in loc[e].todo \ {copy} : c.id = ch
            /\ \A c \in loc[e].todo \ {copy} : c.id \notin DOMAIN results /\ c.id \notin quiet[v]
            /\ \A ch \in Channel : got'[v][ch] = 1 => ch \in DOMAIN results
            /\ \A ch \in DOMAIN results : /\ results[ch] = "sent" => got'[v][ch] = 1
                                          /\ results[ch] = "queued" => got'[v][ch] = 0
        BY <2>1, <1>2, <1>8, <1>10 DEF Sends
      <3>1. \A c1, c2 \in loc[e].todo \ {copy} : c1.id = c2.id => c1 = c2
        BY <1>3 DEF Sends
      <3>2. \A ch \in Channel : ch \in listed[v] <=>
              ch \in DOMAIN results \/ \E c \in loc[e].todo \ {copy} : c.id = ch
        BY <1>1, <1>3, <1>7 DEF Sends
      <3>3. \A c \in loc[e].todo \ {copy} : c.id \notin DOMAIN results /\ c.id \notin quiet[v]
        BY <1>1, <1>3, <1>7 DEF Sends
      <3>4. \A ch \in Channel : got'[v][ch] = 1 => ch \in DOMAIN results
        BY <1>3, <1>7, <1>11 DEF Sends
      <3>5. ASSUME NEW ch \in DOMAIN results
            PROVE  /\ results[ch] = "sent" => got'[v][ch] = 1
                   /\ results[ch] = "queued" => got'[v][ch] = 0
        <4>1. CASE ch = copy.id
          BY <4>1, <1>5, <1>7, <1>11
        <4>2. CASE ch # copy.id
          <5>1. ch \in DOMAIN loc[e].results /\ results[ch] = loc[e].results[ch]
            BY <4>2, <1>7
          <5>2. ch \in Channel
            BY <5>1 DEF DInv, DispatchShapes, Local, Results
          <5> QED BY <4>2, <5>1, <5>2, <1>3, <1>11 DEF Sends
        <4> QED BY <4>1, <4>2
      <3> QED BY <3>1, <3>2, <3>3, <3>4, <3>5
    <2>2. CASE d # e
      <3>1. step[d] = "send" /\ loc'[d] = loc[d]
        BY <2>2, <1>10
      <3>2. Sends(d) /\ loc[d].event \in EventId \ {v}
        BY <2>2, <3>1, <1>4 DEF DInv, Sending, Busy, Owns
      <3> QED BY <3>1, <3>2, <1>2, <1>11 DEF Sends
    <2> QED BY <2>1, <2>2
  <1>17. NotesAreTrue'
    <2> SUFFICES ASSUME NEW u \in EventId
                 PROVE  /\ \A ch \in Channel : got'[u][ch] <= 1
                        /\ notes'[u] # Nil =>
                            /\ DOMAIN notes'[u] = listed'[u]
                            /\ \A ch \in Channel : got'[u][ch] = 1 => ch \in DOMAIN notes'[u]
                            /\ \A ch \in listed'[u] :
                                 /\ notes'[u][ch] = "sent" => got'[u][ch] = 1
                                 /\ notes'[u][ch] = "queued" => got'[u][ch] = 0
      BY DEF NotesAreTrue
    <2>1. CASE u = v
      BY <2>1, <1>2, <1>4, <1>11 DEF DInv, NotesAreTrue
    <2>2. CASE u # v
      BY <2>2, <1>2, <1>11 DEF DInv, NotesAreTrue
    <2> QED BY <2>1, <2>2
  <1>18. QuietIsOff'
    BY <1>2 DEF DInv, QuietIsOff, Enabled, Exists, vars, data
  <1>19. QuietGetsNothing'
    <2> SUFFICES ASSUME NEW u \in EventId, NEW ch \in quiet[u] PROVE got'[u][ch] = 0
      BY <1>2 DEF QuietGetsNothing
    <2>1. got[u][ch] = 0
      BY DEF DInv, QuietGetsNothing
    <2>2. ch \in Channel
      BY DEF DInv, DispatchShapes
    <2>3. copy.id \notin quiet[v]
      BY <1>3 DEF Sends
    <2>4. CASE u = v
      BY <2>1, <2>2, <2>3, <2>4, <1>11
    <2>5. CASE u # v
      BY <2>1, <2>5, <1>11
    <2> QED BY <2>4, <2>5
  <1> QED BY <1>12, <1>13, <1>14, <1>15, <1>16, <1>17, <1>18, <1>19 DEF DInv

LEMMA RecordDInv ==
  ASSUME DInv, NEW e \in Evaluator, Record(e), UNCHANGED vars
  PROVE  DInv'
  <1> DEFINE v       == loc[e].event
             results == loc[e].results
             l       == [loc[e] EXCEPT !.results = NoResults]
  <1>1. step[e] = "send" /\ loc[e].todo = {} /\ UNCHANGED <<got, listed, quiet>>
    BY DEF Record
  <1>2. Proceed(e, "rule", l)
    BY DEF Record
  <1>3. l \in Local /\ l.results = NoResults
    BY NoResultsFits DEF DInv, DispatchShapes, Local
  <1>4. CASE UNCHANGED notes
    <2> HIDE DEF l
    <2> QED BY <1>1, <1>2, <1>3, <1>4, LeaveDInv
  <1>5. CASE notes' = [notes EXCEPT ![v] = results]
    <2>1. v \in EventId /\ listed[v] # Nil /\ results \in Results
          /\ \A d \in Evaluator : Busy(d) /\ loc[d].event = v => d = e
      BY <1>1 DEF DInv, DispatchShapes, Local, Owns, Busy
    <2>2. listed[v] \subseteq Channel /\ DOMAIN results \subseteq Channel
      BY <2>1 DEF DInv, DispatchShapes, Results
    <2>3. Sends(e)
      BY <1>1 DEF DInv, Sending
    <2>4. /\ DOMAIN results = listed[v]
          /\ \A ch \in Channel : got[v][ch] = 1 => ch \in DOMAIN results
          /\ \A ch \in DOMAIN results : /\ results[ch] = "sent" => got[v][ch] = 1
                                        /\ results[ch] = "queued" => got[v][ch] = 0
      BY <1>1, <2>2, <2>3 DEF Sends
    <2>5. notes'[v] = results /\ \A u \in EventId \ {v} : notes'[u] = notes[u]
      BY <1>5, <2>1 DEF DInv, DispatchShapes
    <2>6. notes' \in [EventId -> Results \cup {Nil}]
      BY <1>5, <2>1 DEF DInv, DispatchShapes
    <2> HIDE DEF l, results
    <2>7. /\ step'[e] = "rule" /\ loc'[e] = l
          /\ \A d \in Evaluator \ {e} : step'[d] = step[d] /\ loc'[d] = loc[d]
          /\ step' \in [Evaluator -> Steps] /\ loc' \in [Evaluator -> Local]
      BY <1>2, <1>3, ProceedIs DEF DInv, Steps
    <2>8. DispatchShapes'
      BY <1>1, <2>6, <2>7 DEF DInv, DispatchShapes
    <2>9. Fresh'
      BY <1>1, <2>1, <2>5 DEF DInv, Fresh
    <2>10. Owns'
      <3> SUFFICES ASSUME NEW d \in Evaluator, Busy(d)'
                   PROVE  /\ loc'[d].event \in EventId
                          /\ listed'[loc'[d].event] # Nil
                          /\ notes'[loc'[d].event] = Nil
                          /\ \A c \in Evaluator : Busy(c)' /\ loc'[c].event = loc'[d].event => c = d
        BY DEF Owns
      <3>1. d # e /\ Busy(d) /\ loc'[d] = loc[d]
        BY <2>7 DEF Busy
      <3>2. loc[d].event \in EventId \ {v}
        BY <3>1, <2>1 DEF DInv, Owns
      <3> QED BY <3>1, <3>2, <1>1, <2>5, <2>7 DEF DInv, Owns, Busy
    <2>11. Before'
      BY <1>1, <1>3, <2>7 DEF DInv, Before
    <2>12. Sending'
      BY <1>1, <2>7 DEF DInv, Sending, Sends
    <2>13. NotesAreTrue'
      BY <1>1, <2>4, <2>5 DEF DInv, NotesAreTrue
    <2>14. QuietIsOff' /\ QuietGetsNothing'
      BY <1>1 DEF DInv, QuietIsOff, QuietGetsNothing, Enabled, Exists, vars, data
    <2> QED BY <2>8, <2>9, <2>10, <2>11, <2>12, <2>13, <2>14 DEF DInv
  <1> QED BY <1>4, <1>5 DEF Record

\* A request that edits the tables: a channel it enables is no longer quiet.
LEMMA EditDInv ==
  ASSUME DInv, Edit
  PROVE  DInv'
  <1>1. UNCHANGED <<got, notes, listed, step, loc>>
    BY DEF Edit, sending
  <1>2. quiet' = [v \in EventId |-> {ch \in quiet[v] : ~(Enabled(ch)')}]
    BY DEF Edit, Hush
  <1>3. \A v \in EventId : quiet'[v] \subseteq quiet[v]
    BY <1>2
  <1>4. DispatchShapes'
    BY <1>1, <1>2 DEF DInv, DispatchShapes
  <1>5. Fresh' /\ Owns' /\ Before' /\ NotesAreTrue'
    BY <1>1 DEF DInv, Fresh, Owns, Before, NotesAreTrue, Busy
  <1>6. Sending'
    BY <1>1, <1>3 DEF DInv, Sending, Sends, Owns, Busy
  <1>7. QuietIsOff'
    BY <1>2 DEF QuietIsOff
  <1>8. QuietGetsNothing'
    BY <1>1, <1>3 DEF DInv, QuietGetsNothing
  <1> QED BY <1>4, <1>5, <1>6, <1>7, <1>8 DEF DInv

LEMMA EvaluationDInv ==
  ASSUME DInv, TypeOK, NEW e \in Evaluator, Evaluation(e), UNCHANGED vars
  PROVE  DInv'
  <1>1. CASE ReadRule(e)
    <2>1. PICK r \in AlertRule :
            /\ Exists(r)
            /\ Proceed(e, "rule", [EvBlank EXCEPT !.rule = r, !.ids = rows[r].channel_ids])
      BY <1>1 DEF ReadRule
    <2> DEFINE l == [EvBlank EXCEPT !.rule = r, !.ids = rows[r].channel_ids]
    <2>2. rows[r] \in RuleRow
      BY <2>1, TablesAssumption DEF TypeOK, Exists, Row, Id
    <2>3. l \in Local /\ l.results = NoResults
      BY <2>2, NoResultsFits DEF EvBlank, Local, RuleRow
    <2>4. UNCHANGED <<got, notes, listed, quiet>> /\ Proceed(e, "rule", l)
      BY <1>1, <2>1 DEF ReadRule
    <2> HIDE DEF l
    <2> QED BY <2>3, <2>4, LeaveDInv
  <1>2. CASE LeaveRule(e) \/ Stop(e)
    BY <1>2, LeaveDInv, BlankLocalFits DEF LeaveRule, Stop
  <1>3. CASE Fire(e)
    BY <1>3, FireDInv
  <1>4. CASE ListChannels(e)
    BY <1>4, ListDInv
  <1>5. CASE SendChannel(e)
    BY <1>5, SendDInv
  <1>6. CASE Record(e)
    BY <1>6, RecordDInv
  <1> QED BY <1>1, <1>2, <1>3, <1>4, <1>5, <1>6 DEF Evaluation

LEMMA StepDInv == DInv /\ TypeOK /\ [DispatchNext]_<<vars, dispatch>> => DInv'
  <1> SUFFICES ASSUME DInv, TypeOK, [DispatchNext]_<<vars, dispatch>> PROVE DInv'
    OBVIOUS
  <1>1. CASE Edit
    BY <1>1, EditDInv
  <1>2. ASSUME NEW e \in Evaluator, Evaluation(e), UNCHANGED vars PROVE DInv'
    BY <1>2, EvaluationDInv
  <1>3. CASE UNCHANGED <<vars, dispatch>>
    <2>1. UNCHANGED <<got, notes, listed, quiet, step, loc, rows>>
      BY <1>3 DEF vars, data, dispatch
    <2>2. DispatchShapes' /\ Fresh' /\ Owns' /\ Before' /\ NotesAreTrue'
      BY <2>1 DEF DInv, DispatchShapes, Fresh, Owns, Before, NotesAreTrue, Busy
    <2>3. Sending' /\ QuietIsOff' /\ QuietGetsNothing'
      BY <2>1 DEF DInv, Sending, Sends, QuietIsOff, QuietGetsNothing, Enabled, Exists
    <2> QED BY <2>2, <2>3 DEF DInv
  <1> QED BY <1>1, <1>2, <1>3 DEF DispatchNext

-----------------------------------------------------------------------------
(***************************************************************************)
(* Theorems                                                                *)
(***************************************************************************)
\* The invariant of the evaluations holds, whatever requests and evaluations
\* overlap.
THEOREM DispatchInvariance == DispatchSpec => []DInv
  <1>1. DispatchSpec => []TypeOK
    BY DispatchKeepsTables, TypeCorrect, PTL
  <1> QED BY <1>1, InitDInv, StepDInv, PTL DEF DispatchSpec

\* Every variable of the tables and of the evaluations keeps its type.
THEOREM DispatchTypeCorrect == DispatchSpec => []DispatchTypeOK
  <1>1. DispatchSpec => []TypeOK
    BY DispatchKeepsTables, TypeCorrect, PTL
  <1>2. DInv /\ TypeOK => DispatchTypeOK
    <2> SUFFICES ASSUME DispatchShapes, TypeOK PROVE DispatchTypeOK
      BY DEF DInv
    <2>1. ASSUME NEW v \in EventId, notes[v] # Nil, NEW ch \in DOMAIN notes[v]
          PROVE  notes[v][ch] \in Outcome
      <3>1. notes[v] \in Results
        BY <2>1 DEF DispatchShapes
      <3>2. PICK S \in SUBSET Channel : notes[v] \in [S -> Outcome]
        BY <3>1 DEF Results
      <3> QED BY <3>2
    <2>2. \A e \in Evaluator : loc[e].todo \subseteq Copy
      BY DEF DispatchShapes, Local
    <2> QED BY <2>1, <2>2 DEF DispatchTypeOK, DispatchShapes, Steps
  <1> QED BY <1>1, <1>2, DispatchInvariance, PTL

\* With any number of evaluations, events and channels, no receiver is sent an
\* event twice and what an event records of its dispatch is the truth
\* (internal/alerts/dispatch.go:25, internal/alerts/evaluate.go:104).
THEOREM RecordedNotesAreTrue == DispatchSpec => []NotesAreTrue
  <1>1. DInv => NotesAreTrue
    BY DEF DInv
  <1> QED BY <1>1, DispatchInvariance, PTL

\* A channel that has not been enabled since before an event fired is sent
\* nothing of it, whichever evaluations and edits overlap.
THEOREM QuietChannelsGetNothing == DispatchSpec => []QuietGetsNothing
  <1>1. DInv => QuietGetsNothing
    BY DEF DInv
  <1> QED BY <1>1, DispatchInvariance, PTL
=============================================================================

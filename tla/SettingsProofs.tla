--------------------------- MODULE SettingsProofs ---------------------------
(***************************************************************************)
(* What is proved of Settings.  A PUT is consistent because the check it   *)
(* made holds of the rows at each of its upserts (Promise).  The tenant    *)
(* agrees on a key because whatever is read or pushed while it does says   *)
(* what it should hold or leaves the key out (Fresh, Settled), reads that  *)
(* fail and abandoned pushes included.                                     *)
(***************************************************************************)
EXTENDS Settings, TLAPS

Places == {"idle", "write", "region", "runtime", "push"}
Views  == [Key -> Text \cup {Nil}]

(***************************************************************************)
(* The inductive invariant                                                 *)
(***************************************************************************)
\* What local variables hold at each statement.
Placed(place, r) ==
    /\ place = "idle" => r = Blank
    /\ place # "idle" => r \in Request
    /\ place = "write" => r.op = "put" /\ r.patch \in Patch

Types ==
    /\ stored \in Views /\ \A k \in Key : stored[k] \in Texts(k) \cup {Nil}
    /\ region \in Endpoint \cup {Nil}
    /\ tenant \in Views
    /\ pc \in [Worker -> Places]
    /\ req \in [Worker -> Request \cup {Blank}] /\ \A w \in Worker : Placed(pc[w], req[w])
    /\ late \subseteq Views
    /\ agreed \subseteq Key

\* Nothing else is under way beside a request that is alone.
Apart ==
    \A w \in Worker : req[w].alone =>
        pc[w] # "idle" /\ late = {} /\ \A v \in Worker \ {w} : pc[v] = "idle"

\* What was checked of the rows holds while they are written, and after.
Promise(place, r) ==
    /\ place = "write" =>
           /\ Sound(r.patch, stored)
           /\ \A n \in 1..(r.next - 1) :
                 Order[n] \in DOMAIN r.patch => stored[Order[n]] = r.patch[Order[n]]
    /\ (r.op = "put" /\ place \in {"region", "runtime", "push"}) => CleanupHasDays(stored)

Calm == \A w \in Worker : req[w].alone => Promise(pc[w], req[w])

\* What has been read of a key for the tenant: a request whose reads went through
\* has it, another may have to leave it out.
Seen(place, view, k) ==
    /\ place = "region" => view[k] = IF k \in Plain THEN Nil ELSE Picked(stored, k)
    /\ place = "runtime" => view[k] = IF k = "s3_endpoint" THEN region
                                      ELSE IF k \in Plain THEN Nil ELSE Picked(stored, k)
    /\ place = "push" => view[k] \in {Nil, Want(k)}

Whole(place, view) ==
    \A k \in Key : Seen(place, view, k) /\ (place = "push" => view[k] = Want(k))

Fresh ==
    \A w \in Worker :
        /\ req[w].alone => Whole(pc[w], req[w].view)
        /\ \A k \in agreed : Seen(pc[w], req[w].view, k)

Settled ==
    \A k \in agreed :
        /\ \A w \in Worker : pc[w] = "write" => k \notin DOMAIN req[w].patch
        /\ \A view \in late : view[k] \in {Nil, Want(k)}
        /\ Want(k) # Nil => tenant[k] = Want(k)

IInv == Types /\ Apart /\ Calm /\ Fresh /\ Settled

-----------------------------------------------------------------------------
(***************************************************************************)
(* Keys, texts and patches                                                 *)
(***************************************************************************)
LEMMA OrderFacts ==
  /\ Len(Order) \in Nat
  /\ \A n \in 1..Len(Order) : Order[n] \in Key
  /\ \A k \in Key : \E n \in 1..Len(Order) : k = Order[n]
  BY SettingsAssumption

LEMMA PatchFacts ==
  ASSUME NEW p \in Patch
  PROVE  DOMAIN p \subseteq Key /\ \A k \in DOMAIN p : p[k] \in Texts(k) /\ p[k] \in Text
  BY DEF Patch

LEMMA PickedText ==
  ASSUME Types, NEW k \in Key
  PROVE  Picked(stored, k) \in Text \cup {Nil} /\ Want(k) \in Text \cup {Nil}
  <1>1. Fallback[k] \in Text \cup {Nil}
    BY SettingsAssumption DEF Key, DaysKeys, OnKeys, Text
  <1>2. stored[k] \in Text \cup {Nil} /\ region \in Text \cup {Nil}
    BY DEF Types, Views, Text
  <1> QED BY <1>1, <1>2 DEF Picked, Want

LEMMA BlankFacts ==
  Blank.alone = FALSE /\ Blank.op = Nil /\ [Blank EXCEPT !.alone = FALSE] = Blank
  <1>1. PICK view, patch : view = [k \in Key |-> Nil] /\ patch = <<>>
    OBVIOUS
  <1>2. PICK r \in [op : {Nil}, patch : {patch}, next : {1}, view : {view}, alone : {FALSE}] : r = Blank
    BY <1>1 DEF Blank
  <1>3. r.alone = FALSE /\ r.op = Nil /\ [r EXCEPT !.alone = FALSE] = r
    OBVIOUS
  <1> QED BY <1>2, <1>3

\* What a request knows at each statement.
LEMMA Known ==
  ASSUME IInv, NEW w \in Worker
  PROVE  /\ Placed(pc[w], req[w]) /\ pc[w] \in Places
         /\ req[w].alone => Promise(pc[w], req[w])
         /\ req[w].alone => Whole(pc[w], req[w].view)
         /\ \A k \in agreed : Seen(pc[w], req[w].view, k)
  BY DEF IInv, Types, Calm, Fresh

-----------------------------------------------------------------------------
(***************************************************************************)
(* Steps of one request                                                    *)
(***************************************************************************)
\* A request goes on, and the settings and the region stay as they are.
LEMMA MoveIInv ==
  ASSUME IInv, NEW w \in Worker, pc[w] # "idle", NEW next \in Places, NEW r, GoOn(w, r, next),
         Placed(next, r), r.alone => req[w].alone /\ next # "idle" /\ late' = late,
         UNCHANGED <<stored, region>>, tenant' \in Views, late' \subseteq Views, agreed' \subseteq Key,
         agreed' \subseteq agreed \/ req[w].alone,
         r.alone => Promise(next, r) /\ Whole(next, r.view),
         \A k \in agreed' : Seen(next, r.view, k), Settled'
  PROVE  IInv'
  <1>1. r \in Request \cup {Blank}
    BY DEF Placed
  <1>2. /\ pc' \in [Worker -> Places] /\ req' \in [Worker -> Request \cup {Blank}]
        /\ pc'[w] = next /\ req'[w] = r
        /\ \A v \in Worker \ {w} : pc'[v] = pc[v] /\ req'[v] = req[v]
    BY <1>1 DEF IInv, Types, GoOn
  <1>3. Types'
    BY <1>2 DEF IInv, Types, Placed
  <1>4. Apart'
    BY <1>2 DEF IInv, Apart
  <1>5. /\ Promise(next, r) = Promise(next, r)' /\ Whole(next, r.view) = Whole(next, r.view)'
        /\ \A place, view, k : Seen(place, view, k) = Seen(place, view, k)'
    BY DEF Promise, Whole, Seen, Want
  <1>6. ASSUME NEW v \in Worker \ {w}
        PROVE  /\ ~req[v].alone
               /\ agreed' \subseteq agreed \/ pc[v] = "idle"
    BY DEF IInv, Apart
  <1>7. Calm'
    BY <1>2, <1>5, <1>6 DEF Calm
  <1>8. Fresh'
    <2>1. ASSUME NEW v \in Worker \ {w}, NEW k \in agreed' PROVE Seen(pc[v], req[v].view, k)'
      <3>1. PICK place, view : place = pc[v] /\ view = req[v].view
        OBVIOUS
      <3>2. pc'[v] = place /\ req'[v].view = view
        BY <1>2, <3>1
      <3>3. Seen(place, view, k)
        BY <1>6, <2>1, <3>1 DEF IInv, Fresh, Seen
      <3> QED BY <1>5, <3>2, <3>3 DEF Seen, Want
    <2>2. \A k \in agreed' : Seen(pc[w], req[w].view, k)'
      BY <1>2, <1>5 DEF Seen
    <2>3. req'[w].alone => Whole(pc[w], req[w].view)'
      BY <1>2, <1>5 DEF Whole, Seen
    <2> QED BY <1>2, <1>6, <2>1, <2>2, <2>3 DEF Fresh
  <1> QED BY <1>3, <1>4, <1>7, <1>8 DEF IInv

\* What is settled stays so while a request goes on and writes no row.
LEMMA SettledKept ==
  ASSUME IInv, NEW w \in Worker, NEW next \in Places \ {"write"}, NEW r, GoOn(w, r, next),
         UNCHANGED <<stored, region, tenant>>, agreed' \subseteq agreed,
         \A view \in late' : view \in late \/ \A k \in agreed : view[k] \in {Nil, Want(k)}
  PROVE  Settled'
  <1>1. \A v \in Worker : pc'[v] = next \/ (pc'[v] = pc[v] /\ req'[v] = req[v])
    BY DEF IInv, Types, GoOn
  <1>2. \A k : Want(k)' = Want(k)
    BY DEF Want, Picked
  <1> QED BY <1>1, <1>2 DEF IInv, Settled

\* A request ends, and what the tenant holds is not changed by it.
LEMMA FinishIInv ==
  ASSUME IInv, NEW w \in Worker, pc[w] # "idle", Finish(w),
         UNCHANGED <<stored, region, tenant, agreed>>, late' \subseteq Views,
         \A view \in late' : view \in late \/ \A k \in agreed : view[k] \in {Nil, Want(k)}
  PROVE  IInv'
  <1>1. Placed("idle", Blank) /\ \A k : Seen("idle", Blank.view, k)
    BY DEF Placed, Seen
  <1>2. Settled'
    BY SettledKept DEF Finish, Places
  <1> QED BY <1>1, <1>2, BlankFacts, MoveIInv DEF Finish, Places, IInv, Types

LEMMA ReadPublicIInv ==
  ASSUME IInv, NEW w \in Worker, ReadPublic(w)
  PROVE  IInv'
  <1>1. pc[w] = "write" /\ req[w].next > Len(Order) /\ UNCHANGED <<stored, region, tenant, late, agreed>>
    BY DEF ReadPublic
  <1>2. /\ req[w] \in Request /\ req[w].op = "put" /\ req[w].patch \in Patch
        /\ req[w].next = Len(Order) + 1
    BY <1>1, Known, OrderFacts DEF Placed, Request
  <1>3. Public \in Views
    BY PickedText DEF Public, Views, IInv
  <1>4. PICK r : r = [req[w] EXCEPT !.view = Public]
    OBVIOUS
  <1>5. r \in Request /\ r.view = Public /\ r.alone = req[w].alone
    BY <1>2, <1>3, <1>4 DEF Request, Views
  <1>6. GoOn(w, r, "region") /\ Placed("region", r) /\ {"region"} \subseteq Places
    BY <1>4, <1>5 DEF ReadPublic, Placed, Places
  <1>7. r.alone => Promise("region", r)
    <2> SUFFICES ASSUME r.alone PROVE CleanupHasDays(stored)
      BY DEF Promise
    <2>1. PICK p \in Patch : p = req[w].patch
      BY <1>2
    <2>2. Sound(p, stored) /\ \A n \in 1..Len(Order) : Order[n] \in DOMAIN p => stored[Order[n]] = p[Order[n]]
      BY <1>1, <1>2, <1>5, <2>1, Known, OrderFacts DEF Promise
    <2>3. \A k \in DOMAIN p : stored[k] = p[k]
      BY <2>2, PatchFacts, OrderFacts
    <2>4. \A k \in DaysKeys \cup OnKeys : Merged(stored, p, k) = Picked(stored, k)
      BY <2>3, PatchFacts, SettingsAssumption DEF Merged, Picked, Texts, Text
    <2> QED BY <2>2, <2>4 DEF Sound, CleanupHasDays, DaysKeys, OnKeys
  <1>8. Whole("region", r.view) /\ \A k \in agreed : Seen("region", r.view, k)
    BY <1>5 DEF Whole, Seen, Public, IInv, Types
  <1>9. Settled'
    BY <1>1, <1>6, SettledKept
  <1> QED BY <1>1, <1>5, <1>6, <1>7, <1>8, <1>9, MoveIInv DEF IInv, Types

\* A read goes through, or is passed over.
LEMMA ReadIInv ==
  ASSUME IInv, NEW w \in Worker, NEW next \in {"runtime", "push"}, pc[w] \in {"region", "runtime"},
         NEW view \in Views, NEW alone \in {FALSE, req[w].alone},
         GoOn(w, [req[w] EXCEPT !.view = view, !.alone = alone], next),
         UNCHANGED <<stored, region, tenant, late>>, agreed' \subseteq agreed,
         alone => Whole(next, view), \A k \in agreed' : Seen(next, view, k)
  PROVE  IInv'
  <1>1. req[w] \in Request /\ next \in Places \ {"idle", "write"} /\ pc[w] # "idle"
    BY Known DEF Placed, Places
  <1>2. PICK r : r = [req[w] EXCEPT !.view = view, !.alone = alone]
    OBVIOUS
  <1>3. r \in Request /\ r.view = view /\ r.alone = alone /\ r.op = req[w].op
    BY <1>1, <1>2 DEF Request, Views
  <1>4. Placed(next, r) /\ (r.alone => req[w].alone /\ Promise(next, r))
    BY <1>1, <1>3, Known DEF Placed, Promise
  <1>5. Settled'
    BY <1>1, SettledKept
  <1>6. (r.alone => Whole(next, r.view)) /\ \A k \in agreed' : Seen(next, r.view, k)
    BY <1>3
  <1>7. tenant' \in Views /\ late' \subseteq Views /\ agreed' \subseteq Key
    BY DEF IInv, Types
  <1> QED BY <1>1, <1>2, <1>3, <1>4, <1>5, <1>6, <1>7, MoveIInv

\* The record that is left as it is, and the one of a request that misses a read.
LEMMA ReadRecords ==
  ASSUME IInv, NEW w \in Worker, pc[w] \in {"region", "runtime"}, NEW view \in Views
  PROVE  /\ req[w].view \in Views
         /\ [req[w] EXCEPT !.view = view] = [req[w] EXCEPT !.view = view, !.alone = req[w].alone]
         /\ Without(w) = [req[w] EXCEPT !.view = req[w].view, !.alone = FALSE]
  <1>1. PICK q \in Request : q = req[w]
    BY Known DEF Placed
  <1>2. /\ q.view \in Views
        /\ [q EXCEPT !.view = view] = [q EXCEPT !.view = view, !.alone = q.alone]
        /\ [q EXCEPT !.alone = FALSE] = [q EXCEPT !.view = q.view, !.alone = FALSE]
    BY DEF Request, Views
  <1> QED BY <1>1, <1>2 DEF Without

LEMMA ReadRegionIInv ==
  ASSUME IInv, NEW w \in Worker, ReadRegion(w)
  PROVE  IInv'
  <1>1. pc[w] = "region" /\ UNCHANGED <<stored, region, tenant, late>>
    BY DEF ReadRegion
  <1>2. PICK old \in Views : old = req[w].view
    BY <1>1, ReadRecords DEF IInv, Types
  <1>3. PICK view : view = [k \in Key |-> IF k = "s3_endpoint" THEN region ELSE old[k]]
    OBVIOUS
  <1>4. view \in Views
    BY <1>3 DEF Views, IInv, Types, Text
  <1>5. \A k \in Key : Seen("region", old, k) => Seen("runtime", view, k)
    BY <1>3 DEF Seen
  <1>6. \A k \in agreed : k \in Key /\ Seen("region", old, k)
    BY <1>1, <1>2, Known DEF IInv, Types
  <1>7. CASE GoOn(w, [req[w] EXCEPT !.view = view], "runtime") /\ UNCHANGED agreed
    <2>1. req[w].alone => Whole("runtime", view)
      BY <1>1, <1>2, <1>5, Known DEF Whole
    <2>2. \A k \in agreed' : Seen("runtime", view, k)
      BY <1>5, <1>6, <1>7
    <2>3. GoOn(w, [req[w] EXCEPT !.view = view, !.alone = req[w].alone], "runtime")
      BY <1>1, <1>4, <1>7, ReadRecords
    <2> QED BY <1>1, <1>4, <1>7, <2>1, <2>2, <2>3, ReadIInv
  <1>8. CASE /\ GoOn(w, Without(w), "runtime")
             /\ agreed' = IF region = Nil THEN agreed ELSE agreed \ {"s3_endpoint"}
    <2>1. \A k \in agreed' : Seen("runtime", old, k)
      BY <1>6, <1>8, SettingsAssumption DEF Seen, Key
    <2>2. GoOn(w, [req[w] EXCEPT !.view = old, !.alone = FALSE], "runtime")
      BY <1>1, <1>2, <1>8, ReadRecords
    <2> QED BY <1>1, <1>8, <2>1, <2>2, ReadIInv
  <1> QED BY <1>2, <1>3, <1>7, <1>8 DEF ReadRegion

LEMMA ReadRuntimeIInv ==
  ASSUME IInv, NEW w \in Worker, ReadRuntime(w)
  PROVE  IInv'
  <1>1. pc[w] = "runtime" /\ UNCHANGED <<stored, region, tenant, late, agreed>>
    BY DEF ReadRuntime
  <1>2. PICK old \in Views : old = req[w].view
    BY <1>1, ReadRecords DEF IInv, Types
  <1>3. PICK view : view = [k \in Key |-> IF k \in Plain /\ old[k] = Nil THEN Picked(stored, k)
                                          ELSE old[k]]
    OBVIOUS
  <1>4. view \in Views
    BY <1>3, PickedText DEF Views, IInv
  <1>5. \A k \in Key : Seen("runtime", old, k) => view[k] = Want(k) /\ old[k] \in {Nil, Want(k)}
    BY <1>3, SettingsAssumption DEF Seen, Want, Key
  <1>6. \A k \in agreed : k \in Key /\ Seen("runtime", old, k)
    BY <1>1, <1>2, Known DEF IInv, Types
  <1>7. \A k \in agreed' : Seen("push", view, k) /\ Seen("push", old, k)
    BY <1>1, <1>5, <1>6 DEF Seen
  <1>8. CASE GoOn(w, [req[w] EXCEPT !.view = view], "push")
    <2>1. req[w].alone => Whole("push", view)
      BY <1>1, <1>2, <1>5, Known DEF Whole, Seen
    <2>2. GoOn(w, [req[w] EXCEPT !.view = view, !.alone = req[w].alone], "push")
      BY <1>1, <1>4, <1>8, ReadRecords
    <2> QED BY <1>1, <1>4, <1>7, <2>1, <2>2, ReadIInv
  <1>9. CASE GoOn(w, Without(w), "push")
    <2>1. GoOn(w, [req[w] EXCEPT !.view = old, !.alone = FALSE], "push")
      BY <1>1, <1>2, <1>9, ReadRecords
    <2> QED BY <1>1, <1>7, <2>1, ReadIInv
  <1> QED BY <1>2, <1>3, <1>8, <1>9 DEF ReadRuntime

LEMMA DeliveredIInv ==
  ASSUME IInv, NEW w \in Worker, Delivered(w)
  PROVE  IInv'
  <1>1. /\ pc[w] = "push" /\ UNCHANGED <<stored, region, late>> /\ Finish(w)
        /\ agreed' = IF req[w].alone THEN Key ELSE agreed
        /\ tenant' = Taken(req[w].view)
    BY DEF Delivered
  <1>2. PICK view \in Views : view = req[w].view
    BY <1>1, Known DEF Placed, Request, Views
  <1>3. tenant \in Views /\ agreed \subseteq Key /\ agreed' \subseteq Key
    BY <1>1 DEF IInv, Types
  <1>4. tenant' \in Views /\ \A k \in Key : tenant'[k] = IF view[k] = Nil THEN tenant[k] ELSE view[k]
    BY <1>1, <1>2, <1>3 DEF Taken, Views
  <1>5. \A k : Want(k)' = Want(k)
    BY <1>1 DEF Want, Picked
  <1>6. \A v \in Worker : pc'[v] = "idle" \/ (pc'[v] = pc[v] /\ req'[v] = req[v])
    BY <1>1 DEF IInv, Types, Finish, GoOn
  <1>7. ASSUME req[w].alone PROVE Settled'
    <2>1. late = {} /\ \A v \in Worker : pc'[v] = "idle"
      BY <1>1, <1>7 DEF IInv, Types, Apart, Finish, GoOn
    <2>2. \A k \in Key : view[k] = Want(k)
      BY <1>1, <1>2, <1>7, Known DEF Whole
    <2> QED BY <1>1, <1>3, <1>4, <1>5, <2>1, <2>2 DEF Settled
  <1>8. ASSUME ~req[w].alone PROVE Settled'
    <2>1. \A k \in agreed : view[k] \in {Nil, Want(k)}
      BY <1>1, <1>2, Known DEF Seen
    <2> QED BY <1>1, <1>3, <1>4, <1>5, <1>6, <1>8, <2>1 DEF IInv, Settled
  <1>9. Settled'
    BY <1>7, <1>8
  <1>10. Placed("idle", Blank) /\ \A k : Seen("idle", Blank.view, k)
    BY DEF Placed, Seen
  <1>11. agreed' \subseteq agreed \/ req[w].alone
    BY <1>1
  <1> QED BY <1>1, <1>3, <1>4, <1>9, <1>10, <1>11, BlankFacts, MoveIInv DEF Finish, Places, IInv, Types

\* What is given up says what the tenant should hold, if anything does.
LEMMA GiveUpIInv ==
  ASSUME IInv, NEW w \in Worker, GiveUp(w)
  PROVE  IInv'
  <1>1. PICK view : view = req[w].view
    OBVIOUS
  <1>2. /\ pc[w] = "push" /\ Finish(w) /\ late' = late \cup {view}
        /\ UNCHANGED <<stored, region, tenant, agreed>>
    BY <1>1 DEF GiveUp
  <1>3. view \in Views
    BY <1>1, <1>2, Known DEF Placed, Request, Views
  <1>4. \A k \in agreed : view[k] \in {Nil, Want(k)}
    BY <1>1, <1>2, Known DEF Seen
  <1>5. late' \subseteq Views
    BY <1>2, <1>3 DEF IInv, Types
  <1> QED BY <1>2, <1>4, <1>5, FinishIInv

LEMMA QuitIInv ==
  ASSUME IInv, NEW w \in Worker, Refused(w) \/ Abort(w)
  PROVE  IInv'
  <1>1. pc[w] # "idle" /\ Finish(w) /\ UNCHANGED <<stored, region, tenant, late, agreed>>
    BY DEF Refused, Abort
  <1> QED BY <1>1, FinishIInv DEF IInv, Types

LEMMA UpsertIInv ==
  ASSUME IInv, NEW w \in Worker, Upsert(w)
  PROVE  IInv'
  <1>1. pc[w] = "write" /\ req[w].next <= Len(Order) /\ UNCHANGED <<region, tenant, late, agreed>>
    BY DEF Upsert
  <1>2. PICK q \in Request : q = req[w]
    BY <1>1, Known DEF Placed
  <1>3. PICK p \in Patch : p = q.patch
    BY <1>1, <1>2, Known DEF Placed
  <1>4. PICK n \in 1..Len(Order) : n = q.next
    BY <1>1, <1>2 DEF Request
  <1>5. PICK k \in Key : k = Order[n]
    BY OrderFacts
  <1>6. PICK r : r = [q EXCEPT !.next = n + 1]
    OBVIOUS
  <1>7. PICK m \in 1..(Len(Order) + 1) : m = n + 1
    BY OrderFacts
  <1>8. /\ r \in Request /\ r.next = n + 1 /\ r.patch = p /\ r.op = q.op
        /\ r.alone = q.alone /\ r.view = q.view
    BY <1>2, <1>3, <1>4, <1>6, <1>7 DEF Request
  <1>9. /\ GoOn(w, r, "write")
        /\ stored' = IF k \in DOMAIN p THEN [stored EXCEPT ![k] = p[k]] ELSE stored
    BY <1>2, <1>3, <1>4, <1>5, <1>6 DEF Upsert
  <1>10. /\ pc' \in [Worker -> Places] /\ req' \in [Worker -> Request \cup {Blank}]
        /\ pc' = pc /\ req'[w] = r /\ \A v \in Worker \ {w} : req'[v] = req[v]
    BY <1>1, <1>8, <1>9 DEF IInv, Types, GoOn
  <1>11. /\ stored' \in Views /\ \A j \in Key : stored'[j] \in Texts(j) \cup {Nil}
         /\ k \in DOMAIN p => stored'[k] = p[k]
         /\ \A j \in Key : j \notin DOMAIN p => stored'[j] = stored[j]
         /\ \A j \in Key : stored[j] = p[j] /\ j \in DOMAIN p => stored'[j] = p[j]
    BY <1>9, PatchFacts DEF IInv, Types, Views
  <1>12. Types'
    BY <1>1, <1>8, <1>10, <1>11, Known, <1>2 DEF IInv, Types, Placed
  <1>13. Apart'
    BY <1>1, <1>2, <1>8, <1>10 DEF IInv, Apart
  <1>14. \A j \in agreed : j \in Key /\ stored'[j] = stored[j]
    BY <1>1, <1>2, <1>3, <1>11 DEF IInv, Types, Settled
  <1>15. \A v \in Worker \ {w} : ~req[v].alone
    BY <1>1 DEF IInv, Apart
  <1>16. Fresh' /\ Settled'
    <2>1. \A j \in agreed : Picked(stored, j)' = Picked(stored, j) /\ Want(j)' = Want(j)
      BY <1>1, <1>14 DEF Want, Picked
    <2>2. \A view : Whole("write", view)' /\ \A j : Seen("write", view, j)'
      BY DEF Whole, Seen
    <2>3. ASSUME NEW v \in Worker \ {w}, NEW j \in agreed PROVE Seen(pc[v], req[v].view, j)'
      <3>1. PICK place, view : place = pc[v] /\ view = req[v].view
        OBVIOUS
      <3>2. Seen(place, view, j)
        BY <3>1 DEF IInv, Fresh
      <3>3. pc'[v] = place /\ req'[v].view = view
        BY <1>10, <3>1
      <3> QED BY <1>1, <2>1, <3>2, <3>3 DEF Seen
    <2>4. Fresh'
      BY <1>1, <1>10, <1>15, <2>2, <2>3 DEF Fresh
    <2>5. \A v \in Worker : req'[v].patch = req[v].patch
      BY <1>2, <1>3, <1>8, <1>10
    <2>6. Settled'
      BY <1>1, <1>10, <2>1, <2>5 DEF IInv, Settled
    <2> QED BY <2>4, <2>6
  <1>17. ASSUME r.alone PROVE Promise("write", r)'
    <2>1. /\ Sound(p, stored)
          /\ \A i \in 1..(n - 1) : Order[i] \in DOMAIN p => stored[Order[i]] = p[Order[i]]
      BY <1>1, <1>2, <1>3, <1>4, <1>8, <1>17, Known DEF Promise
    <2>2. \A j \in Key : Merged(stored, p, j)' = Merged(stored, p, j)
      BY <1>11 DEF Merged, Picked
    <2>3. Sound(p, stored)'
      BY <2>1, <2>2 DEF Sound, Key, DaysKeys, OnKeys
    <2>4. \A i \in 1..n : Order[i] \in DOMAIN p => stored'[Order[i]] = p[Order[i]]
      <3> SUFFICES ASSUME NEW i \in 1..n, Order[i] \in DOMAIN p PROVE stored'[Order[i]] = p[Order[i]]
        OBVIOUS
      <3>1. CASE i = n
        BY <1>5, <1>11, <3>1
      <3>2. CASE i # n
        <4>1. i \in 1..(n - 1) /\ Order[i] \in Key
          BY <3>2, OrderFacts
        <4> QED BY <1>11, <2>1, <4>1
      <3> QED BY <3>1, <3>2
    <2>5. r.next - 1 = n
      BY <1>8
    <2> QED BY <1>8, <2>3, <2>4, <2>5 DEF Promise
  <1>18. Calm'
    BY <1>1, <1>10, <1>15, <1>17 DEF Calm, Promise
  <1> QED BY <1>12, <1>13, <1>14, <1>16, <1>18 DEF IInv

-----------------------------------------------------------------------------
(***************************************************************************)
(* Requests that begin, and what happens around them                       *)
(***************************************************************************)
LEMMA NotAlone ==
  ASSUME IInv, NEW v \in Worker
  PROVE  /\ [req[v] EXCEPT !.alone = FALSE] \in Request \cup {Blank}
         /\ [req[v] EXCEPT !.alone = FALSE].alone = FALSE
         /\ [req[v] EXCEPT !.alone = FALSE].view = req[v].view
         /\ [req[v] EXCEPT !.alone = FALSE].patch = req[v].patch
         /\ Placed(pc[v], [req[v] EXCEPT !.alone = FALSE])
  <1>1. CASE req[v] = Blank
    <2>1. Placed(pc[v], Blank)
      BY <1>1, Known
    <2> QED BY <1>1, <2>1, BlankFacts
  <1>2. CASE req[v] # Blank
    <2>1. PICK q \in Request : q = req[v]
      BY <1>2, Known DEF Placed
    <2>2. PICK d : d = [q EXCEPT !.alone = FALSE]
      OBVIOUS
    <2>3. d \in Request /\ d.alone = FALSE /\ d.view = q.view /\ d.op = q.op /\ d.patch = q.patch
      BY <2>1, <2>2 DEF Request
    <2>4. Placed(pc[v], q) /\ pc[v] # "idle"
      BY <1>2, <2>1, Known DEF Placed
    <2>5. Placed(pc[v], d)
      BY <2>3, <2>4 DEF Placed
    <2> QED BY <2>1, <2>2, <2>3, <2>5
  <1> QED BY <1>1, <1>2

LEMMA BeginIInv ==
  ASSUME IInv, NEW w \in Worker, NEW next \in {"write", "region"}, NEW r \in Request,
         Begin(w, r, next), UNCHANGED <<stored, region, tenant, late>>,
         agreed' \subseteq agreed,
         next = "write" => r.op = "put" /\ r.patch \in Patch /\ agreed' \cap DOMAIN r.patch = {},
         Promise(next, r), Whole(next, r.view), \A k \in agreed' : Seen(next, r.view, k)
  PROVE  IInv'
  <1>1. PICK c \in BOOLEAN : c = (late = {} /\ \A x \in Worker : pc[x] = "idle")
    OBVIOUS
  <1>2. PICK b : b = [r EXCEPT !.alone = c]
    OBVIOUS
  <1>3. /\ b \in Request /\ b.alone = c /\ b.op = r.op /\ b.patch = r.patch
        /\ b.view = r.view /\ b.next = r.next
    BY <1>2 DEF Request
  <1>4. /\ pc[w] = "idle" /\ pc' = [pc EXCEPT ![w] = next]
        /\ req' = [v \in Worker |-> IF v = w THEN b ELSE [req[v] EXCEPT !.alone = FALSE]]
    BY <1>1, <1>2 DEF Begin
  <1>5. ASSUME NEW v \in Worker
        PROVE  /\ [req[v] EXCEPT !.alone = FALSE] \in Request \cup {Blank}
               /\ [req[v] EXCEPT !.alone = FALSE].alone = FALSE
               /\ [req[v] EXCEPT !.alone = FALSE].view = req[v].view
               /\ Placed(pc[v], [req[v] EXCEPT !.alone = FALSE])
    BY NotAlone
  <1>6. /\ pc' \in [Worker -> Places] /\ pc'[w] = next /\ req'[w] = b
        /\ req' \in [Worker -> Request \cup {Blank}]
    BY <1>3, <1>4, <1>5 DEF IInv, Types, Places
  <1>7. ASSUME NEW v \in Worker \ {w}
        PROVE  /\ pc'[v] = pc[v] /\ req'[v].alone = FALSE /\ req'[v].view = req[v].view
               /\ Placed(pc'[v], req'[v])
    BY <1>4, <1>5 DEF IInv, Types
  <1>8. Placed(next, b)
    BY <1>3 DEF Placed
  <1>9. \A v \in Worker : Placed(pc[v], req[v])'
    BY <1>6, <1>7, <1>8 DEF Placed
  <1>10. Types'
    BY <1>6, <1>9 DEF IInv, Types
  <1>11. Apart'
    <2>1. c => late' = {} /\ \A v \in Worker \ {w} : pc'[v] = "idle"
      BY <1>1, <1>7
    <2> QED BY <1>3, <1>6, <1>7, <2>1 DEF Apart
  <1>12. /\ Promise(next, b)' /\ Whole(next, b.view)'
         /\ \A k \in agreed' : Seen(next, b.view, k)'
    BY <1>3 DEF Promise, Whole, Seen, Want
  <1>13. Calm'
    BY <1>6, <1>7, <1>12 DEF Calm, Promise
  <1>14. Fresh'
    <2>1. ASSUME NEW v \in Worker \ {w}, NEW k \in agreed' PROVE Seen(pc[v], req[v].view, k)'
      <3>1. PICK place, view : place = pc[v] /\ view = req[v].view
        OBVIOUS
      <3>2. pc'[v] = place /\ req'[v].view = view
        BY <1>7, <3>1
      <3>3. Seen(place, view, k)
        BY <2>1, <3>1 DEF IInv, Fresh, Seen
      <3> QED BY <3>2, <3>3 DEF Seen, Want
    <2>2. Whole(pc[w], req[w].view)' /\ \A k \in agreed' : Seen(pc[w], req[w].view, k)'
      BY <1>6, <1>12 DEF Whole, Seen
    <2> QED BY <1>7, <2>1, <2>2 DEF Fresh
  <1>15. Settled'
    <2>1. \A k : Want(k)' = Want(k)
      BY DEF Want, Picked
    <2>2. \A v \in Worker \ {w} : req'[v].patch = req[v].patch
      BY <1>4, NotAlone
    <2> QED BY <1>3, <1>6, <1>7, <2>1, <2>2 DEF IInv, Settled
  <1> QED BY <1>10, <1>11, <1>13, <1>14, <1>15 DEF IInv

LEMMA Started ==
  ASSUME NEW op \in {"put", "get"}, NEW p \in Patch \cup {<<>>}, NEW view \in Views, NEW r,
         r = [op |-> op, patch |-> p, next |-> 1, view |-> view, alone |-> FALSE]
  PROVE  r \in Request /\ r.op = op /\ r.patch = p /\ r.next = 1 /\ r.view = view
  <1>1. 1 \in 1..(Len(Order) + 1)
    BY OrderFacts
  <1>2. PICK n \in 1..(Len(Order) + 1) : n = 1
    BY <1>1
  <1>3. r = [op |-> op, patch |-> p, next |-> n, view |-> view, alone |-> FALSE]
    BY <1>2
  <1> QED BY <1>2, <1>3 DEF Request, Views

LEMMA PutIInv ==
  ASSUME IInv, NEW w \in Worker, Put(w)
  PROVE  IInv'
  <1>1. PICK p \in Patch : /\ Sound(p, stored) /\ agreed' = agreed \ DOMAIN p
                           /\ Begin(w, [Blank EXCEPT !.op = "put", !.patch = p], "write")
    BY DEF Put
  <1>2. PICK r : r = [Blank EXCEPT !.op = "put", !.patch = p]
    OBVIOUS
  <1>3. r \in Request /\ r.op = "put" /\ r.patch = p /\ r.next = 1
    <2>1. PICK view : view = [k \in Key |-> Nil]
      OBVIOUS
    <2>2. view \in Views
      BY <2>1 DEF Views
    <2>3. r = [op |-> "put", patch |-> p, next |-> 1, view |-> view, alone |-> FALSE]
      BY <1>2, <2>1 DEF Blank
    <2> QED BY <2>2, <2>3, Started
  <1>4. Promise("write", r) /\ Whole("write", r.view) /\ \A k : Seen("write", r.view, k)
    BY <1>1, <1>3 DEF Promise, Whole, Seen
  <1> QED BY <1>1, <1>2, <1>3, <1>4, BeginIInv DEF Put

LEMMA GetIInv ==
  ASSUME IInv, NEW w \in Worker, Get(w)
  PROVE  IInv'
  <1>1. PICK view : view = Public
    OBVIOUS
  <1>2. view \in Views
    BY <1>1, PickedText DEF Public, Views, IInv
  <1>3. PICK r : r = [Blank EXCEPT !.op = "get", !.view = view]
    OBVIOUS
  <1>4. r \in Request /\ r.op = "get" /\ r.view = view
    <2>1. r = [op |-> "get", patch |-> <<>>, next |-> 1, view |-> view, alone |-> FALSE]
      BY <1>3 DEF Blank
    <2> QED BY <1>2, <2>1, Started
  <1>5. Begin(w, r, "region") /\ UNCHANGED <<stored, region, tenant, late, agreed>>
    BY <1>1, <1>3 DEF Get
  <1>6. Promise("region", r) /\ Whole("region", r.view) /\ \A k \in agreed' : Seen("region", r.view, k)
    BY <1>1, <1>4, <1>5 DEF Promise, Whole, Seen, Public, IInv, Types
  <1> QED BY <1>4, <1>5, <1>6, BeginIInv DEF IInv, Types

LEMMA LateDeliveryIInv ==
  ASSUME IInv, LateDelivery
  PROVE  IInv'
  <1>1. PICK view \in late : /\ late' = late \ {view}
                             /\ tenant' \in {Taken(view), tenant}
                             /\ UNCHANGED <<stored, region, pc, req, agreed>>
    BY DEF LateDelivery
  <1>2. view \in Views /\ tenant \in Views
    BY DEF IInv, Types
  <1>3. Taken(view) \in Views /\ \A k \in Key : Taken(view)[k] = IF view[k] = Nil THEN tenant[k] ELSE view[k]
    BY <1>2 DEF Taken, Views
  <1>4. Types'
    BY <1>1, <1>3 DEF IInv, Types, Placed
  <1>5. \A w \in Worker : ~req[w].alone
    BY <1>1 DEF IInv, Apart
  <1>6. Apart' /\ Calm'
    BY <1>1, <1>5 DEF Apart, Calm
  <1>7. \A k : Want(k)' = Want(k)
    BY <1>1 DEF Want, Picked
  <1>8. Fresh'
    BY <1>1, <1>5, <1>7 DEF IInv, Fresh, Seen, Picked
  <1>9. Settled'
    BY <1>1, <1>2, <1>3, <1>7 DEF IInv, Types, Settled
  <1> QED BY <1>4, <1>6, <1>8, <1>9 DEF IInv

LEMMA RegionChangesIInv ==
  ASSUME IInv, RegionChanges
  PROVE  IInv'
  <1>1. /\ region' \in Endpoint \cup {Nil} /\ UNCHANGED <<stored, tenant, pc, late>>
        /\ agreed' = agreed \ {"s3_endpoint"}
        /\ req' = [v \in Worker |-> [req[v] EXCEPT !.alone = FALSE]]
    BY DEF RegionChanges, Without
  <1>2. /\ req' \in [Worker -> Request \cup {Blank}]
        /\ \A v \in Worker : /\ req'[v].alone = FALSE /\ Placed(pc[v], req'[v])
                             /\ req'[v].view = req[v].view /\ req'[v].patch = req[v].patch
    BY <1>1, NotAlone
  <1>3. \A v \in Worker : Placed(pc[v], req[v])'
    BY <1>1, <1>2 DEF Placed
  <1>4. Types'
    BY <1>1, <1>2, <1>3 DEF IInv, Types
  <1>5. \A k \in agreed' : k \in agreed /\ Want(k)' = Want(k) /\ Picked(stored, k)' = Picked(stored, k)
    BY <1>1 DEF Want, Picked
  <1>6. Fresh'
    <2> SUFFICES ASSUME NEW v \in Worker, NEW k \in agreed' PROVE Seen(pc[v], req[v].view, k)'
      BY <1>2 DEF Fresh
    <2>1. PICK place, view : place = pc[v] /\ view = req[v].view
      OBVIOUS
    <2>2. Seen(place, view, k)
      BY <1>5, <2>1 DEF IInv, Fresh
    <2>3. pc'[v] = place /\ req'[v].view = view /\ k # "s3_endpoint"
      BY <1>1, <1>2, <2>1
    <2> QED BY <1>5, <2>2, <2>3 DEF Seen
  <1>7. Settled'
    BY <1>1, <1>2, <1>5 DEF IInv, Settled
  <1> QED BY <1>2, <1>4, <1>6, <1>7 DEF IInv, Apart, Calm

LEMMA InitIInv ==
  ASSUME Init
  PROVE  IInv
  <1>1. Types
    BY DEF Init, Types, Views, Places, Placed
  <1>2. Apart /\ Calm
    BY BlankFacts DEF Init, Apart, Calm
  <1>3. Fresh /\ Settled
    BY BlankFacts DEF Init, Fresh, Settled
  <1> QED BY <1>1, <1>2, <1>3 DEF IInv

LEMMA StepIInv ==
  ASSUME IInv, [Next]_vars
  PROVE  IInv'
  <1>1. CASE UNCHANGED vars
    <2>1. Types' /\ Apart'
      BY <1>1 DEF vars, IInv, Types, Placed, Apart
    <2>2. Calm'
      BY <1>1 DEF vars, IInv, Calm, Promise, Sound, Merged, CleanupHasDays, Picked
    <2>3. /\ \A k : Want(k)' = Want(k) /\ Picked(stored, k)' = Picked(stored, k)
          /\ UNCHANGED <<region, tenant, pc, req, late, agreed>>
      BY <1>1 DEF vars, Want, Picked
    <2>4. /\ \A place, view, k : Seen(place, view, k)' = Seen(place, view, k)
          /\ \A place, view : Whole(place, view)' = Whole(place, view)
      BY <2>3 DEF Seen, Whole
    <2>5. Fresh'
      BY <2>3, <2>4 DEF IInv, Fresh
    <2>6. Settled'
      BY <2>3 DEF IInv, Settled
    <2> QED BY <2>1, <2>2, <2>5, <2>6 DEF IInv
  <1> QED BY <1>1, PutIInv, UpsertIInv, ReadPublicIInv, GetIInv, ReadRegionIInv, ReadRuntimeIInv,
             DeliveredIInv, QuitIInv, GiveUpIInv, LateDeliveryIInv, RegionChangesIInv DEF Next, Step

\* Every state of every behaviour satisfies the inductive invariant.
THEOREM Invariance == Spec => []IInv
  <1> QED BY InitIInv, StepIInv, PTL DEF Spec

-----------------------------------------------------------------------------
(***************************************************************************)
(* What follows                                                            *)
(***************************************************************************)
\* Every variable always holds a value of its type; in particular no row ever
\* gets the text of a key of another kind (handler.go, put: a block of its own for
\* each key).
THEOREM TypeCorrect == Spec => []TypeOK
  <1>1. IInv => TypeOK
    BY DEF IInv, Types, TypeOK, Views, Places
  <1> QED BY <1>1, Invariance, PTL

\* A PUT that nothing overlapped with leaves no cleanup enabled without days,
\* whatever keys the patch names and whatever the rows held (handler.go,
\* validateUpdate).
THEOREM PutsAreConsistent == Spec => []PutIsConsistent
  <1>1. IInv => PutIsConsistent
    BY DEF IInv, Calm, Promise, PutIsConsistent
  <1> QED BY <1>1, Invariance, PTL

\* Once a GET or PUT that nothing overlapped with went through with all its
\* reads, the tenant API holds each key that has a value until a PUT names it,
\* whatever other PUTs, GETs and abandoned pushes do, reads of theirs that fail
\* included; but the endpoint only until the region changes, or regions.List
\* fails while there is a default region (handler.go, projectTenant).
THEOREM TenantAgrees == Spec => []TenantAgreement
  <1>1. IInv => TenantAgreement
    BY DEF IInv, Settled, TenantAgreement
  <1> QED BY <1>1, Invariance, PTL
=============================================================================

------------------------------ MODULE Regions ------------------------------
(***************************************************************************)
(* Storage regions, which of them is the default, and the accounts bound   *)
(* to them (internal/regions, and the region checks of internal/accounts). *)
(* Creating and updating a region is one transaction at READ COMMITTED     *)
(* whose first statement may clear the default; deleting one is three      *)
(* statements on their own; so is binding an account.                      *)
(***************************************************************************)
CONSTANTS
    Worker,   \* goroutines serving requests at the same time
    Region,   \* ids of storage_regions, never reused, and with them their codes
    Account,  \* tenant accounts, which exist throughout
    Nil,      \* SQL NULL, no row yet
    Gone      \* a region that was deleted

Row == [def : BOOLEAN, active : BOOLEAN]

ASSUME RegionsAssumption ==
    /\ Nil \notin Region
    /\ Nil \notin BOOLEAN
    /\ Nil \notin Row
    /\ Gone \notin Row

VARIABLES
    regions,  \* storage_regions: id -> row, Nil or Gone
    bound,    \* tenant_accounts.storage_region_id
    pc, req   \* where each goroutine is, and its local variables

vars == <<regions, bound, pc, req>>

Exists(r) == regions[r] \notin {Nil, Gone}
Defaults  == {r \in Region : Exists(r) /\ regions[r].def}
Bound(r)  == {a \in Account : bound[a] = r}

(***************************************************************************)
(* Local variables.  `snap' is what the UPDATE that clears the default     *)
(* found when it began, `locked' the rows it then changed, still unseen by *)
(* others.  `alone' is history: no other request was under way meanwhile.  *)
(***************************************************************************)
Blank   == [op |-> Nil, region |-> Nil, def |-> FALSE, active |-> FALSE,
            set |-> FALSE, snap |-> {}, locked |-> {}, account |-> Nil, alone |-> FALSE]
Request == [op : {"insert", "update", "delete", "bind"}, region : Region \cup {Nil},
            def : BOOLEAN, active : BOOLEAN, set : BOOLEAN, snap : SUBSET Region,
            locked : SUBSET Region, account : Account \cup {Nil}, alone : BOOLEAN]

Begin(w, r, next) ==
    /\ pc[w] = "idle"
    /\ pc' = [pc EXCEPT ![w] = next]
    /\ req' = [v \in Worker |->
                  IF v = w THEN [r EXCEPT !.alone = \A x \in Worker : pc[x] = "idle"]
                  ELSE [req[v] EXCEPT !.alone = FALSE]]

GoOn(w, r, next) ==
    /\ pc' = [pc EXCEPT ![w] = next]
    /\ req' = [req EXCEPT ![w] = r]

Finish(w) == GoOn(w, Blank, "idle")

\* Another transaction has changed one of these rows and not yet committed.
Held(w, rows) == \E v \in Worker \ {w} : req[v].locked \cap rows # {}

-----------------------------------------------------------------------------
(***************************************************************************)
(* Insert and Update                                                       *)
(***************************************************************************)
\* create: Insert clears the default only for a region that takes it.
Create(w) ==
    /\ \E r \in Region, def \in BOOLEAN, active \in BOOLEAN :
        /\ regions[r] = Nil
        /\ Begin(w, [Blank EXCEPT !.op = "insert", !.region = r, !.def = def, !.active = active,
                                  !.set = def, !.snap = IF def THEN Defaults ELSE {}], "clear")
    /\ UNCHANGED <<regions, bound>>

\* update: read the region and merge the patch into it.  Without is_default
\* in the patch the value read here is what will be written (`set' is FALSE).
LoadRegion(w) ==
    /\ \E r \in Region, asked \in {TRUE, FALSE, Nil}, active \in BOOLEAN :
        /\ Exists(r)
        /\ Begin(w, [Blank EXCEPT !.op = "update", !.region = r, !.active = active,
                                  !.def = IF asked = Nil THEN regions[r].def ELSE asked,
                                  !.set = (asked = TRUE)], "begin")
    /\ UNCHANGED <<regions, bound>>

\* Update clears the default of the other regions when the patch takes it.
BeginUpdate(w) ==
    /\ pc[w] = "begin"
    /\ GoOn(w, [req[w] EXCEPT !.snap = IF req[w].set THEN Defaults \ {req[w].region} ELSE {}],
            "clear")
    /\ UNCHANGED <<regions, bound>>

\* Mutant of ClearDefault: a statement of its own, committed at once.
ClearAtOnce(w) ==
    /\ pc[w] = "clear"
    /\ ~Held(w, req[w].snap)
    /\ regions' = [r \in Region |-> IF r \in req[w].snap /\ Exists(r)
                                    THEN [regions[r] EXCEPT !.def = FALSE] ELSE regions[r]]
    /\ GoOn(w, [req[w] EXCEPT !.snap = {}], "write")
    /\ UNCHANGED bound

\* Rows another transaction has locked are waited for and looked at again.
ClearDefault(w) ==
    /\ pc[w] = "clear"
    /\ ~Held(w, req[w].snap)
    /\ GoOn(w, [req[w] EXCEPT !.snap = {}, !.locked = req[w].snap \cap Defaults], "write")
    /\ UNCHANGED <<regions, bound>>

\* Mutant of Admits: no partial unique index.
AdmitsAny(w) == TRUE

\* The partial unique index on the default, as this transaction sees the rows.
Admits(w) == req[w].def => Defaults \subseteq req[w].locked \cup {req[w].region}

\* The INSERT, or the UPDATE of the row (waited for when locked), and the
\* commit.  A violated index or a row that is gone rolls everything back; so
\* does, for an INSERT, an id that was taken meanwhile: the code is taken.
Write(w) ==
    /\ pc[w] = "write"
    /\ ~Held(w, {req[w].region})
    /\ LET me    == req[w].region
           valid == /\ Admits(w)
                    /\ IF req[w].op = "insert" THEN regions[me] = Nil ELSE Exists(me)
       IN  regions' = IF ~valid THEN regions
                      ELSE [r \in Region |->
                              IF r = me THEN [def |-> req[w].def, active |-> req[w].active]
                              ELSE IF r \in req[w].locked THEN [regions[r] EXCEPT !.def = FALSE]
                              ELSE regions[r]]
    /\ Finish(w)
    /\ UNCHANGED bound

-----------------------------------------------------------------------------
(***************************************************************************)
(* Delete                                                                  *)
(***************************************************************************)
\* GetByID; the default is refused.
LoadForDelete(w) ==
    /\ \E r \in Region :
        /\ Exists(r)
        /\ ~regions[r].def
        /\ Begin(w, [Blank EXCEPT !.op = "delete", !.region = r], "count")
    /\ UNCHANGED <<regions, bound>>

\* Mutant of BoundCount: the count is not looked at.
BoundCountIgnored(w) ==
    /\ pc[w] = "count"
    /\ GoOn(w, req[w], "delete")
    /\ UNCHANGED <<regions, bound>>

\* boundCount; a region with accounts is refused.
BoundCount(w) ==
    /\ pc[w] = "count"
    /\ IF Bound(req[w].region) = {} THEN GoOn(w, req[w], "delete") ELSE Finish(w)
    /\ UNCHANGED <<regions, bound>>

\* The DELETE names the id only; the foreign key sets what is bound to NULL.
DeleteRegion(w) ==
    /\ pc[w] = "delete"
    /\ ~Held(w, {req[w].region})
    /\ regions' = [regions EXCEPT ![req[w].region] = Gone]
    /\ bound' = [a \in Account |-> IF bound[a] = req[w].region THEN Nil ELSE bound[a]]
    /\ Finish(w)

-----------------------------------------------------------------------------
(***************************************************************************)
(* The region of an account                                                *)
(***************************************************************************)
\* accounts update: read the row; checkRegion wants a region of the patch to
\* be there and active.  Without one the region read here is written again.
LoadAccount(w) ==
    /\ \E a \in Account :
        \E r \in {bound[a], Nil} \cup {x \in Region : Exists(x) /\ regions[x].active} :
        Begin(w, [Blank EXCEPT !.op = "bind", !.account = a, !.region = r], "bind")
    /\ UNCHANGED <<regions, bound>>

\* Mutant of Bind: no foreign key.
BindUnchecked(w) ==
    /\ pc[w] = "bind"
    /\ bound' = [bound EXCEPT ![req[w].account] = req[w].region]
    /\ Finish(w)
    /\ UNCHANGED regions

\* The UPDATE; the foreign key refuses a region that is gone.
Bind(w) ==
    /\ pc[w] = "bind"
    /\ LET r == req[w].region
       IN  bound' = IF r = Nil \/ Exists(r) THEN [bound EXCEPT ![req[w].account] = r] ELSE bound
    /\ Finish(w)
    /\ UNCHANGED regions

\* Mutant of Abort: the connection goes back to the pool with its transaction.
AbortHolding(w) ==
    /\ pc[w] # "idle"
    /\ GoOn(w, [Blank EXCEPT !.locked = req[w].locked], "idle")
    /\ UNCHANGED <<regions, bound>>

\* A database error, a cancelled context or a crash: the transaction, if there
\* is one, is rolled back.
Abort(w) ==
    /\ pc[w] # "idle"
    /\ Finish(w)
    /\ UNCHANGED <<regions, bound>>

-----------------------------------------------------------------------------
Init ==
    /\ regions = [r \in Region |-> Nil]
    /\ bound = [a \in Account |-> Nil]
    /\ pc = [w \in Worker |-> "idle"]
    /\ req = [w \in Worker |-> Blank]

Step(w) ==
    \/ Create(w) \/ LoadRegion(w) \/ BeginUpdate(w) \/ ClearDefault(w) \/ Write(w)
    \/ LoadForDelete(w) \/ BoundCount(w) \/ DeleteRegion(w)
    \/ LoadAccount(w) \/ Bind(w) \/ Abort(w)

Next == \E w \in Worker : Step(w)

Spec == Init /\ [][Next]_vars

-----------------------------------------------------------------------------
(***************************************************************************)
(* Properties                                                              *)
(***************************************************************************)
\* Every variable holds a value of its type.
TypeOK ==
    /\ regions \in [Region -> Row \cup {Nil, Gone}]
    /\ bound \in [Account -> Region \cup {Nil}]
    /\ pc \in [Worker -> {"idle", "begin", "clear", "write", "count", "delete", "bind"}]
    /\ req \in [Worker -> Request \cup {Blank}]

\* However requests that set the default interleave, no two regions are the
\* default: those that clear the same row wait for one another, and those that
\* found no default to clear meet the index (migration 00002).
OneDefault == \A r, s \in Defaults : r = s

\* Making another region the default never leaves none, wherever it stops: the
\* only steps after which no region is the default are a DELETE of the default
\* and an update that writes it back without the flag (store.go, Update).
DefaultHandedOver ==
    [][(Defaults # {} /\ Defaults' = {}) =>
          \E w \in Worker : /\ pc[w] \in {"write", "delete"} /\ pc'[w] = "idle"
                            /\ req[w].region \in Defaults]_vars

\* No account refers to a region that is not there, though accounts write the
\* region they read or checked a statement earlier (migration 00004).
BindingsExist == \A a \in Account : bound[a] # Nil => Exists(bound[a])

\* A delete that overlapped with no other request never removes the default or
\* a region that accounts are bound to (store.go, Delete).
DeleteIsChecked ==
    \A w \in Worker : (pc[w] = "delete" /\ req[w].alone)
        => req[w].region \notin Defaults /\ Bound(req[w].region) = {}

\* README.md:40 says a region cannot be deleted while accounts are bound to it.
\* Broken by an account that is bound after the count.
BoundNotDeleted ==
    [][\A r \in Region : (Exists(r) /\ regions'[r] = Gone) => Bound(r) = {}]_vars
=============================================================================

------------------------------ MODULE Settings ------------------------------
(***************************************************************************)
(* The system settings and the copy the tenant API gets (internal/settings,*)
(* project.PutSettings).  A PUT reads all rows, checks the patch against   *)
(* them, and upserts the keys it names one statement each, in a fixed      *)
(* order and in no transaction.  Every PUT and every GET then reads what   *)
(* the tenant needs, in three statements, and pushes it; a push that fails *)
(* is only logged.                                                         *)
(***************************************************************************)
EXTENDS Naturals, FiniteSets, Sequences

CONSTANTS
    Worker,    \* goroutines serving requests at the same time
    Pairs,     \* <<days, enabled>>: the two keys of each kind of cleanup
    Plain,     \* keys of Runtime; "s3_endpoint" gives way to the default region
    Order,     \* all keys, in the order put writes them
    Endpoint,  \* values of the keys in Plain
    Fallback,  \* what a key is read as without a value (defaults, environment)
    MaxLate,   \* bound: abandoned pushes in flight at the same time
    Nil        \* no row, no such key in a push, no region

DaysKeys == {p[1] : p \in Pairs}
OnKeys   == {p[2] : p \in Pairs}
Key      == Plain \cup DaysKeys \cup OnKeys

\* The texts a patch may name; days are no day or some.  A patch that names a
\* masked secret does not name the key.
Texts(k) == IF k \in DaysKeys THEN {"0", "7"}
            ELSE IF k \in OnKeys THEN {"true", "false"} ELSE Endpoint \cup {""}
Text     == {"0", "7", "true", "false", ""} \cup Endpoint

Patch == {p \in UNION {[D -> Text] : D \in (SUBSET Key) \ {{}}} :
              \A k \in DOMAIN p : p[k] \in Texts(k)}

ASSUME SettingsAssumption ==
    /\ Order \in Seq(Key)
    /\ Key = {Order[n] : n \in DOMAIN Order}
    /\ \A p \in Pairs : Fallback[p[1]] \in {"0", "7"} /\ Fallback[p[2]] = "false"
    /\ \A k \in Plain : Fallback[k] \in Endpoint \cup {Nil}
    /\ "s3_endpoint" \notin DaysKeys \cup OnKeys
    /\ Nil \notin Text
    /\ MaxLate \in Nat

VARIABLES
    stored,   \* system_settings: key -> text or Nil
    region,   \* the endpoint of the active default region, or Nil
    tenant,   \* what the tenant API holds
    pc, req,  \* where each goroutine is, and its local variables
    late,     \* pushes that were given up and may still be served
    agreed    \* history: the keys of which the tenant is known to hold what it should

vars == <<stored, region, tenant, pc, req, late, agreed>>

\* pick, pickInt and pickBool.
Picked(rows, k) == IF rows[k] \in {Nil, ""} THEN Fallback[k] ELSE rows[k]

\* What should be pushed.
Want(k) == IF k = "s3_endpoint" /\ region # Nil THEN region ELSE Picked(stored, k)

(***************************************************************************)
(* Local variables: `next' is the position in Order put has come to,       *)
(* `view' the map projectTenant builds.  `alone' is history: no other      *)
(* request, push or change of the region was under way, and no read failed.*)
(***************************************************************************)
Blank   == [op |-> Nil, patch |-> <<>>, next |-> 1, view |-> [k \in Key |-> Nil], alone |-> FALSE]
Request == [op : {"put", "get"}, patch : Patch \cup {<<>>}, next : 1..(Len(Order) + 1),
            view : [Key -> Text \cup {Nil}], alone : BOOLEAN]

Begin(w, r, next) ==
    /\ pc[w] = "idle"
    /\ pc' = [pc EXCEPT ![w] = next]
    /\ req' = [v \in Worker |->
                  IF v = w THEN [r EXCEPT !.alone = late = {} /\ \A x \in Worker : pc[x] = "idle"]
                  ELSE [req[v] EXCEPT !.alone = FALSE]]

GoOn(w, r, next) ==
    /\ pc' = [pc EXCEPT ![w] = next]
    /\ req' = [req EXCEPT ![w] = r]

Finish(w) == GoOn(w, Blank, "idle")

-----------------------------------------------------------------------------
(***************************************************************************)
(* put                                                                     *)
(***************************************************************************)
\* Mutant of Merged: only the patch is looked at.
MergedPatchOnly(rows, p, k) == IF k \in DOMAIN p THEN p[k] ELSE Nil

Merged(rows, p, k) == IF k \in DOMAIN p THEN p[k] ELSE Picked(rows, k)

\* validateUpdate: all kinds of cleanup, whatever the patch names.
Sound(p, rows) == \A c \in Pairs : Merged(rows, p, c[2]) = "true" => Merged(rows, p, c[1]) # "0"

\* Load and validateUpdate; a patch that fails changes nothing.
Put(w) ==
    /\ pc[w] = "idle"
    /\ \E p \in Patch :
        /\ Sound(p, stored)
        /\ Begin(w, [Blank EXCEPT !.op = "put", !.patch = p], "write")
        /\ agreed' = agreed \ DOMAIN p
    /\ UNCHANGED <<stored, region, tenant, late>>

\* Mutant of Upsert: a copied block that writes another field's value.
UpsertCopied(w) ==
    /\ pc[w] = "write"
    /\ req[w].next <= Len(Order)
    /\ LET k == Order[req[w].next]
       IN  IF k \in DOMAIN req[w].patch
           THEN \E j \in DOMAIN req[w].patch : stored' = [stored EXCEPT ![k] = req[w].patch[j]]
           ELSE UNCHANGED stored
    /\ GoOn(w, [req[w] EXCEPT !.next = @ + 1], "write")
    /\ UNCHANGED <<region, tenant, late, agreed>>

\* Upsert of the next key, when the patch names it.
Upsert(w) ==
    /\ pc[w] = "write"
    /\ req[w].next <= Len(Order)
    /\ LET k == Order[req[w].next]
       IN  stored' = IF k \in DOMAIN req[w].patch
                     THEN [stored EXCEPT ![k] = req[w].patch[k]] ELSE stored
    /\ GoOn(w, [req[w] EXCEPT !.next = @ + 1], "write")
    /\ UNCHANGED <<region, tenant, late, agreed>>

-----------------------------------------------------------------------------
(***************************************************************************)
(* public and projectTenant                                                *)
(***************************************************************************)
Public == [k \in Key |-> IF k \in Plain THEN Nil ELSE Picked(stored, k)]

\* put goes on with public: the settings are read again.
ReadPublic(w) ==
    /\ pc[w] = "write"
    /\ req[w].next > Len(Order)
    /\ GoOn(w, [req[w] EXCEPT !.view = Public], "region")
    /\ UNCHANGED <<stored, region, tenant, late, agreed>>

\* get begins with it.
Get(w) ==
    /\ Begin(w, [Blank EXCEPT !.op = "get", !.view = Public], "region")
    /\ UNCHANGED <<stored, region, tenant, late, agreed>>

\* A read that fails is passed over.
Without(w) == [req[w] EXCEPT !.alone = FALSE]

\* regions.List: the endpoint of the default region.  When it fails that of the
\* settings will be pushed in its place.
ReadRegion(w) ==
    /\ pc[w] = "region"
    /\ \/ /\ GoOn(w, [req[w] EXCEPT !.view = [k \in Key |-> IF k = "s3_endpoint" THEN region
                                                             ELSE @[k]]], "runtime")
          /\ UNCHANGED agreed
       \/ /\ GoOn(w, Without(w), "runtime")
          /\ agreed' = IF region = Nil THEN agreed ELSE agreed \ {"s3_endpoint"}
    /\ UNCHANGED <<stored, region, tenant, late>>

\* Mutant of ReadRuntime: the endpoint of the settings takes precedence.
ReadRuntimeFirst(w) ==
    /\ pc[w] = "runtime"
    /\ GoOn(w, [req[w] EXCEPT !.view = [k \in Key |-> IF k \in Plain THEN Picked(stored, k)
                                                       ELSE @[k]]], "push")
    /\ UNCHANGED <<stored, region, tenant, late, agreed>>

\* Runtime: the credentials, and the endpoint when no region gave one.
ReadRuntime(w) ==
    /\ pc[w] = "runtime"
    /\ \/ GoOn(w, [req[w] EXCEPT !.view =
                      [k \in Key |-> IF k \in Plain /\ @[k] = Nil THEN Picked(stored, k)
                                     ELSE @[k]]], "push")
       \/ GoOn(w, Without(w), "push")
    /\ UNCHANGED <<stored, region, tenant, late, agreed>>

\* The tenant API takes the keys the push names and keeps the others.
Taken(view) == [k \in Key |-> IF view[k] = Nil THEN tenant[k] ELSE view[k]]

Delivered(w) ==
    /\ pc[w] = "push"
    /\ tenant' = Taken(req[w].view)
    /\ agreed' = IF req[w].alone THEN Key ELSE agreed
    /\ Finish(w)
    /\ UNCHANGED <<stored, region, late>>

\* The push fails; the request succeeds all the same.
Refused(w) ==
    /\ pc[w] = "push"
    /\ Finish(w)
    /\ UNCHANGED <<stored, region, tenant, late, agreed>>

\* The client's timeout, a cancelled context or a crash, with the push under way.
GiveUp(w) ==
    /\ pc[w] = "push"
    /\ Cardinality(late) < MaxLate
    /\ late' = late \cup {req[w].view}
    /\ Finish(w)
    /\ UNCHANGED <<stored, region, tenant, agreed>>

\* An abandoned push is served after all, or never.
LateDelivery ==
    \E view \in late :
        /\ late' = late \ {view}
        /\ tenant' \in {Taken(view), tenant}
        /\ UNCHANGED <<stored, region, pc, req, agreed>>

\* A database error, a cancelled context or a crash between two statements.
\* What was upserted stays.
Abort(w) ==
    /\ pc[w] \notin {"idle", "push"}
    /\ Finish(w)
    /\ UNCHANGED <<stored, region, tenant, late, agreed>>

\* Another region becomes the default, or none is, or its endpoint is edited:
\* nobody pushes that.
RegionChanges ==
    /\ "s3_endpoint" \in Plain
    /\ region' \in (Endpoint \cup {Nil}) \ {region}
    /\ req' = [v \in Worker |-> Without(v)]
    /\ agreed' = agreed \ {"s3_endpoint"}
    /\ UNCHANGED <<stored, tenant, pc, late>>

-----------------------------------------------------------------------------
Init ==
    /\ stored = [k \in Key |-> Nil]
    /\ region = Nil
    /\ tenant = [k \in Key |-> Nil]
    /\ pc = [w \in Worker |-> "idle"]
    /\ req = [w \in Worker |-> Blank]
    /\ late = {}
    /\ agreed = {}

Step(w) ==
    \/ Put(w) \/ Upsert(w) \/ ReadPublic(w) \/ Get(w) \/ ReadRegion(w) \/ ReadRuntime(w)
    \/ Delivered(w) \/ Refused(w) \/ GiveUp(w) \/ Abort(w)

Next == (\E w \in Worker : Step(w)) \/ LateDelivery \/ RegionChanges

Spec == Init /\ [][Next]_vars

-----------------------------------------------------------------------------
(***************************************************************************)
(* Properties                                                              *)
(***************************************************************************)
\* Every variable holds a value of its type.
TypeOK ==
    /\ \A k \in Key : stored[k] \in Texts(k) \cup {Nil}
    /\ region \in Endpoint \cup {Nil}
    /\ tenant \in [Key -> Text \cup {Nil}]
    /\ pc \in [Worker -> {"idle", "write", "region", "runtime", "push"}]
    /\ req \in [Worker -> Request \cup {Blank}]
    /\ late \subseteq [Key -> Text \cup {Nil}]
    /\ agreed \subseteq Key

CleanupHasDays(rows) ==
    \A c \in Pairs : Picked(rows, c[2]) = "true" => Picked(rows, c[1]) # "0"

\* A PUT that nothing overlapped with leaves no kind of cleanup enabled without
\* days, whatever an interrupted PUT or a race left before it (handler.go,
\* validateUpdate checks what the rows will be, not only the patch).
PutIsConsistent ==
    \A w \in Worker : (req[w].op = "put" /\ req[w].alone /\ pc[w] \in {"region", "runtime", "push"})
        => CleanupHasDays(stored)

\* A GET or PUT that nothing overlapped with and whose reads and push went
\* through leaves the tenant with the settings, and with the endpoint of the
\* default region before that of the settings.  Each key stays so until a PUT
\* names it, whatever other PUTs, GETs with failing reads and abandoned pushes
\* do; but the endpoint only until the region changes, or regions.List fails
\* while there is a default region (handler.go:181): then any GET pushes the
\* endpoint of the settings over the region's.  Nothing is said of a key that
\* has no value: it is not pushed, and the tenant keeps the one it had.
TenantAgreement ==
    \A k \in agreed : Want(k) # Nil => tenant[k] = Want(k)

\* handler.go:459 says trash cleanup cannot be enabled without days.  Broken by
\* a PUT that stops between its upserts, and by two that overlap.
CleanupNeedsDays == CleanupHasDays(stored)
=============================================================================

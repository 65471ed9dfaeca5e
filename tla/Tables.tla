------------------------------- MODULE Tables -------------------------------
(***************************************************************************)
(* The tables operators edit by hand: lifecycle rules (internal/lifecycle/ *)
(* handler.go, store.go), alert rules and notification channels            *)
(* (internal/alerts/handler.go, store.go).  A request to change a row      *)
(* reads it, merges what the body names, writes EVERY column back in one   *)
(* UPDATE and reads the row again for the answer; there is no transaction, *)
(* lock or version, so requests about one row overlap freely.              *)
(*                                                                         *)
(* The four columns of days of a lifecycle rule are treated alike: one     *)
(* stands for them.  Columns no property tells apart (names, prefixes,     *)
(* severities, descriptions, what an alert rule measures) are left out: a  *)
(* body they make invalid is one that is refused.                          *)
(***************************************************************************)
EXTENDS Naturals, FiniteSets

CONSTANTS
    Worker,         \* goroutines serving requests at the same time
    LifecycleRule, AlertRule, Channel,  \* ids of each table, never reused
    Bucket,         \* platform buckets lifecycle rules may be given to
    Days,           \* numbers of days requests ask for; below 1 is refused
    Type,           \* types of channels in this instance
    Config,         \* what requests put in channels' config: each key's value
    Absent,         \* a column the body of a request does not name
    Nil,            \* SQL NULL, no row yet
    Gone            \* a row that was deleted

Id == LifecycleRule \cup AlertRule \cup Channel

\* channelTypes: the key a channel of each type must have.
KeyOf == [email |-> "recipients", webhook |-> "url", wecom |-> "webhook_url",
          feishu |-> "webhook_url", alertmanager |-> "url"]

\* A column of days holds a positive number or NULL; a request may say anything.
LifecycleRow   == [enabled : BOOLEAN, days : {d \in Days : d >= 1} \cup {Nil}]
LifecyclePatch == [enabled : BOOLEAN \cup {Absent}, days : Days \cup {Nil, Absent}]

RuleRow   == [enabled : BOOLEAN, channel_ids : SUBSET Channel]
RulePatch == [enabled : BOOLEAN \cup {Absent}, channel_ids : (SUBSET Channel) \cup {Absent}]

ChannelRow   == [channel_type : Type, enabled : BOOLEAN, config : Config]
ChannelPatch == [channel_type : Type \cup {Absent}, enabled : BOOLEAN \cup {Absent},
                 config : Config \cup {Absent}]

Column(id) == IF id \in LifecycleRule THEN {"enabled", "days"}
              ELSE IF id \in AlertRule THEN {"enabled", "channel_ids"}
              ELSE {"channel_type", "enabled", "config"}

Row(id) == IF id \in LifecycleRule THEN LifecycleRow
           ELSE IF id \in AlertRule THEN RuleRow ELSE ChannelRow

ASSUME TablesAssumption ==
    /\ LifecycleRule \cap AlertRule = {}
    /\ LifecycleRule \cap Channel = {}
    /\ AlertRule \cap Channel = {}
    /\ Days \subseteq Nat
    /\ Type \subseteq DOMAIN KeyOf
    /\ Config \subseteq [{"recipients", "url", "webhook_url"} -> {"text", "blank", "other", "none"}]
    /\ Absent \notin BOOLEAN /\ Absent \notin Days \cup {Nil}
    /\ Absent \notin Type
    /\ Absent \notin Config /\ \A S \in SUBSET Channel : Absent # S
    /\ \A id \in Id : Nil \notin Row(id) /\ Gone \notin Row(id)
    /\ Nil \notin Id /\ Nil # Gone

VARIABLES
    rows,     \* the three tables: id -> row, Nil before it is inserted, Gone after its deletion
    asked,    \* history: the last value a request that was carried out named for each column
    doubt,    \* history: columns that an overlapping update has written back since
    pc, run   \* where each goroutine is, and its local variables

data == <<rows, asked, doubt>>
vars == <<rows, asked, doubt, pc, run>>

Exists(id) == rows[id] \notin {Nil, Gone}

(***************************************************************************)
(* Local variables of a request: the row it is about and, once it was      *)
(* read, its columns.  `over' is history: the columns other requests may   *)
(* have changed since.                                                     *)
(***************************************************************************)
Blank == [id |-> Nil, row |-> Nil, over |-> {}]

GoOn(w, next, r) ==
    /\ pc' = [pc EXCEPT ![w] = next]
    /\ run' = [run EXCEPT ![w] = r]

Finish(w) == GoOn(w, "idle", Blank)

-----------------------------------------------------------------------------
(***************************************************************************)
(* What the three handlers share                                           *)
(***************************************************************************)
\* GetByID of the row to be changed: not found and errors end the request.
Load(w, ids) ==
    /\ pc[w] = "idle"
    /\ \E id \in ids : Exists(id) /\ GoOn(w, "loaded", [Blank EXCEPT !.id = id, !.row = rows[id]])
    /\ UNCHANGED data

\* A body or an id that is refused, a row that is not there, a statement that
\* failed before it had an effect.
Refuse(w) ==
    /\ pc[w] = "loaded"
    /\ Finish(w)
    /\ UNCHANGED data

Named(id, patch) == {c \in Column(id) : patch[c] # Absent}

\* Mutant of Merge: a body without `enabled' enables the row.
MergeEnabled(id, row, patch) ==
    [c \in Column(id) |-> IF patch[c] # Absent THEN patch[c]
                          ELSE IF c = "enabled" THEN TRUE ELSE row[c]]

\* A row with the columns a body names in place of those it had.
Merge(id, row, patch) == [c \in Column(id) |-> IF patch[c] = Absent THEN row[c] ELSE patch[c]]

\* UPDATE of every column WHERE id = $1: no row is affected when it is gone.
Update(w, patch) ==
    LET id    == run[w].id
        named == Named(id, patch)
        over  == run[w].over
    IN  /\ IF Exists(id)
           THEN /\ rows' = [rows EXCEPT ![id] = Merge(id, run[w].row, patch)]
                /\ asked' = [asked EXCEPT ![id] =
                       [c \in Column(id) |-> IF c \in named THEN patch[c] ELSE @[c]]]
                /\ doubt' = [doubt EXCEPT ![id] = (@ \cup over) \ named]
           ELSE UNCHANGED data
        /\ \E next \in {"answer", "idle"} :  \* an error may hide an UPDATE that took effect
             /\ pc' = [pc EXCEPT ![w] = next]
             /\ run' = [v \in Worker |->
                           IF v = w THEN IF next = "idle" THEN Blank ELSE [Blank EXCEPT !.id = id]
                           ELSE IF run[v].id = id
                           THEN [run[v] EXCEPT !.over = @ \cup named \cup over]
                           ELSE run[v]]

\* INSERT ... RETURNING id.
Insert(w, ids, row) ==
    /\ \E id \in ids :
        /\ rows[id] = Nil
        /\ rows' = [rows EXCEPT ![id] = row]
        /\ asked' = [asked EXCEPT ![id] = row]
        /\ doubt' = [doubt EXCEPT ![id] = {}]
        /\ \/ GoOn(w, "answer", [Blank EXCEPT !.id = id])
           \/ Finish(w)

\* GetByID once more, for the answer.  A row that is gone is a nil pointer,
\* which the handlers dereference: the goroutine panics.
Answer(w) ==
    /\ pc[w] = "answer"
    /\ \/ Exists(run[w].id) /\ Finish(w)
       \/ ~Exists(run[w].id) /\ GoOn(w, "panicked", Blank)
       \/ Finish(w)  \* an error
    /\ UNCHANGED data

\* net/http recovers: the connection is closed without an answer.
Recover(w) ==
    /\ pc[w] = "panicked"
    /\ Finish(w)
    /\ UNCHANGED data

\* DELETE, in one statement; no row affected is a 404.
Delete(w, ids) ==
    /\ pc[w] = "idle"
    /\ \E id \in ids :
        /\ Exists(id)
        /\ rows' = [rows EXCEPT ![id] = Gone]
        /\ asked' = [asked EXCEPT ![id] = Nil]
        /\ doubt' = [doubt EXCEPT ![id] = {}]
    /\ UNCHANGED <<pc, run>>

-----------------------------------------------------------------------------
(***************************************************************************)
(* Lifecycle rules                                                         *)
(***************************************************************************)
\* Mutant of ValidDays: zero passes.
ValidDaysZero(d) == d \in {Nil, Absent} \/ d \in Nat

\* validDays.
ValidDays(d) == d \in {Nil, Absent} \/ d \in Nat \ {0}

\* Buckets are never deleted, so the one create finds is there at the INSERT.
CreateLifecycle(w) ==
    /\ pc[w] = "idle"
    /\ Bucket # {}
    /\ \E row \in LifecycleRow :
        /\ row.days # Nil  \* requireAction
        /\ Insert(w, LifecycleRule, row)

LoadLifecycle(w) == Load(w, LifecycleRule)

\* A null for a column of days clears it, the last one too; a null for another
\* column is as if it were absent.
UpdateLifecycle(w) ==
    /\ pc[w] = "loaded"
    /\ run[w].id \in LifecycleRule
    /\ \E patch \in LifecyclePatch :
        /\ ValidDays(patch.days)
        /\ Update(w, patch)

RemoveLifecycle(w) == Delete(w, LifecycleRule)

-----------------------------------------------------------------------------
(***************************************************************************)
(* Alert rules                                                             *)
(***************************************************************************)
CreateRule(w) ==
    /\ pc[w] = "idle"
    /\ \E row \in RuleRow : Insert(w, AlertRule, row)

LoadRule(w) == Load(w, AlertRule)

UpdateRule(w) ==
    /\ pc[w] = "loaded"
    /\ run[w].id \in AlertRule
    /\ \E patch \in RulePatch : Update(w, patch)

RemoveRule(w) == Delete(w, AlertRule)

-----------------------------------------------------------------------------
(***************************************************************************)
(* Notification channels                                                   *)
(***************************************************************************)
\* validChannel: the key is there, and not blank; it need not be a string.
ValidChannel(type, config) == config[KeyOf[type]] \in {"text", "other"}

CreateChannel(w) ==
    /\ pc[w] = "idle"
    /\ \E row \in ChannelRow :
        /\ ValidChannel(row.channel_type, row.config)
        /\ Insert(w, Channel, row)

LoadChannel(w) == Load(w, Channel)

\* Mutant of TypeOfUpdate: the type the body names.
TypeOfUpdateNamed(w, patch) ==
    IF patch.channel_type = Absent THEN run[w].row.channel_type ELSE patch.channel_type

\* The type a new config is checked against.
TypeOfUpdate(w, patch) == run[w].row.channel_type

\* What an update takes from its body: not the type.
Taken(patch) == [patch EXCEPT !.channel_type = Absent]

UpdateChannel(w) ==
    /\ pc[w] = "loaded"
    /\ run[w].id \in Channel
    /\ \E patch \in ChannelPatch :
        /\ patch.config # Absent => ValidChannel(TypeOfUpdate(w, patch), patch.config)
        /\ Update(w, Taken(patch))

RemoveChannel(w) == Delete(w, Channel)

-----------------------------------------------------------------------------
Init ==
    /\ rows = [id \in Id |-> Nil]
    /\ asked = [id \in Id |-> Nil]
    /\ doubt = [id \in Id |-> {}]
    /\ pc = [w \in Worker |-> "idle"]
    /\ run = [w \in Worker |-> Blank]

Lifecycles(w) == CreateLifecycle(w) \/ LoadLifecycle(w) \/ UpdateLifecycle(w) \/ RemoveLifecycle(w)
Rules(w)      == CreateRule(w) \/ LoadRule(w) \/ UpdateRule(w) \/ RemoveRule(w)
Channels(w)   == CreateChannel(w) \/ LoadChannel(w) \/ UpdateChannel(w) \/ RemoveChannel(w)
Ends(w)       == Refuse(w) \/ Answer(w) \/ Recover(w)

Next == \E w \in Worker : Lifecycles(w) \/ Rules(w) \/ Channels(w) \/ Ends(w)

Spec == Init /\ [][Next]_vars

-----------------------------------------------------------------------------
(***************************************************************************)
(* Properties                                                              *)
(***************************************************************************)
\* Every variable holds a value of its type.
TypeOK ==
    /\ \A id \in Id : /\ rows[id] \in Row(id) \cup {Nil, Gone}
                      /\ asked[id] \in Row(id) \cup {Nil}
                      /\ doubt[id] \subseteq Column(id)
    /\ pc \in [Worker -> {"idle", "loaded", "answer", "panicked"}]
    /\ \A w \in Worker : /\ run[w].id \in Id \cup {Nil}
                         /\ pc[w] = "loaded" => run[w].row \in Row(run[w].id)
                         /\ run[w].over \subseteq Column(run[w].id)

\* A column holds what the last request to name it asked for, unless an update
\* that had read the row before has written the older value back: requests that
\* do not overlap never lose a change, and an overlap reverts only columns its
\* body does not name (internal/lifecycle/handler.go:227, alerts/handler.go:
\* 189,298).
AskedIsStored ==
    \A id \in Id : Exists(id) =>
        \A c \in Column(id) \ doubt[id] : rows[id][c] = asked[id][c]

\* Whatever overlaps, the config of a channel has the key its type calls for:
\* the type of a channel never changes, and every config stored was checked
\* against it.
ChannelsAreValid ==
    \A ch \in Channel : Exists(ch) => ValidChannel(rows[ch].channel_type, rows[ch].config)

\* A row that was deleted while it was being changed is answered with 404, as
\* the handlers answer for one that was deleted before ("Lifecycle rule not
\* found", internal/lifecycle/handler.go:280).
GoneIsNotFound == \A w \in Worker : pc[w] # "panicked"
=============================================================================

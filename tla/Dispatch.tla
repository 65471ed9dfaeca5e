------------------------------ MODULE Dispatch ------------------------------
(***************************************************************************)
(* What the notification channels of an alert rule are sent when an event  *)
(* fires (Evaluator.fire and dispatch, internal/alerts/evaluate.go and     *)
(* dispatch.go), while operators edit rules and channels (Tables).  The    *)
(* rule, with the ids of its channels, was read when the evaluation began; *)
(* the channels are read in one statement after the event was inserted,    *)
(* and then sent to one after the other.  Which events fire is in Alerts.  *)
(***************************************************************************)
EXTENDS Tables

CONSTANTS
    Evaluator,  \* goroutines evaluating the rules
    EventId     \* ids of alert events (bound: how many events are ever written)

ASSUME DispatchAssumption == Nil \notin EventId /\ \A S \in SUBSET Channel : Nil # S

Outcome == {"queued", "sent", "failed"}

VARIABLES
    got,       \* how often each receiver was sent each event
    notes,     \* details.notifications of each event: channel -> outcome, or Nil
    listed,    \* history: the channels the dispatch of each event was told of
    quiet,     \* history: channels that were not enabled at any time since the event fired
    step, loc  \* where each evaluator is, and its local variables

sending  == <<got, notes, listed, step, loc>>
dispatch == <<got, notes, listed, quiet, step, loc>>

NoResults == [ch \in {} |-> Nil]

EvBlank == [rule |-> Nil, ids |-> {}, event |-> Nil, todo |-> {}, results |-> NoResults]

Proceed(e, next, l) ==
    /\ step' = [step EXCEPT ![e] = next]
    /\ loc' = [loc EXCEPT ![e] = l]

\* A channel, and what the listing read of it.
Copy == [id : Channel, type : Type, config : Config]

Enabled(ch) == Exists(ch) /\ rows[ch].enabled

\* Once an event has fired, a channel that is enabled is no longer quiet.
Hush == quiet' = [v \in EventId |-> {ch \in quiet[v] : ~(Enabled(ch)')}]

-----------------------------------------------------------------------------
\* ListEnabledRules: the rule is read with its channel_ids.
ReadRule(e) ==
    /\ step[e] = "idle"
    /\ \E r \in AlertRule :
        /\ Exists(r)
        /\ rows[r].enabled
        /\ Proceed(e, "rule", [EvBlank EXCEPT !.rule = r, !.ids = rows[r].channel_ids])
    /\ UNCHANGED <<got, notes, listed, quiet>>

\* fire: InsertEvent; then dispatch, unless the rule had no channels.
Fire(e) ==
    /\ step[e] = "rule"
    /\ \E v \in EventId :
        /\ listed[v] = Nil
        /\ listed' = [listed EXCEPT ![v] = {}]
        /\ quiet' = [quiet EXCEPT ![v] = {ch \in Channel : ~Enabled(ch)}]
        /\ Proceed(e, IF loc[e].ids = {} THEN "rule" ELSE "list", [loc[e] EXCEPT !.event = v])
    /\ UNCHANGED <<got, notes>>

\* The rule's last target is done with.
LeaveRule(e) ==
    /\ step[e] = "rule"
    /\ Proceed(e, "idle", EvBlank)
    /\ UNCHANGED <<got, notes, listed, quiet>>

\* Mutant of Listed: every channel of the rule, enabled or not.
ListedAll(ids) == {ch \in ids : Exists(ch)}

\* The rows ListEnabledChannels finds; an id twice in the rule is one row.
Listed(ids) == {ch \in ids : Enabled(ch)}

\* ListEnabledChannels; its error is logged and nothing is sent.
ListChannels(e) ==
    /\ step[e] = "list"
    /\ \/ LET chans == Listed(loc[e].ids) IN
          /\ listed' = [listed EXCEPT ![loc[e].event] = chans]
          /\ Proceed(e, "send", [loc[e] EXCEPT
                 !.todo = {[id |-> ch, type |-> rows[ch].channel_type, config |-> rows[ch].config] :
                              ch \in chans}])
       \/ /\ Proceed(e, "rule", loc[e])
          /\ UNCHANGED listed
    /\ UNCHANGED <<got, notes, quiet>>

\* prepareSend, configString: what is not a string is no address.
Sendable(copy) == copy.config[KeyOf[copy.type]] = "text"

\* Mutant of Report: the error of postJSON is dropped.
ReportAlways(copy, answered) == IF copy.type = "email" THEN "queued" ELSE "sent"

\* The outcome sendChannel reports: any answer at all, 500 too, is "sent".
Report(copy, answered) ==
    IF copy.type = "email" THEN "queued"
    ELSE IF Sendable(copy) /\ answered THEN "sent" ELSE "failed"

\* sendChannel.  The channels are listed in no given order; a POST whose answer
\* is lost may have arrived.
SendChannel(e) ==
    /\ step[e] = "send"
    /\ \E copy \in loc[e].todo, answered, arrives \in BOOLEAN :
        LET posts == copy.type # "email" /\ Sendable(copy)
            v     == loc[e].event
        IN  /\ answered => posts /\ arrives
            /\ arrives => posts
            /\ got' = [got EXCEPT ![v][copy.id] = IF arrives THEN @ + 1 ELSE @]
            /\ Proceed(e, "send", [loc[e] EXCEPT
                   !.todo = @ \ {copy},
                   !.results = [ch \in DOMAIN @ \cup {copy.id} |->
                                   IF ch = copy.id THEN Report(copy, answered) ELSE @[ch]]])
    /\ UNCHANGED <<notes, listed, quiet>>

\* UpdateEventDetails; an error is only logged.
Record(e) ==
    /\ step[e] = "send"
    /\ loc[e].todo = {}
    /\ \/ notes' = [notes EXCEPT ![loc[e].event] = loc[e].results]
       \/ UNCHANGED notes
    /\ Proceed(e, "rule", [loc[e] EXCEPT !.results = NoResults])
    /\ UNCHANGED <<got, listed, quiet>>

\* The request is cancelled, or the process stops, at any point.
Stop(e) ==
    /\ step[e] # "idle"
    /\ Proceed(e, "idle", EvBlank)
    /\ UNCHANGED <<got, notes, listed, quiet>>

Evaluation(e) ==
    ReadRule(e) \/ Fire(e) \/ LeaveRule(e) \/ ListChannels(e) \/ SendChannel(e) \/ Record(e) \/ Stop(e)

-----------------------------------------------------------------------------
DispatchInit ==
    /\ Init
    /\ got = [v \in EventId |-> [ch \in Channel |-> 0]]
    /\ notes = [v \in EventId |-> Nil]
    /\ listed = [v \in EventId |-> Nil]
    /\ quiet = [v \in EventId |-> {}]
    /\ step = [e \in Evaluator |-> "idle"]
    /\ loc = [e \in Evaluator |-> EvBlank]

Edit == Next /\ Hush /\ UNCHANGED sending

DispatchNext ==
    \/ Edit
    \/ \E e \in Evaluator : Evaluation(e) /\ UNCHANGED vars

DispatchSpec == DispatchInit /\ [][DispatchNext]_<<vars, dispatch>>

-----------------------------------------------------------------------------
(***************************************************************************)
(* Properties                                                              *)
(***************************************************************************)
\* Every variable holds a value of its type.
DispatchTypeOK ==
    /\ TypeOK
    /\ got \in [EventId -> [Channel -> Nat]]
    /\ \A v \in EventId : notes[v] # Nil => \A ch \in DOMAIN notes[v] : notes[v][ch] \in Outcome
    /\ listed \in [EventId -> {Nil} \cup SUBSET Channel]
    /\ quiet \in [EventId -> SUBSET Channel]
    /\ step \in [Evaluator -> {"idle", "rule", "list", "send"}]
    /\ \A e \in Evaluator : loc[e].todo \subseteq Copy

\* No receiver is sent an event twice, however often evaluations overlap, fail
\* or stop; and the notifications an event records are the truth: every channel
\* that was listed and no other, "sent" only what arrived.
NotesAreTrue ==
    \A v \in EventId :
        /\ \A ch \in Channel : got[v][ch] <= 1
        /\ notes[v] # Nil =>
            /\ DOMAIN notes[v] = listed[v]
            /\ \A ch \in Channel : got[v][ch] = 1 => ch \in DOMAIN notes[v]
            /\ \A ch \in listed[v] : /\ notes[v][ch] = "sent" => got[v][ch] = 1
                                     /\ notes[v][ch] = "queued" => got[v][ch] = 0

\* A channel that has been disabled or deleted ever since before an event fired
\* is sent nothing of it, though the evaluation read the rule's channels before
\* that.
QuietGetsNothing == \A v \in EventId : \A ch \in quiet[v] : got[v][ch] = 0
=============================================================================

------------------------------- MODULE Alerts -------------------------------
(***************************************************************************)
(* Alert events from the moment they are fired to the moment somebody is   *)
(* told: the event bus of the API process writes them, the keeper's        *)
(* notification engine delivers them in passes over the fired rows, and    *)
(* the API routes acknowledge or escalate them, edit the alert rule and    *)
(* delete channels, all against the same tables.                           *)
(*                                                                         *)
(* Two facts about the repository are parameters, so that the engine can   *)
(* also be checked on databases that have what it assumes:                 *)
(*   Links    - whether an inserted row carries alert_rule_id (no writer   *)
(*              of the repository sets it: {FALSE});                       *)
(*   Columns  - whether notifications.delivered_at exists (neither a       *)
(*              migration nor schema.ts adds it: {FALSE}). Without it the  *)
(*              UPDATE after a successful delivery fails and the           *)
(*              transaction of that channel is rolled back.                *)
(* One alert rule; the order of channel_ids is abstracted to a set.        *)
(***************************************************************************)
EXTENDS Integers, Sequences, FiniteSets

CONSTANTS Channel,        \* notification_channels rows
          EmailChannels,  \* those of type 'email'
          Misconfigured,  \* those without a usable address
          Key,            \* (event_type, org, message) of a bus event
          Emitter,        \* emissions under way in API processes
          Pass,           \* processFiredAlerts calls under way in the keeper
          Request,        \* API requests under way
          ChannelLists,   \* values of channel_ids and escalation_channels
          EscalationLists,
          Links, Columns,
          FlapThreshold,  \* FLAPPING_THRESHOLD
          MaxAlerts, MaxEmits, MaxKeeperAlerts,
          MaxEvents,      \* bound: API calls, failing statements, restarts and
                          \* windows that lapse
          MaxSends

None == "none"

\* The tracker suppresses at a positive threshold; the rest are bounds of the
\* model and what an organization may have configured.
ASSUME AlertsAssumption ==
  /\ FlapThreshold \in Nat \ {0} /\ MaxAlerts \in Nat /\ IsFiniteSet(Pass)
  /\ EmailChannels \subseteq Channel
  /\ ChannelLists \subseteq SUBSET Channel /\ EscalationLists \subseteq SUBSET Channel
  /\ Links \subseteq BOOLEAN /\ None \notin Channel

\* The states of the alert_event machine, and the one only the engine writes.
AlertStatus == {"fired", "delivered", "acknowledged", "delivery_failed",
                "delivery_failed_final", "escalated", "partial_delivery"}

AlertTransition ==
  {<<"fired", "delivered">>, <<"fired", "delivery_failed">>,
   <<"delivery_failed", "delivered">>, <<"delivery_failed", "delivery_failed_final">>,
   <<"delivery_failed_final", "escalated">>, <<"delivered", "acknowledged">>}

Terminal == {"acknowledged", "escalated"}

RuleTransition ==
  {<<"active", "paused">>, <<"paused", "active">>,
   <<"active", "deleted">>, <<"paused", "deleted">>}

AlertRow == [status : AlertStatus, linked : BOOLEAN, key : Key, bus : BOOLEAN]

RuleRow == [status : {None, "active", "paused", "deleted"},
            channels : SUBSET Channel, escalation : SUBSET Channel]

ChannelStatus == {None, "active", "deleted"}

VARIABLES alerts,    \* the alert_events rows, in insertion order
          rule,      \* the alert_rules row
          channel,   \* status of each notification_channels row
          recent,    \* (alert, channel) with a notifications row in the dedup window
          received,  \* messages a channel accepted for an alert
          flap,      \* flappingTracker of the keeper process
          pass,      \* the engine's calls under way
          req,       \* API requests between their read and their write
          emitter,   \* bus emissions between their SELECT and their INSERT
          overlap,   \* history: keys a row of which arrived while an emission was
                     \* between its SELECT and its INSERT
          column,    \* notifications.delivered_at exists
          emits, events, clears

vars == <<alerts, rule, channel, recent, received, flap, pass, req, emitter, overlap,
          column, emits, events, clears>>

tables == <<alerts, rule, channel, recent>>
bounds == <<emits, events, clears>>

Row == 1..MaxAlerts

Event == events < MaxEvents /\ events' = events + 1

Idle == [todo |-> {}, cur |-> 0, saw |-> None, channels |-> {}, escalation |-> {},
         rest |-> {}, results |-> {}, sending |-> None]

NoRequest == [kind |-> None]

Init ==
  /\ alerts = <<>>
  /\ \/ /\ rule = [status |-> None, channels |-> {}, escalation |-> {}]
        /\ channel = [c \in Channel |-> None]
     \/ /\ rule \in [status : {"active"}, channels : ChannelLists,
                      escalation : EscalationLists]
        /\ channel = [c \in Channel |-> "active"]
  /\ recent = {} /\ received = [x \in Row \X Channel |-> 0]
  /\ flap = [i \in Row |-> 0]
  /\ pass = [p \in Pass |-> Idle]
  /\ req = [q \in Request |-> NoRequest]
  /\ emitter = [e \in Emitter |-> None] /\ overlap = {}
  /\ column \in Columns
  /\ emits = 0 /\ events = 0 /\ clears = 0

-----------------------------------------------------------------------------
(* The event bus and the keeper's own inserts.                             *)

KnownFired(k) == \E i \in DOMAIN alerts : alerts[i].key = k /\ alerts[i].status = "fired"

\* The deduplication query: any row of the key, in whatever status and however old.
Known(k) == \E i \in DOMAIN alerts : alerts[i].key = k

Inserted(status, linked, k, bus) ==
  /\ Len(alerts) < MaxAlerts
  /\ alerts' = Append(alerts, [status |-> status, linked |-> linked, key |-> k, bus |-> bus])

Fire(linked, k, bus) == Inserted("fired", linked, k, bus)

\* Emissions of k that have looked and not inserted yet, when a row of k arrives.
Overlaps(k, others) ==
  overlap' = IF \E f \in others : emitter[f] = k THEN overlap \cup {k} ELSE overlap

\* persistAlertEvent up to its SELECT: an event whose row exists is dropped.
PersistSelect(e, k) ==
  /\ emitter[e] = None /\ emits < MaxEmits
  /\ emits' = emits + 1
  /\ emitter' = IF Known(k) THEN emitter ELSE [emitter EXCEPT ![e] = k]
  /\ UNCHANGED <<overlap, tables, received, flap, pass, req, column, events, clears>>

PersistInsert(e) ==
  /\ emitter[e] # None
  /\ Fire(FALSE, emitter[e], TRUE)
  /\ Overlaps(emitter[e], Emitter \ {e})
  /\ emitter' = [emitter EXCEPT ![e] = None]
  /\ UNCHANGED <<rule, channel, recent, received, flap, pass, req, column, bounds>>

\* emitRenewalEvent and emitBlobEvent of the keeper write a row with the same type
\* and message as the bus would, without asking whether one exists.
KeeperFires(linked, k) ==
  /\ emits < MaxEmits /\ (linked => rule.status # None)
  /\ Cardinality({i \in DOMAIN alerts : ~alerts[i].bus}) < MaxKeeperAlerts
  /\ Fire(linked, k, FALSE)
  /\ Overlaps(k, Emitter)
  /\ emits' = emits + 1
  /\ UNCHANGED <<rule, channel, recent, received, flap, pass, req, emitter, column,
                 events, clears>>

-----------------------------------------------------------------------------
(* The notification engine. A pass throws when a statement fails: the      *)
(* error is logged, the alert keeps its status and the pass goes on.       *)

\* processFiredAlerts: the ids of the fired rows (LIMIT 50, far above MaxAlerts).
SelectFired(p) ==
  /\ pass[p] = Idle
  /\ LET fired == {i \in DOMAIN alerts : alerts[i].status = "fired"} IN
     /\ fired # {}
     /\ pass' = [pass EXCEPT ![p].todo = fired]
  /\ UNCHANGED <<tables, received, flap, req, emitter, overlap, column, bounds>>

Dropped(p, i) == [pass EXCEPT ![p] = [Idle EXCEPT !.todo = pass[p].todo \ {i}]]

SkippedMost(status) == status \in {"acknowledged", "delivered"}

Skipped(status) == status \in {"acknowledged", "escalated", "delivered"}

FlappingEarly(i) == flap[i] + 2 >= FlapThreshold

FlappingLate(i) == flap[i] >= FlapThreshold

\* checkFlapping counts the passes over an entity, not its events.
Flapping(i) == flap[i] + 1 >= FlapThreshold

\* processAlertEvent up to the channel loop: a second read of the row, the rule
\* (whatever its status) and the flapping filter.
ReadAlert(p, i) ==
  /\ pass[p].cur = 0 /\ i \in pass[p].todo /\ \A j \in pass[p].todo : i <= j
  /\ IF Skipped(alerts[i].status)
     THEN pass' = Dropped(p, i) /\ UNCHANGED flap
     ELSE /\ flap' = [flap EXCEPT ![i] = IF @ < FlapThreshold THEN @ + 1 ELSE @]
          /\ IF Flapping(i)
             THEN pass' = Dropped(p, i)
             ELSE LET chs == IF alerts[i].linked THEN rule.channels ELSE {}
                      esc == IF alerts[i].linked THEN rule.escalation ELSE {}
                  IN pass' = [pass EXCEPT ![p] =
                       [todo |-> pass[p].todo \ {i}, cur |-> i, saw |-> alerts[i].status,
                        channels |-> chs, escalation |-> esc, rest |-> chs,
                        results |-> {}, sending |-> None]]
  /\ UNCHANGED <<tables, received, req, emitter, overlap, column, bounds>>

\* One channel of the loop up to its transaction: an inactive channel, and one
\* with a notification in the dedup window, is skipped without a result.
CheckChannel(p, c) ==
  /\ c \in pass[p].rest /\ pass[p].sending = None
  /\ pass' = [pass EXCEPT ![p].rest = @ \ {c},
                ![p].sending = IF channel[c] = "active" /\ <<pass[p].cur, c>> \notin recent
                               THEN c ELSE None]
  /\ UNCHANGED <<tables, received, flap, req, emitter, overlap, column, bounds>>

Throws(p) == pass' = [pass EXCEPT ![p] = [Idle EXCEPT !.todo = pass[p].todo]]

Receives(i, c) ==
  /\ received[<<i, c>>] < MaxSends
  /\ received' = [received EXCEPT ![<<i, c>>] = @ + 1]

\* send returns a failure without sending when the address is missing, invalid,
\* not HTTPS or internal; otherwise the outcome is the other side's.
CanAccept(c) == c \notin Misconfigured

\* The channel's transaction: the notification row and retryDelivery. What a
\* success leaves behind depends on the column.
Deliver(p, ok) ==
  LET c == pass[p].sending  i == pass[p].cur IN
  /\ c # None /\ (ok => CanAccept(c))
  /\ IF ok THEN Receives(i, c) ELSE UNCHANGED received
  /\ IF ok /\ ~column
     THEN Throws(p) /\ UNCHANGED recent
     ELSE /\ recent' = recent \cup {<<i, c>>}
          /\ pass' = [pass EXCEPT ![p].sending = None, ![p].results = @ \cup {<<c, ok>>}]
  /\ UNCHANGED <<alerts, rule, channel, flap, req, emitter, overlap, column, bounds>>

AfterChannels(p) == pass[p].cur # 0 /\ pass[p].rest = {} /\ pass[p].sending = None

Settle(p, status) ==
  /\ alerts' = [alerts EXCEPT ![pass[p].cur].status = status]
  /\ Throws(p)

Failed(r) == ~r[2]

\* The aggregate transaction when some channel gave a result and not all failed,
\* or when no channel gave one.
Aggregate(p) ==
  LET results == pass[p].results IN
  /\ AfterChannels(p)
  /\ results = {} \/ \E r \in results : ~Failed(r)
  /\ Settle(p, CASE results = {} -> "delivery_failed_final"
                 [] results # {} /\ (\A r \in results : ~Failed(r)) -> "delivered"
                 [] OTHER -> "partial_delivery")
  /\ UNCHANGED <<rule, channel, recent, received, flap, req, emitter, overlap, column, bounds>>

AllFailed(p) == AfterChannels(p) /\ pass[p].results # {} /\ \A r \in pass[p].results : Failed(r)

Escalation(p) == {c \in pass[p].escalation \ pass[p].channels : channel[c] = "active"}

\* All failed, an escalation channel accepts the message.
EscalationDelivers(p, c) ==
  /\ AllFailed(p) /\ c \in Escalation(p) /\ CanAccept(c)
  /\ Receives(pass[p].cur, c)
  /\ IF column
     THEN /\ Settle(p, "delivered")
          /\ \E tried \in SUBSET (Escalation(p) \ {c}) :   \* the ones before it failed
               recent' = recent \cup {<<pass[p].cur, d>> : d \in tried \cup {c}}
     ELSE Throws(p) /\ UNCHANGED <<alerts, recent>>
  /\ UNCHANGED <<rule, channel, flap, req, emitter, overlap, column, bounds>>

\* All failed, the escalation channels too: final, and an e-mail as a last resort
\* in the same transaction.
EscalationFails(p, ok) ==
  LET i == pass[p].cur
      emails == {c \in EmailChannels : channel[c] = "active"}
      tried == {<<i, c>> : c \in Escalation(p)} IN
  /\ AllFailed(p)
  /\ IF emails = {}
     THEN /\ ~ok /\ Settle(p, "delivery_failed_final")
          /\ recent' = recent \cup tried /\ UNCHANGED received
     ELSE \E c \in emails :
          /\ ok => CanAccept(c)
          /\ IF ok THEN Receives(i, c) ELSE UNCHANGED received
          /\ IF ok /\ ~column
             THEN Throws(p) /\ UNCHANGED <<alerts, recent>>
             ELSE /\ Settle(p, "delivery_failed_final")
                  /\ recent' = recent \cup tried \cup {<<i, c>>}
  /\ UNCHANGED <<rule, channel, flap, req, emitter, overlap, column, bounds>>

\* A statement fails, or a commit is lost after the message went out.
StatementFails(p) ==
  /\ pass[p].cur # 0 /\ Event
  /\ Throws(p)
  /\ \/ UNCHANGED received
     \/ pass[p].sending # None /\ Receives(pass[p].cur, pass[p].sending)
  /\ UNCHANGED <<tables, flap, req, emitter, overlap, column, emits, clears>>

\* The keeper process dies and comes back: calls and tracker are gone.
KeeperRestarts ==
  /\ Event /\ clears' = clears + 1
  /\ pass' = [p \in Pass |-> Idle]
  /\ flap' = [i \in Row |-> 0]
  /\ UNCHANGED <<tables, received, req, emitter, overlap, column, emits>>

\* No pass looked at the alert for FLAPPING_WINDOW_MS.
FlapWindowLapses(i) ==
  /\ flap[i] # 0
  /\ Event /\ clears' = clears + 1
  /\ flap' = [flap EXCEPT ![i] = 0]
  /\ UNCHANGED <<tables, received, pass, req, emitter, overlap, column, emits>>

DedupWindowLapses(i, c) ==
  /\ <<i, c>> \in recent /\ Event
  /\ recent' = recent \ {<<i, c>>}
  /\ UNCHANGED <<alerts, rule, channel, received, flap, pass, req, emitter, overlap, column,
                 emits, clears>>

-----------------------------------------------------------------------------
(* The API routes. A request reads and validates, then updates by id.      *)

apiRest == <<recent, received, flap, pass, emitter, overlap, column, emits, clears>>

Pending(q, r) == req[q] = NoRequest /\ Event /\ req' = [req EXCEPT ![q] = r]

Answered(q) == req' = [req EXCEPT ![q] = NoRequest]

\* POST /alert-events/:id/acknowledge and /alerts/alert-events/:id/escalate.
AlertMoveRead(q, i, to) ==
  /\ i \in DOMAIN alerts /\ <<alerts[i].status, to>> \in AlertTransition
  /\ Pending(q, [kind |-> "alert", row |-> i, to |-> to])
  /\ UNCHANGED <<alerts, rule, channel, apiRest>>

AlertMoveWrite(q) ==
  /\ req[q].kind = "alert"
  /\ alerts' = [alerts EXCEPT ![req[q].row].status = req[q].to]
  /\ Answered(q)
  /\ UNCHANGED <<rule, channel, events, apiRest>>

\* POST /alerts/rules.
CreateRule(chs, esc) ==
  /\ rule.status = None /\ Event
  /\ rule' = [status |-> "active", channels |-> chs, escalation |-> esc]
  /\ UNCHANGED <<alerts, channel, req, apiRest>>

\* PATCH /alerts/rules/:id: no look at the status.
PatchRule(chs, esc) ==
  /\ rule.status # None /\ Event
  /\ rule' = [rule EXCEPT !.channels = chs, !.escalation = esc]
  /\ UNCHANGED <<alerts, channel, req, apiRest>>

\* POST /alerts/rules/:id/pause, /activate and DELETE /alerts/rules/:id.
RuleMoveRead(q, to) ==
  /\ <<rule.status, to>> \in RuleTransition
  /\ Pending(q, [kind |-> "rule", to |-> to])
  /\ UNCHANGED <<alerts, rule, channel, apiRest>>

RuleMoveWrite(q) ==
  /\ req[q].kind = "rule"
  /\ rule' = [rule EXCEPT !.status = req[q].to]
  /\ Answered(q)
  /\ UNCHANGED <<alerts, channel, events, apiRest>>

\* POST /alerts/channels.
CreateChannel(c) ==
  /\ channel[c] = None /\ Event
  /\ channel' = [channel EXCEPT ![c] = "active"]
  /\ UNCHANGED <<alerts, rule, req, apiRest>>

\* DELETE /alerts/channels/:id: the reads.
ChannelDeleteRead(q, c) ==
  /\ channel[c] = "active"
  /\ Pending(q, [kind |-> "delete", row |-> c,
                 only |-> rule.status = "active" /\ rule.channels = {c}])
  /\ UNCHANGED <<alerts, rule, channel, apiRest>>

\* The mark, and for a rule that has only this channel the SELECT of its events.
ChannelDeleteMark(q) ==
  /\ req[q].kind = "delete"
  /\ channel' = [channel EXCEPT ![req[q].row] = "deleted"]
  /\ req' = [req EXCEPT ![q] = IF req[q].only THEN [kind |-> "select"] ELSE NoRequest]
  /\ UNCHANGED <<alerts, rule, events, apiRest>>

ChannelDeleteSelect(q) ==
  /\ req[q].kind = "select"
  /\ LET pending == {i \in DOMAIN alerts :
                       alerts[i].linked /\ alerts[i].status \in {"fired", "delivery_failed"}}
     IN req' = [req EXCEPT ![q] = IF pending = {} THEN NoRequest
                                  ELSE [kind |-> "escalate", rows |-> pending]]
  /\ UNCHANGED <<alerts, rule, channel, events, apiRest>>

ChannelDeleteEscalate(q, i) ==
  /\ req[q].kind = "escalate" /\ i \in req[q].rows
  /\ alerts' = [alerts EXCEPT ![i].status = "delivery_failed_final"]
  /\ req' = [req EXCEPT ![q] = IF req[q].rows = {i} THEN NoRequest
                               ELSE [kind |-> "escalate", rows |-> req[q].rows \ {i}]]
  /\ UNCHANGED <<rule, channel, events, apiRest>>

-----------------------------------------------------------------------------
Engine(p) ==
  \/ SelectFired(p)
  \/ \E i \in Row : ReadAlert(p, i)
  \/ \E c \in Channel : CheckChannel(p, c) \/ EscalationDelivers(p, c)
  \/ \E ok \in BOOLEAN : Deliver(p, ok) \/ EscalationFails(p, ok)
  \/ Aggregate(p)

Api(q) ==
  \/ \E i \in Row : \/ AlertMoveRead(q, i, "acknowledged")
                    \/ AlertMoveRead(q, i, "escalated")
                    \/ ChannelDeleteEscalate(q, i)
  \/ AlertMoveWrite(q) \/ RuleMoveWrite(q)
  \/ \E to \in {"active", "paused", "deleted"} : RuleMoveRead(q, to)
  \/ \E c \in Channel : ChannelDeleteRead(q, c)
  \/ ChannelDeleteMark(q) \/ ChannelDeleteSelect(q)

Next ==
  \/ \E e \in Emitter : PersistInsert(e) \/ \E k \in Key : PersistSelect(e, k)
  \/ \E linked \in Links, k \in Key : KeeperFires(linked, k)
  \/ \E p \in Pass : Engine(p) \/ StatementFails(p)
  \/ KeeperRestarts
  \/ \E i \in Row : FlapWindowLapses(i)
  \/ \E i \in Row, c \in Channel : DedupWindowLapses(i, c)
  \/ \E q \in Request : Api(q)
  \/ \E chs \in ChannelLists, esc \in EscalationLists :
       CreateRule(chs, esc) \/ PatchRule(chs, esc)
  \/ \E c \in Channel : CreateChannel(c)

Spec == Init /\ [][Next]_vars

\* The keeper runs a pass in every cycle and finishes what it started.
FairSpec == Spec /\ \A p \in Pass : WF_vars(Engine(p))

-----------------------------------------------------------------------------
PassRecord ==
  [todo : SUBSET Row, cur : 0..MaxAlerts, saw : AlertStatus \cup {None},
   channels : SUBSET Channel, escalation : SUBSET Channel, rest : SUBSET Channel,
   results : SUBSET (Channel \X BOOLEAN), sending : Channel \cup {None}]

\* Every row and every call under way has the shape the code gives it.
TypeOK ==
  /\ Len(alerts) <= MaxAlerts
  /\ \A i \in DOMAIN alerts : alerts[i] \in AlertRow
  /\ rule \in RuleRow
  /\ channel \in [Channel -> ChannelStatus]
  /\ recent \subseteq (DOMAIN alerts) \X {c \in Channel : channel[c] # None}
  /\ flap \in [Row -> 0..FlapThreshold]
  /\ pass \in [Pass -> PassRecord]
  /\ emitter \in [Emitter -> Key \cup {None}]
  /\ column \in Columns

\* persistAlertEvent's SELECT-then-INSERT adds a row to a key that has one (its
\* own or the keeper's) only when the other row arrived between the two
\* statements; whatever became of the first row, a later emission adds none.
OneRowUnlessOverlap ==
  \A k \in Key \ overlap : \A i, j \in DOMAIN alerts :
    i < j /\ alerts[i].key = k /\ alerts[j].key = k => ~alerts[j].bus

\* A channel accepts an alert at most FLAPPING_THRESHOLD - 1 times between two
\* losses of the flapping tracker, although a success that cannot be recorded,
\* a lost commit or an overlapping pass makes the engine send it again.
\* (With the types of the rows and of the passes.)
ResendsBounded ==
  TypeOK /\ \A i \in Row, c \in Channel :
              received[<<i, c>>] <= (FlapThreshold - 1) * (clears + 1)

\* A terminal status (acknowledged, escalated) is lost only to a writer that read
\* the row before it became terminal: an engine call that saw it fired, or a
\* channel deletion that selected it while pending.
TerminalLostToStaleWriter ==
  [][\A i \in DOMAIN alerts :
       alerts[i].status \in Terminal /\ alerts'[i].status # alerts[i].status =>
         \/ \E p \in Pass : /\ pass[p].cur = i /\ pass[p].saw \notin Terminal
                           /\ pass'[p] # pass[p]
         \/ \E q \in Request : /\ req[q].kind \in {"alert", "escalate"}
                              /\ req'[q] # req[q]]_vars

\* An alert without a rule is settled by the engine although one of its passes
\* fails, even when another pass was already counted against it.
UnlinkedSettles ==
  \A i \in Row :
    (i \in DOMAIN alerts /\ alerts[i].status = "fired" /\ ~alerts[i].linked)
      ~> (i \in DOMAIN alerts /\ alerts[i].status # "fired")
=============================================================================

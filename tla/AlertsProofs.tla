---------------------------- MODULE AlertsProofs ----------------------------
(***************************************************************************)
(* What holds of Alerts for any channels, passes, emissions and requests.  *)
(* Shapes says what each call under way is about; a row keeps to one per   *)
(* key because no emission between its two statements has overlooked one;  *)
(* and every send is paid for by a look of the flapping tracker.           *)
(***************************************************************************)
EXTENDS Alerts, FiniteSetTheorems, TLAPS

(* The requests between their read and their write. *)
Requests ==
    {NoRequest}
      \cup [kind : {"alert"}, row : Row, to : Terminal]
      \cup [kind : {"rule"}, to : {"active", "paused", "deleted"}]
      \cup [kind : {"delete"}, row : Channel, only : BOOLEAN]
      \cup [kind : {"select"}]
      \cup [kind : {"escalate"}, rows : SUBSET Row]

Types ==
    /\ alerts \in Seq(AlertRow) /\ Len(alerts) <= MaxAlerts
    /\ rule \in RuleRow
    /\ channel \in [Channel -> ChannelStatus]
    /\ recent \subseteq (DOMAIN alerts) \X {c \in Channel : channel[c] # None}
    /\ received \in [Row \X Channel -> Nat]
    /\ flap \in [Row -> 0..FlapThreshold]
    /\ pass \in [Pass -> PassRecord]
    /\ req \in [Request -> Requests]
    /\ emitter \in [Emitter -> Key \cup {None}]
    /\ column \in Columns
    /\ clears \in Nat

(* A call of the engine: it works on a row it saw unsettled, and a channel *)
(* it has reached is not among those it has yet to try.                    *)
WorkFits(p, rows, status) ==
    /\ p.todo \subseteq rows
    /\ p.cur # 0 => p.cur \in rows /\ ~Skipped(p.saw)
    /\ p.cur = 0 => p.rest = {} /\ p.sending = None /\ p.results = {}
    /\ p.sending # None => status[p.sending] # None /\ p.sending \notin p.rest
    /\ \A c \in Channel : <<c, TRUE>> \in p.results => c \notin p.rest /\ c # p.sending

RequestFits(r, rows) ==
    /\ r.kind = "alert" => r.row \in rows
    /\ r.kind = "escalate" => r.rows \subseteq rows

Shapes ==
    /\ Types
    /\ \A p \in Pass : WorkFits(pass[p], DOMAIN alerts, channel)
    /\ \A q \in Request : RequestFits(req[q], DOMAIN alerts)

(* A call that may still send the alert to the channel. *)
CanSend(p, i, c) == p.cur = i /\ <<c, TRUE>> \notin p.results

Senders(i, c) == {p \in Pass : CanSend(pass[p], i, c)}

-----------------------------------------------------------------------------
(* The table of alerts.                                                    *)

(* An update of a status leaves the rest of the table alone. *)
LEMMA StatusWritten ==
  ASSUME alerts \in Seq(AlertRow), NEW i \in DOMAIN alerts, NEW s \in AlertStatus,
         alerts' = [alerts EXCEPT ![i].status = s]
  PROVE  /\ alerts' \in Seq(AlertRow) /\ Len(alerts') = Len(alerts)
         /\ DOMAIN alerts' = DOMAIN alerts
         /\ \A j \in DOMAIN alerts :
               /\ alerts'[j].key = alerts[j].key /\ alerts'[j].bus = alerts[j].bus
               /\ j # i => alerts'[j] = alerts[j]
<1>1. alerts[i] \in AlertRow
  OBVIOUS
<1> DEFINE row == [alerts[i] EXCEPT !.status = s]
<1>2. row \in AlertRow /\ row.key = alerts[i].key /\ row.bus = alerts[i].bus
  BY <1>1 DEF AlertRow
<1> HIDE DEF row
<1>3. alerts' = [alerts EXCEPT ![i] = row]
  BY DEF row
<1> QED BY <1>2, <1>3

(* An insert leaves the rows that are there alone. *)
LEMMA RowInserted ==
  ASSUME alerts \in Seq(AlertRow), NEW row \in AlertRow, alerts' = Append(alerts, row)
  PROVE  /\ alerts' \in Seq(AlertRow) /\ Len(alerts') = Len(alerts) + 1
         /\ DOMAIN alerts \subseteq DOMAIN alerts'
         /\ alerts'[Len(alerts')] = row
         /\ DOMAIN alerts' = DOMAIN alerts \cup {Len(alerts')}
         /\ \A j \in DOMAIN alerts : alerts'[j] = alerts[j] /\ j < Len(alerts')
  OBVIOUS

LEMMA InsertedRow ==
  ASSUME Types, NEW linked \in BOOLEAN, NEW k \in Key, NEW bus \in BOOLEAN, Fire(linked, k, bus)
  PROVE  \E row \in AlertRow :
            /\ row.key = k /\ (row.bus => bus)
            /\ Len(alerts) < MaxAlerts /\ alerts' = Append(alerts, row)
<1> DEFINE row == [status |-> "fired", linked |-> linked, key |-> k, bus |-> bus]
<1>1. row \in AlertRow /\ row.key = k /\ (row.bus => bus)
  BY DEF AlertRow, AlertStatus
<1> QED BY <1>1 DEF Fire, Inserted

-----------------------------------------------------------------------------
(* The engine.                                                             *)

Moves(p, q) == pass' = [pass EXCEPT ![p] = q]

(* What a call does to the row it works on. *)
Writes(p, q) ==
    \/ UNCHANGED alerts
    \/ /\ pass[p].cur # 0 /\ q.cur = 0
       /\ \E s \in AlertStatus : alerts' = [alerts EXCEPT ![pass[p].cur].status = s]

(* It goes on with its row, or leaves it, and sends nothing. *)
Weakens(p, q) == q.cur = 0 \/ (q.cur = p.cur /\ p.results \subseteq q.results)

Quiet(p, q) == Weakens(pass[p], q) /\ UNCHANGED <<received, flap>>

(* It sends, and can not send to that channel again. *)
Sends(p, q) ==
    /\ Weakens(pass[p], q) /\ UNCHANGED flap /\ pass[p].cur \in Row
    /\ \E c \in Channel : /\ CanSend(pass[p], pass[p].cur, c)
                          /\ ~CanSend(q, pass[p].cur, c)
                          /\ Receives(pass[p].cur, c)

(* It takes a row up, which the flapping tracker counts. *)
Looks(p, q) ==
    \E i \in Row :
        /\ q.cur = 0 \/ (q.cur = i /\ flap[i] + 1 < FlapThreshold)
        /\ flap' = [flap EXCEPT ![i] = IF @ < FlapThreshold THEN @ + 1 ELSE @]
        /\ UNCHANGED received

Works(p, q) ==
    /\ q \in PassRecord /\ WorkFits(q, DOMAIN alerts, channel)
    /\ Moves(p, q) /\ Writes(p, q)
    /\ Quiet(p, q) \/ Sends(p, q) \/ Looks(p, q)
    /\ recent' \subseteq (DOMAIN alerts) \X {c \in Channel : channel[c] # None}
    /\ UNCHANGED <<rule, channel, req, emitter, overlap, column, clears>>

(* The record of a call that is done with its row. *)
LEMMA RestFits ==
  ASSUME AlertsAssumption, Types, NEW rows, rows \subseteq DOMAIN alerts
  PROVE  /\ [Idle EXCEPT !.todo = rows] \in PassRecord
         /\ WorkFits([Idle EXCEPT !.todo = rows], DOMAIN alerts, channel)
         /\ [Idle EXCEPT !.todo = rows].cur = 0
<1>1. rows \subseteq Row
  BY DEF Types, Row, AlertsAssumption
<1>2. Idle \in PassRecord
  BY DEF Idle, PassRecord, AlertsAssumption
<1> DEFINE q == [Idle EXCEPT !.todo = rows]
<1>3. /\ q \in PassRecord /\ q.cur = 0 /\ q.todo = rows
      /\ q.rest = {} /\ q.sending = None /\ q.results = {}
  BY <1>1, <1>2 DEF PassRecord, Idle
<1> HIDE DEF q
<1>4. WorkFits(q, DOMAIN alerts, channel)
  BY <1>3 DEF WorkFits
<1> QED BY <1>3, <1>4 DEF q

LEMMA SelectWorks ==
  ASSUME AlertsAssumption, Shapes, NEW p \in Pass, SelectFired(p)
  PROVE  \E q : Works(p, q)
<1> DEFINE fired == {i \in DOMAIN alerts : alerts[i].status = "fired"}
           q == [Idle EXCEPT !.todo = fired]
<1>1. q \in PassRecord /\ WorkFits(q, DOMAIN alerts, channel) /\ q.cur = 0
  BY RestFits DEF Shapes
<1>2. pass' = [pass EXCEPT ![p] = q]
  <2>1. pass' = [pass EXCEPT ![p].todo = fired] /\ pass[p] = Idle
    BY DEF SelectFired
  <2> QED BY <2>1
<1> HIDE DEF q
<1>3. Quiet(p, q) /\ Writes(p, q) /\ Moves(p, q)
  BY <1>1, <1>2 DEF SelectFired, Quiet, Writes, Moves, Weakens, tables
<1> QED BY <1>1, <1>3 DEF SelectFired, Works, tables, bounds, Shapes, Types

LEMMA ReadWorks ==
  ASSUME AlertsAssumption, Shapes, NEW p \in Pass, NEW i \in Row, ReadAlert(p, i)
  PROVE  \E q : Works(p, q)
<1>1. /\ pass[p] \in PassRecord /\ pass[p].todo \subseteq DOMAIN alerts
      /\ i \in DOMAIN alerts /\ alerts[i] \in AlertRow
      /\ pass[p].todo \ {i} \subseteq DOMAIN alerts
  <2>1. pass[p] \in PassRecord /\ pass[p].todo \subseteq DOMAIN alerts /\ alerts \in Seq(AlertRow)
    BY DEF Shapes, Types, WorkFits
  <2>2. i \in pass[p].todo
    BY DEF ReadAlert
  <2> QED BY <2>1, <2>2
<1>2. UNCHANGED <<alerts, recent, received, rule, channel, req, emitter, overlap, column, clears>>
  BY DEF ReadAlert, tables, bounds
<1> DEFINE d == [Idle EXCEPT !.todo = pass[p].todo \ {i}]
<1>3. d \in PassRecord /\ WorkFits(d, DOMAIN alerts, channel) /\ d.cur = 0
  BY <1>1, RestFits DEF Shapes
<1>4. Dropped(p, i) = [pass EXCEPT ![p] = d]
  BY DEF Dropped
<1> HIDE DEF d
<1>5. CASE Skipped(alerts[i].status)
  <2>1. Quiet(p, d) /\ Writes(p, d) /\ Moves(p, d)
    BY <1>2, <1>3, <1>4, <1>5 DEF ReadAlert, Quiet, Writes, Moves, Weakens
  <2> QED BY <1>2, <1>3, <2>1 DEF Works, Shapes, Types
<1>6. CASE ~Skipped(alerts[i].status) /\ Flapping(i)
  <2>1. Looks(p, d) /\ Writes(p, d) /\ Moves(p, d)
    BY <1>2, <1>3, <1>4, <1>6 DEF ReadAlert, Looks, Writes, Moves
  <2> QED BY <1>2, <1>3, <2>1 DEF Works, Shapes, Types
<1>7. CASE ~Skipped(alerts[i].status) /\ ~Flapping(i)
  <2> DEFINE chs == IF alerts[i].linked THEN rule.channels ELSE {}
             esc == IF alerts[i].linked THEN rule.escalation ELSE {}
             q == [todo |-> pass[p].todo \ {i}, cur |-> i, saw |-> alerts[i].status,
                   channels |-> chs, escalation |-> esc, rest |-> chs,
                   results |-> {}, sending |-> None]
  <2>1. Moves(p, q)
    BY <1>7 DEF ReadAlert, Moves
  <2>2. chs \in SUBSET Channel /\ esc \in SUBSET Channel
    BY DEF Shapes, Types, RuleRow
  <2> HIDE DEF chs, esc
  <2>3. q \in PassRecord
    BY <1>1, <2>2 DEF PassRecord, AlertRow, Row, Shapes, Types
  <2>5. /\ q.cur = i /\ i # 0 /\ q.saw = alerts[i].status /\ q.todo = pass[p].todo \ {i}
        /\ q.results = {} /\ q.sending = None
    BY DEF Row, AlertsAssumption
  <2> HIDE DEF q
  <2>4. WorkFits(q, DOMAIN alerts, channel)
    BY <1>1, <1>7, <2>5 DEF WorkFits
  <2>6. flap[i] + 1 < FlapThreshold
    BY <1>7 DEF Flapping, Shapes, Types, AlertsAssumption
  <2>7. Looks(p, q) /\ Writes(p, q)
    BY <1>2, <1>7, <2>5, <2>6 DEF ReadAlert, Looks, Writes
  <2> QED BY <1>2, <2>1, <2>3, <2>4, <2>7 DEF Works, Shapes, Types
<1> QED BY <1>5, <1>6, <1>7

LEMMA CheckWorks ==
  ASSUME AlertsAssumption, Shapes, NEW p \in Pass, NEW c \in Channel, CheckChannel(p, c)
  PROVE  \E q : Works(p, q)
<1>1. /\ pass[p] \in PassRecord /\ WorkFits(pass[p], DOMAIN alerts, channel)
      /\ c \in pass[p].rest /\ pass[p].sending = None
  BY DEF CheckChannel, Shapes, Types
<1> DEFINE next == IF channel[c] = "active" /\ <<pass[p].cur, c>> \notin recent THEN c ELSE None
           rest == pass[p].rest \ {c}
           q == [pass[p] EXCEPT !.rest = rest, !.sending = next]
<1>2. next \in {c, None} /\ (next # None => channel[next] # None)
  BY DEF None
<1>3. Moves(p, q)
  BY <1>1 DEF CheckChannel, Moves, Shapes, Types
<1> HIDE DEF next
<1>4. /\ q \in PassRecord /\ q.rest = rest /\ q.sending = next /\ q.todo = pass[p].todo
      /\ q.cur = pass[p].cur /\ q.saw = pass[p].saw /\ q.results = pass[p].results
  BY <1>1, <1>2 DEF PassRecord
<1> HIDE DEF q
<1>5. WorkFits(q, DOMAIN alerts, channel)
  BY <1>1, <1>2, <1>4 DEF WorkFits, AlertsAssumption
<1>6. Quiet(p, q) /\ Writes(p, q)
  BY <1>4 DEF CheckChannel, tables, Quiet, Weakens, Writes
<1> QED BY <1>3, <1>4, <1>5, <1>6 DEF CheckChannel, Works, tables, bounds, Shapes, Types

(* A call that throws, or has settled its row, goes on with the next one. *)
LEMMA Rests ==
  ASSUME AlertsAssumption, Shapes, NEW p \in Pass, Throws(p)
  PROVE  \E q \in PassRecord :
            Moves(p, q) /\ q.cur = 0 /\ WorkFits(q, DOMAIN alerts, channel)
<1> DEFINE q == [Idle EXCEPT !.todo = pass[p].todo]
<1>1. pass[p].todo \subseteq DOMAIN alerts
  BY DEF Shapes, WorkFits
<1>2. q \in PassRecord /\ WorkFits(q, DOMAIN alerts, channel) /\ q.cur = 0
  BY <1>1, RestFits DEF Shapes
<1>3. Moves(p, q)
  BY DEF Throws, Moves
<1> QED BY <1>2, <1>3

(* The row of a call at work. *)
LEMMA Working ==
  ASSUME AlertsAssumption, Shapes, NEW p \in Pass,
         pass[p].sending # None \/ pass[p].results # {} \/ pass[p].cur # 0
  PROVE  /\ pass[p].cur \in DOMAIN alerts /\ pass[p].cur \in Row /\ pass[p].cur # 0
         /\ ~Skipped(pass[p].saw)
<1>1. pass[p].cur \in DOMAIN alerts /\ pass[p].cur # 0 /\ ~Skipped(pass[p].saw)
  BY DEF Shapes, WorkFits
<1> QED BY <1>1 DEF Row, Shapes, Types, AlertsAssumption

LEMMA DeliverWorks ==
  ASSUME AlertsAssumption, Shapes, NEW p \in Pass, NEW ok \in BOOLEAN, Deliver(p, ok)
  PROVE  \E q : Works(p, q)
<1> DEFINE c == pass[p].sending
           i == pass[p].cur
<1>1. /\ pass[p] \in PassRecord /\ WorkFits(pass[p], DOMAIN alerts, channel)
      /\ c # None /\ c \in Channel /\ channel[c] # None
  BY DEF Deliver, Shapes, Types, WorkFits, PassRecord
<1>2. i \in DOMAIN alerts /\ i \in Row /\ i # 0
  BY <1>1, Working
<1>3. CanSend(pass[p], i, c)
  BY <1>1 DEF CanSend, WorkFits
<1>4. UNCHANGED <<alerts, rule, channel, flap, req, emitter, overlap, column, clears>>
  BY DEF Deliver, bounds
<1>5. IF ok THEN Receives(i, c) ELSE UNCHANGED received
  BY DEF Deliver
<1>6. CASE ok /\ ~column
  <2>1. PICK q \in PassRecord : Moves(p, q) /\ q.cur = 0 /\ WorkFits(q, DOMAIN alerts, channel)
    BY <1>6, Rests DEF Deliver
  <2>2. Sends(p, q) /\ Writes(p, q)
    BY <1>1, <1>2, <1>3, <1>4, <1>5, <1>6, <2>1 DEF Sends, Writes, Weakens, CanSend
  <2> QED BY <1>4, <1>6, <2>1, <2>2 DEF Deliver, Works, Shapes, Types
<1>7. CASE ~(ok /\ ~column)
  <2> DEFINE results == pass[p].results \cup {<<c, ok>>}
             q == [pass[p] EXCEPT !.sending = None, !.results = results]
  <2>1. Moves(p, q)
    BY <1>7 DEF Deliver, Moves, Shapes, Types
  <2>2. recent' = recent \cup {<<i, c>>}
    BY <1>7 DEF Deliver
  <2>3. results \in SUBSET (Channel \X BOOLEAN)
    BY <1>1 DEF PassRecord
  <2>4. \A d \in Channel : <<d, TRUE>> \in results => <<d, TRUE>> \in pass[p].results \/ d = c
    OBVIOUS
  <2>5. pass[p].results \subseteq results /\ (ok => <<c, TRUE>> \in results)
    OBVIOUS
  <2> HIDE DEF results
  <2>6. /\ q \in PassRecord /\ q.sending = None /\ q.results = results /\ q.cur = i
        /\ q.todo = pass[p].todo /\ q.rest = pass[p].rest /\ q.saw = pass[p].saw
    BY <1>1, <2>3 DEF PassRecord
  <2> HIDE DEF q
  <2>7. WorkFits(q, DOMAIN alerts, channel)
    BY <1>1, <1>2, <2>4, <2>6 DEF WorkFits, AlertsAssumption
  <2>8. Writes(p, q) /\ (Quiet(p, q) \/ Sends(p, q))
    <3>1. CASE ok
      BY <1>1, <1>2, <1>3, <1>4, <1>5, <2>5, <2>6, <3>1 DEF Sends, Writes, Weakens, CanSend
    <3>2. CASE ~ok
      BY <1>4, <1>5, <2>5, <2>6, <3>2 DEF Quiet, Writes, Weakens
    <3> QED BY <3>1, <3>2
  <2>9. recent' \subseteq (DOMAIN alerts) \X {d \in Channel : channel[d] # None}
    BY <1>1, <1>2, <2>2 DEF Shapes, Types
  <2> QED BY <1>4, <2>1, <2>6, <2>7, <2>8, <2>9 DEF Works
<1> QED BY <1>6, <1>7

LEMMA SettlesRow ==
  ASSUME AlertsAssumption, Shapes, NEW p \in Pass, NEW s \in AlertStatus,
         pass[p].cur # 0, Settle(p, s)
  PROVE  \E q \in PassRecord :
            Moves(p, q) /\ q.cur = 0 /\ WorkFits(q, DOMAIN alerts, channel) /\ Writes(p, q)
<1>1. PICK q \in PassRecord : Moves(p, q) /\ q.cur = 0 /\ WorkFits(q, DOMAIN alerts, channel)
  BY Rests DEF Settle
<1> QED BY <1>1 DEF Settle, Writes

LEMMA AggregateWorks ==
  ASSUME AlertsAssumption, Shapes, NEW p \in Pass, Aggregate(p)
  PROVE  \E q : Works(p, q)
<1>1. PICK s \in AlertStatus : Settle(p, s)
  BY DEF Aggregate, AlertStatus
<1>2. PICK q \in PassRecord :
            Moves(p, q) /\ q.cur = 0 /\ WorkFits(q, DOMAIN alerts, channel) /\ Writes(p, q)
  BY <1>1, SettlesRow DEF Aggregate, AfterChannels
<1>3. Quiet(p, q)
  BY <1>2 DEF Aggregate, Quiet, Weakens
<1> QED BY <1>2, <1>3 DEF Aggregate, Works, bounds, Shapes, Types

(* Where every result is a failure, every channel may still be sent to. *)
LEMMA AllFailedCanSend ==
  ASSUME AlertsAssumption, Shapes, NEW p \in Pass, AllFailed(p), NEW c \in Channel
  PROVE  CanSend(pass[p], pass[p].cur, c)
<1>1. <<c, TRUE>> \in pass[p].results => ~TRUE
  BY DEF AllFailed, Failed
<1> QED BY <1>1 DEF CanSend

LEMMA EscalationDeliversWorks ==
  ASSUME AlertsAssumption, Shapes, NEW p \in Pass, NEW c \in Channel, EscalationDelivers(p, c)
  PROVE  \E q : Works(p, q)
<1> DEFINE i == pass[p].cur
<1>1. i # 0 /\ CanSend(pass[p], i, c)
  BY AllFailedCanSend DEF EscalationDelivers, AllFailed, AfterChannels
<1>2. i \in DOMAIN alerts /\ i \in Row
  BY <1>1, Working
<1>3. UNCHANGED <<rule, channel, flap, req, emitter, overlap, column, clears>> /\ Receives(i, c)
  BY DEF EscalationDelivers, bounds
<1>4. PICK q \in PassRecord :
            Moves(p, q) /\ q.cur = 0 /\ WorkFits(q, DOMAIN alerts, channel) /\ Writes(p, q)
  <2>1. CASE column
    <3>1. Settle(p, "delivered")
      BY <2>1 DEF EscalationDelivers
    <3> QED BY <1>1, <3>1, SettlesRow DEF AlertStatus
  <2>2. CASE ~column
    <3>1. Throws(p) /\ UNCHANGED alerts
      BY <2>2 DEF EscalationDelivers
    <3> QED BY <3>1, Rests DEF Writes
  <2> QED BY <2>1, <2>2
<1>5. recent' \subseteq (DOMAIN alerts) \X {d \in Channel : channel[d] # None}
  <2>1. CASE column
    <3>1. PICK tried \in SUBSET (Escalation(p) \ {c}) :
                 recent' = recent \cup {<<i, d>> : d \in tried \cup {c}}
      BY <2>1 DEF EscalationDelivers
    <3>2. tried \cup {c} \subseteq {d \in Channel : channel[d] # None}
      <4>1. Escalation(p) \subseteq Channel /\ c \in Escalation(p)
        BY DEF EscalationDelivers, Escalation, Shapes, Types, PassRecord
      <4> QED BY <3>1, <4>1 DEF Escalation, None
    <3> QED BY <1>2, <3>1, <3>2 DEF Shapes, Types
  <2>2. CASE ~column
    BY <2>2 DEF EscalationDelivers, Shapes, Types
  <2> QED BY <2>1, <2>2
<1>6. Sends(p, q)
  BY <1>1, <1>2, <1>3, <1>4 DEF Sends, Weakens, CanSend
<1> QED BY <1>3, <1>4, <1>5, <1>6 DEF Works

LEMMA EscalationFailsWorks ==
  ASSUME AlertsAssumption, Shapes, NEW p \in Pass, NEW ok \in BOOLEAN, EscalationFails(p, ok)
  PROVE  \E q : Works(p, q)
<1> DEFINE i == pass[p].cur
           emails == {c \in EmailChannels : channel[c] = "active"}
           known == {d \in Channel : channel[d] # None}
           tried == {<<i, c>> : c \in Escalation(p)}
<1>1. i # 0 /\ \A c \in Channel : CanSend(pass[p], i, c)
  BY AllFailedCanSend DEF EscalationFails, AllFailed, AfterChannels
<1>2. i \in DOMAIN alerts /\ i \in Row
  BY <1>1, Working
<1>3. UNCHANGED <<rule, channel, flap, req, emitter, overlap, column, clears>>
  BY DEF EscalationFails, bounds
<1>4. tried \subseteq (DOMAIN alerts) \X known /\ recent \subseteq (DOMAIN alerts) \X known
  <2>1. Escalation(p) \subseteq known
    BY DEF Escalation, Shapes, Types, PassRecord, None
  <2> QED BY <1>2, <2>1 DEF Shapes, Types
<1>5. emails \subseteq known
  BY DEF None, AlertsAssumption
<1>6. CASE emails = {}
  <2>1. /\ Settle(p, "delivery_failed_final") /\ UNCHANGED received
        /\ recent' = recent \cup tried
    BY <1>6 DEF EscalationFails
  <2>2. PICK q \in PassRecord :
            Moves(p, q) /\ q.cur = 0 /\ WorkFits(q, DOMAIN alerts, channel) /\ Writes(p, q)
    BY <1>1, <2>1, SettlesRow DEF AlertStatus
  <2>3. Quiet(p, q)
    BY <1>3, <2>1, <2>2 DEF Quiet, Weakens
  <2>4. recent' \subseteq (DOMAIN alerts) \X known
    BY <1>4, <2>1
  <2> QED BY <1>3, <2>2, <2>3, <2>4 DEF Works
<1>7. CASE emails # {}
  <2>1. PICK c \in emails :
          /\ IF ok THEN Receives(i, c) ELSE UNCHANGED received
          /\ IF ok /\ ~column
             THEN Throws(p) /\ UNCHANGED <<alerts, recent>>
             ELSE /\ Settle(p, "delivery_failed_final")
                  /\ recent' = recent \cup tried \cup {<<i, c>>}
    BY <1>7 DEF EscalationFails
  <2>2. PICK q \in PassRecord :
            Moves(p, q) /\ q.cur = 0 /\ WorkFits(q, DOMAIN alerts, channel) /\ Writes(p, q)
    <3>1. CASE ok /\ ~column
      BY <2>1, <3>1, Rests DEF Writes
    <3>2. CASE ~(ok /\ ~column)
      BY <1>1, <2>1, <3>2, SettlesRow DEF AlertStatus
    <3> QED BY <3>1, <3>2
  <2>3. c \in known
    BY <1>5
  <2>4. recent' \subseteq (DOMAIN alerts) \X known
    BY <1>2, <1>4, <2>1, <2>3
  <2>5. Quiet(p, q) \/ Sends(p, q)
    <3>1. CASE ok
      BY <1>1, <1>2, <1>3, <2>1, <2>2, <2>3, <3>1 DEF Sends, Weakens, CanSend
    <3>2. CASE ~ok
      BY <1>3, <2>1, <2>2, <3>2 DEF Quiet, Weakens
    <3> QED BY <3>1, <3>2
  <2> QED BY <1>3, <2>2, <2>4, <2>5 DEF Works
<1> QED BY <1>6, <1>7

LEMMA FailureWorks ==
  ASSUME AlertsAssumption, Shapes, NEW p \in Pass, StatementFails(p)
  PROVE  \E q : Works(p, q)
<1> DEFINE i == pass[p].cur
           c == pass[p].sending
<1>1. i \in DOMAIN alerts /\ i \in Row /\ i # 0
  BY Working DEF StatementFails
<1>2. PICK q \in PassRecord : Moves(p, q) /\ q.cur = 0 /\ WorkFits(q, DOMAIN alerts, channel)
  BY Rests DEF StatementFails
<1>3. UNCHANGED <<alerts, recent, rule, channel, flap, req, emitter, overlap, column, clears>>
  BY DEF StatementFails, tables
<1>4. Quiet(p, q) \/ Sends(p, q)
  <2>1. CASE UNCHANGED received
    BY <1>2, <1>3, <2>1 DEF Quiet, Weakens
  <2>2. CASE c # None /\ Receives(i, c)
    <3>1. c \in Channel /\ WorkFits(pass[p], DOMAIN alerts, channel)
      BY <2>2 DEF Shapes, Types, PassRecord
    <3>2. CanSend(pass[p], i, c)
      BY <3>1 DEF CanSend, WorkFits
    <3> QED BY <1>1, <1>2, <1>3, <2>2, <3>1, <3>2 DEF Sends, Weakens, CanSend
  <2> QED BY <2>1, <2>2 DEF StatementFails
<1> QED BY <1>2, <1>3, <1>4 DEF Works, Writes, Shapes, Types

(* Every step of a call, and every failure of it, is one of these. *)
LEMMA EngineWorks ==
  ASSUME AlertsAssumption, Shapes, NEW p \in Pass, Engine(p) \/ StatementFails(p)
  PROVE  \E q : Works(p, q)
  BY SelectWorks, ReadWorks, CheckWorks, DeliverWorks, AggregateWorks,
     EscalationDeliversWorks, EscalationFailsWorks, FailureWorks DEF Engine

-----------------------------------------------------------------------------
(* The shapes are kept.                                                    *)

(* The table keeps its rows and a channel once created its row. *)
Keeps ==
    /\ alerts' \in Seq(AlertRow) /\ Len(alerts') <= MaxAlerts
    /\ DOMAIN alerts \subseteq DOMAIN alerts'
    /\ \A c \in Channel : channel[c] # None => channel'[c] # None

LEMMA KeptFits ==
  ASSUME NEW p \in PassRecord, WorkFits(p, DOMAIN alerts, channel), Keeps
  PROVE  WorkFits(p, DOMAIN alerts', channel')
<1>1. p.sending # None => p.sending \in Channel
  BY DEF PassRecord
<1> QED BY <1>1 DEF WorkFits, Keeps

LEMMA KeptRequest ==
  ASSUME NEW r, RequestFits(r, DOMAIN alerts), Keeps
  PROVE  RequestFits(r, DOMAIN alerts')
  BY DEF RequestFits, Keeps

LEMMA KeptRecent ==
  ASSUME Shapes, Keeps, recent' \subseteq (DOMAIN alerts) \X {c \in Channel : channel[c] # None}
  PROVE  recent' \subseteq (DOMAIN alerts') \X {c \in Channel : channel'[c] # None}
  BY DEF Keeps

LEMMA WritesTable ==
  ASSUME Shapes, NEW p \in Pass, NEW q, Writes(p, q)
  PROVE  /\ alerts' \in Seq(AlertRow) /\ Len(alerts') = Len(alerts)
         /\ DOMAIN alerts' = DOMAIN alerts
         /\ \A j \in DOMAIN alerts :
               /\ alerts'[j].key = alerts[j].key /\ alerts'[j].bus = alerts[j].bus
               /\ alerts'[j] # alerts[j] => j = pass[p].cur /\ j # 0 /\ q.cur = 0
<1>1. alerts \in Seq(AlertRow) /\ (pass[p].cur # 0 => pass[p].cur \in DOMAIN alerts)
  BY DEF Shapes, Types, WorkFits
<1>2. CASE UNCHANGED alerts
  BY <1>1, <1>2
<1>3. CASE ~UNCHANGED alerts
  <2>1. /\ pass[p].cur # 0 /\ q.cur = 0
        /\ \E s \in AlertStatus : alerts' = [alerts EXCEPT ![pass[p].cur].status = s]
    BY <1>3 DEF Writes
  <2> QED BY <1>1, <2>1, StatusWritten
<1> QED BY <1>2, <1>3

LEMMA ReceivesType ==
  ASSUME Types, NEW i \in Row, NEW c \in Channel, Receives(i, c)
  PROVE  /\ received' \in [Row \X Channel -> Nat]
         /\ received'[<<i, c>>] = received[<<i, c>>] + 1
         /\ \A j \in Row, d \in Channel :
               j # i \/ d # c => received'[<<j, d>>] = received[<<j, d>>]
  BY DEF Types, Receives

\* What a delivery leaves as it was: every other pair of a row and a channel.
LEMMA ReceivesElsewhere ==
  ASSUME Types, NEW i \in Row, NEW c \in Channel, Receives(i, c),
         NEW j \in Row, NEW d \in Channel, ~(j = i /\ d = c)
  PROVE  received'[<<j, d>>] = received[<<j, d>>]
<1>1. <<j, d>> # <<i, c>> /\ <<j, d>> \in Row \X Channel
  OBVIOUS
<1> QED BY <1>1 DEF Types, Receives

LEMMA LooksType ==
  ASSUME AlertsAssumption, Types, NEW i \in Row,
         flap' = [flap EXCEPT ![i] = IF @ < FlapThreshold THEN @ + 1 ELSE @]
  PROVE  /\ flap' \in [Row -> 0..FlapThreshold]
         /\ flap'[i] = IF flap[i] < FlapThreshold THEN flap[i] + 1 ELSE flap[i]
         /\ \A j \in Row : j # i => flap'[j] = flap[j]
  BY DEF Types, AlertsAssumption

LEMMA WorksShapes ==
  ASSUME AlertsAssumption, Shapes, NEW p \in Pass, NEW q, Works(p, q)
  PROVE  Shapes'
<1>1. Keeps /\ UNCHANGED channel
  BY WritesTable DEF Works, Keeps, Shapes, Types
<1>2. pass' \in [Pass -> PassRecord] /\ \A o \in Pass : pass'[o] = IF o = p THEN q ELSE pass[o]
  BY DEF Works, Moves, Shapes, Types
<1>3. \A o \in Pass : WorkFits(pass'[o], DOMAIN alerts', channel')
  <2> SUFFICES ASSUME NEW o \in Pass PROVE WorkFits(pass'[o], DOMAIN alerts', channel')
    OBVIOUS
  <2>1. pass'[o] \in PassRecord /\ WorkFits(pass'[o], DOMAIN alerts, channel)
    BY <1>2 DEF Works, Shapes
  <2> QED BY <1>1, <2>1, KeptFits
<1>4. \A r \in Request : RequestFits(req'[r], DOMAIN alerts')
  BY <1>1, KeptRequest DEF Works, Shapes
<1>5. recent' \subseteq (DOMAIN alerts') \X {c \in Channel : channel'[c] # None}
  BY <1>1, KeptRecent DEF Works
<1>6. received' \in [Row \X Channel -> Nat] /\ flap' \in [Row -> 0..FlapThreshold]
  <2>1. CASE Quiet(p, q)
    BY <2>1 DEF Quiet, Shapes, Types
  <2>2. CASE Sends(p, q)
    BY <2>2, ReceivesType DEF Sends, Shapes, Types
  <2>3. CASE Looks(p, q)
    BY <2>3, LooksType DEF Looks, Shapes, Types
  <2> QED BY <2>1, <2>2, <2>3 DEF Works
<1> QED BY <1>1, <1>2, <1>3, <1>4, <1>5, <1>6 DEF Works, Keeps, Shapes, Types

(* What a step outside the engine may do. *)
LEMMA OthersKeepShapes ==
  ASSUME AlertsAssumption, Shapes, Keeps,
         rule' \in RuleRow, channel' \in [Channel -> ChannelStatus],
         recent' \subseteq recent, UNCHANGED <<received, column>>, clears' \in Nat,
         flap' \in [Row -> 0..FlapThreshold],
         req' \in [Request -> Requests],
         \A q \in Request : req'[q] = req[q] \/ RequestFits(req'[q], DOMAIN alerts'),
         pass' = pass \/ pass' = [p \in Pass |-> Idle],
         emitter' \in [Emitter -> Key \cup {None}]
  PROVE  Shapes'
<1>1. pass' \in [Pass -> PassRecord] /\ \A o \in Pass : WorkFits(pass'[o], DOMAIN alerts', channel')
  <2>1. CASE pass' = pass
    <3>1. \A o \in Pass : pass[o] \in PassRecord /\ WorkFits(pass[o], DOMAIN alerts, channel)
      BY DEF Shapes, Types
    <3> QED BY <2>1, <3>1, KeptFits DEF Shapes, Types
  <2>2. CASE pass' = [p \in Pass |-> Idle]
    <3>1. Idle \in PassRecord /\ WorkFits(Idle, DOMAIN alerts', channel')
      BY DEF Idle, PassRecord, WorkFits, AlertsAssumption
    <3> QED BY <2>2, <3>1
  <2> QED BY <2>1, <2>2
<1>2. \A q \in Request : RequestFits(req'[q], DOMAIN alerts')
  BY KeptRequest DEF Shapes
<1>3. recent' \subseteq (DOMAIN alerts') \X {c \in Channel : channel'[c] # None}
  <2>1. recent' \subseteq (DOMAIN alerts) \X {c \in Channel : channel[c] # None}
    BY DEF Shapes, Types
  <2> QED BY <2>1, KeptRecent
<1> QED BY <1>1, <1>2, <1>3 DEF Keeps, Shapes, Types

LEMMA InsertKeeps ==
  ASSUME Shapes, NEW row \in AlertRow, Len(alerts) < MaxAlerts, alerts' = Append(alerts, row),
         AlertsAssumption, UNCHANGED channel
  PROVE  Keeps
<1>1. alerts \in Seq(AlertRow) /\ Len(alerts) \in Nat
  BY DEF Shapes, Types
<1> QED BY <1>1, RowInserted DEF Keeps, AlertsAssumption

LEMMA BusShapes ==
  ASSUME AlertsAssumption, Shapes, NEW e \in Emitter,
         PersistInsert(e) \/ \E k \in Key : PersistSelect(e, k)
  PROVE  Shapes'
<1>1. CASE PersistInsert(e)
  <2>1. emitter[e] \in Key
    BY <1>1 DEF PersistInsert, Shapes, Types
  <2>2. Keeps
    BY <1>1, <2>1, InsertedRow, InsertKeeps DEF PersistInsert, Shapes
  <2>3. emitter' \in [Emitter -> Key \cup {None}]
    BY <1>1 DEF PersistInsert, Shapes, Types
  <2> QED BY <1>1, <2>2, <2>3, OthersKeepShapes DEF PersistInsert, bounds, Shapes, Types
<1>2. ASSUME NEW k \in Key, PersistSelect(e, k) PROVE Shapes'
  <2>1. emitter' \in [Emitter -> Key \cup {None}]
    BY <1>2 DEF PersistSelect, Shapes, Types
  <2>2. Keeps
    BY <1>2 DEF PersistSelect, tables, Keeps, Shapes, Types
  <2> QED BY <1>2, <2>1, <2>2, OthersKeepShapes DEF PersistSelect, tables, Shapes, Types
<1> QED BY <1>1, <1>2

LEMMA KeeperShapes ==
  ASSUME AlertsAssumption, Shapes, NEW linked \in Links, NEW k \in Key, KeeperFires(linked, k)
  PROVE  Shapes'
<1>1. linked \in BOOLEAN
  BY DEF AlertsAssumption
<1>2. Keeps
  BY <1>1, InsertedRow, InsertKeeps DEF KeeperFires, Shapes
<1> QED BY <1>2, OthersKeepShapes DEF KeeperFires, Shapes, Types

(* Time and crashes. *)
LEMMA LossShapes ==
  ASSUME AlertsAssumption, Shapes,
         \/ KeeperRestarts
         \/ \E i \in Row : FlapWindowLapses(i)
         \/ \E i \in Row, c \in Channel : DedupWindowLapses(i, c)
  PROVE  Shapes'
<1>1. 0 \in 0..FlapThreshold
  BY DEF AlertsAssumption
<1>2. CASE KeeperRestarts
  <2>1. Keeps /\ flap' \in [Row -> 0..FlapThreshold] /\ clears' \in Nat
    BY <1>1, <1>2 DEF KeeperRestarts, tables, Keeps, Shapes, Types
  <2> QED BY <1>2, <2>1, OthersKeepShapes DEF KeeperRestarts, tables, Shapes, Types
<1>3. ASSUME NEW i \in Row, FlapWindowLapses(i) PROVE Shapes'
  <2>1. Keeps /\ flap' \in [Row -> 0..FlapThreshold] /\ clears' \in Nat
    BY <1>1, <1>3 DEF FlapWindowLapses, tables, Keeps, Shapes, Types
  <2> QED BY <1>3, <2>1, OthersKeepShapes DEF FlapWindowLapses, tables, Shapes, Types
<1>4. ASSUME NEW i \in Row, NEW c \in Channel, DedupWindowLapses(i, c) PROVE Shapes'
  <2>1. Keeps /\ recent' \subseteq recent
    BY <1>4 DEF DedupWindowLapses, Keeps, Shapes, Types
  <2> QED BY <1>4, <2>1, OthersKeepShapes DEF DedupWindowLapses, Shapes, Types
<1> QED BY <1>2, <1>3, <1>4

LEMMA RuleShapes ==
  ASSUME AlertsAssumption, Shapes, NEW chs \in ChannelLists, NEW esc \in EscalationLists,
         CreateRule(chs, esc) \/ PatchRule(chs, esc)
  PROVE  Shapes'
<1>1. rule' \in RuleRow
  <2>1. CASE CreateRule(chs, esc)
    BY <2>1 DEF CreateRule, RuleRow, AlertsAssumption
  <2>2. CASE PatchRule(chs, esc)
    <3>1. rule \in RuleRow /\ chs \in SUBSET Channel /\ esc \in SUBSET Channel
      BY DEF Shapes, Types, AlertsAssumption
    <3> QED BY <2>2, <3>1 DEF PatchRule, RuleRow
  <2> QED BY <2>1, <2>2
<1>2. /\ UNCHANGED <<alerts, channel, req, recent, received, flap, pass, emitter, column, clears>>
  BY DEF CreateRule, PatchRule, apiRest
<1>3. Keeps
  BY <1>2 DEF Keeps, Shapes, Types
<1> QED BY <1>1, <1>2, <1>3, OthersKeepShapes DEF Shapes, Types

LEMMA ChannelShapes ==
  ASSUME AlertsAssumption, Shapes, NEW c \in Channel, CreateChannel(c)
  PROVE  Shapes'
<1>1. channel' \in [Channel -> ChannelStatus] /\ \A d \in Channel : channel[d] # None => channel'[d] # None
  BY DEF CreateChannel, Shapes, Types, ChannelStatus, None
<1>2. Keeps
  BY <1>1 DEF CreateChannel, Keeps, Shapes, Types
<1> QED BY <1>1, <1>2, OthersKeepShapes DEF CreateChannel, apiRest, Shapes, Types

(* A request goes on to r. *)
LEMMA ApiKeepsShapes ==
  ASSUME AlertsAssumption, Shapes, NEW q \in Request, NEW r \in Requests,
         req' = [req EXCEPT ![q] = r], RequestFits(r, DOMAIN alerts'), Keeps,
         rule' \in RuleRow, channel' \in [Channel -> ChannelStatus],
         UNCHANGED <<recent, received, flap, pass, emitter, column, clears>>
  PROVE  Shapes'
<1>1. /\ req' \in [Request -> Requests]
      /\ \A o \in Request : req'[o] = req[o] \/ RequestFits(req'[o], DOMAIN alerts')
  BY DEF Shapes, Types
<1> QED BY <1>1, OthersKeepShapes DEF Shapes, Types

LEMMA NoRequestFits == NoRequest \in Requests /\ \A rows : RequestFits(NoRequest, rows)
  BY DEF Requests, RequestFits, NoRequest, None

LEMMA RequestParts ==
  ASSUME NEW r \in Requests
  PROVE  /\ r.kind = "alert" => r.to \in Terminal
         /\ r.kind = "rule" => r.to \in {"active", "paused", "deleted"}
         /\ r.kind = "delete" => r.row \in Channel
<1>1. CASE r = NoRequest
  BY <1>1 DEF NoRequest, None
<1>2. CASE r \in [kind : {"alert"}, row : Row, to : Terminal]
  BY <1>2
<1>3. CASE r \in [kind : {"rule"}, to : {"active", "paused", "deleted"}]
  BY <1>3
<1>4. CASE r \in [kind : {"delete"}, row : Channel, only : BOOLEAN]
  BY <1>4
<1>5. CASE r \in [kind : {"select"}] \cup [kind : {"escalate"}, rows : SUBSET Row]
  BY <1>5
<1> QED BY <1>1, <1>2, <1>3, <1>4, <1>5 DEF Requests

LEMMA AlertMoveShapes ==
  ASSUME AlertsAssumption, Shapes, NEW q \in Request, NEW i \in Row, NEW to \in Terminal,
         AlertMoveRead(q, i, to)
  PROVE  Shapes'
<1> DEFINE r == [kind |-> "alert", row |-> i, to |-> to]
<1>1. r \in Requests /\ (i \in DOMAIN alerts => RequestFits(r, DOMAIN alerts))
  BY DEF Requests, RequestFits
<1>2. req' = [req EXCEPT ![q] = r] /\ i \in DOMAIN alerts
  BY DEF AlertMoveRead, Pending
<1> HIDE DEF r
<1>3. Keeps /\ UNCHANGED alerts
  BY DEF AlertMoveRead, Keeps, Shapes, Types
<1> QED BY <1>1, <1>2, <1>3, ApiKeepsShapes DEF AlertMoveRead, apiRest, Shapes, Types

LEMMA AlertWriteShapes ==
  ASSUME AlertsAssumption, Shapes, NEW q \in Request, AlertMoveWrite(q)
  PROVE  Shapes'
<1>1. req[q].row \in DOMAIN alerts /\ req[q].to \in AlertStatus
  BY RequestParts DEF AlertMoveWrite, Shapes, Types, RequestFits, Terminal, AlertStatus
<1>2. alerts \in Seq(AlertRow) /\ alerts' = [alerts EXCEPT ![req[q].row].status = req[q].to]
  BY DEF AlertMoveWrite, Shapes, Types
<1>3. alerts' \in Seq(AlertRow) /\ Len(alerts') = Len(alerts) /\ DOMAIN alerts' = DOMAIN alerts
  BY <1>1, <1>2, StatusWritten
<1>4. Keeps
  BY <1>3 DEF AlertMoveWrite, Keeps, Shapes, Types
<1> QED BY <1>4, NoRequestFits, ApiKeepsShapes DEF AlertMoveWrite, Answered, apiRest, Shapes, Types

LEMMA RuleMoveShapes ==
  ASSUME AlertsAssumption, Shapes, NEW q \in Request,
         \/ RuleMoveWrite(q)
         \/ \E to \in {"active", "paused", "deleted"} : RuleMoveRead(q, to)
  PROVE  Shapes'
<1>1. Keeps /\ UNCHANGED <<alerts, channel>>
  BY DEF RuleMoveWrite, RuleMoveRead, Keeps, Shapes, Types
<1>2. CASE RuleMoveWrite(q)
  <2>1. req[q].to \in {"active", "paused", "deleted"} /\ rule \in RuleRow
    BY <1>2, RequestParts DEF RuleMoveWrite, Shapes, Types
  <2>2. rule' \in RuleRow
    BY <1>2, <2>1 DEF RuleMoveWrite, RuleRow
  <2> QED BY <1>1, <1>2, <2>2, NoRequestFits, ApiKeepsShapes
          DEF RuleMoveWrite, Answered, apiRest, Shapes, Types
<1>3. ASSUME NEW to \in {"active", "paused", "deleted"}, RuleMoveRead(q, to) PROVE Shapes'
  <2> DEFINE r == [kind |-> "rule", to |-> to]
  <2>1. r \in Requests /\ RequestFits(r, DOMAIN alerts')
    BY DEF Requests, RequestFits
  <2>2. req' = [req EXCEPT ![q] = r]
    BY <1>3 DEF RuleMoveRead, Pending
  <2> HIDE DEF r
  <2> QED BY <1>1, <1>3, <2>1, <2>2, ApiKeepsShapes DEF RuleMoveRead, apiRest, Shapes, Types
<1> QED BY <1>2, <1>3

LEMMA DeleteShapes ==
  ASSUME AlertsAssumption, Shapes, NEW q \in Request,
         ChannelDeleteMark(q) \/ \E c \in Channel : ChannelDeleteRead(q, c)
  PROVE  Shapes'
<1>1. CASE ChannelDeleteMark(q)
  <2> DEFINE r == IF req[q].only THEN [kind |-> "select"] ELSE NoRequest
  <2>1. r \in Requests /\ RequestFits(r, DOMAIN alerts')
    BY NoRequestFits DEF Requests, RequestFits
  <2>2. req' = [req EXCEPT ![q] = r]
    BY <1>1 DEF ChannelDeleteMark
  <2> HIDE DEF r
  <2>3. req[q].row \in Channel
    BY <1>1, RequestParts DEF ChannelDeleteMark, Shapes, Types
  <2>4. /\ channel' \in [Channel -> ChannelStatus]
        /\ \A c \in Channel : channel[c] # None => channel'[c] # None
    BY <1>1, <2>3 DEF ChannelDeleteMark, ChannelStatus, None, Shapes, Types
  <2>5. Keeps
    BY <1>1, <2>4 DEF ChannelDeleteMark, Keeps, Shapes, Types
  <2> QED BY <1>1, <2>1, <2>2, <2>4, <2>5, ApiKeepsShapes
          DEF ChannelDeleteMark, apiRest, Shapes, Types
<1>2. ASSUME NEW c \in Channel, ChannelDeleteRead(q, c) PROVE Shapes'
  <2>1. PICK only \in BOOLEAN : req' = [req EXCEPT ![q] = [kind |-> "delete", row |-> c, only |-> only]]
    BY <1>2 DEF ChannelDeleteRead, Pending
  <2> DEFINE r == [kind |-> "delete", row |-> c, only |-> only]
  <2>2. r \in Requests /\ RequestFits(r, DOMAIN alerts')
    BY DEF Requests, RequestFits
  <2>3. Keeps
    BY <1>2 DEF ChannelDeleteRead, Keeps, Shapes, Types
  <2>4. req' = [req EXCEPT ![q] = r]
    BY <2>1
  <2> HIDE DEF r
  <2> QED BY <1>2, <2>2, <2>3, <2>4, ApiKeepsShapes DEF ChannelDeleteRead, apiRest, Shapes, Types
<1> QED BY <1>1, <1>2

LEMMA EscalateShapes ==
  ASSUME AlertsAssumption, Shapes, NEW q \in Request,
         ChannelDeleteSelect(q) \/ \E i \in Row : ChannelDeleteEscalate(q, i)
  PROVE  Shapes'
<1>0. DOMAIN alerts \subseteq Row
  BY DEF Row, Shapes, Types, AlertsAssumption
<1>1. ASSUME NEW rows, rows \subseteq DOMAIN alerts
      PROVE  /\ [kind |-> "escalate", rows |-> rows] \in Requests
             /\ RequestFits([kind |-> "escalate", rows |-> rows], DOMAIN alerts)
  BY <1>0, <1>1 DEF Requests, RequestFits
<1>2. CASE ChannelDeleteSelect(q)
  <2> DEFINE pending == {i \in DOMAIN alerts :
                 alerts[i].linked /\ alerts[i].status \in {"fired", "delivery_failed"}}
             r == IF pending = {} THEN NoRequest ELSE [kind |-> "escalate", rows |-> pending]
  <2>1. r \in Requests /\ RequestFits(r, DOMAIN alerts)
    BY <1>1, NoRequestFits
  <2>2. req' = [req EXCEPT ![q] = r]
    BY <1>2 DEF ChannelDeleteSelect
  <2> HIDE DEF r
  <2>3. Keeps /\ UNCHANGED alerts
    BY <1>2 DEF ChannelDeleteSelect, Keeps, Shapes, Types
  <2> QED BY <1>2, <2>1, <2>2, <2>3, ApiKeepsShapes DEF ChannelDeleteSelect, apiRest, Shapes, Types
<1>3. ASSUME NEW i \in Row, ChannelDeleteEscalate(q, i) PROVE Shapes'
  <2>1. req[q].rows \subseteq DOMAIN alerts /\ i \in req[q].rows
    BY <1>3 DEF ChannelDeleteEscalate, Shapes, RequestFits
  <2> DEFINE r == IF req[q].rows = {i} THEN NoRequest
                  ELSE [kind |-> "escalate", rows |-> req[q].rows \ {i}]
  <2>2. r \in Requests /\ RequestFits(r, DOMAIN alerts)
    BY <1>1, <2>1, NoRequestFits
  <2>3. req' = [req EXCEPT ![q] = r]
    BY <1>3 DEF ChannelDeleteEscalate
  <2> HIDE DEF r
  <2>4. Keeps /\ DOMAIN alerts' = DOMAIN alerts
    BY <1>3, <2>1, StatusWritten DEF ChannelDeleteEscalate, Keeps, Shapes, Types, AlertStatus
  <2> QED BY <1>3, <2>2, <2>3, <2>4, ApiKeepsShapes DEF ChannelDeleteEscalate, apiRest, Shapes, Types
<1> QED BY <1>2, <1>3

LEMMA ApiShapes ==
  ASSUME AlertsAssumption, Shapes, NEW q \in Request, Api(q)
  PROVE  Shapes'
  BY AlertMoveShapes, AlertWriteShapes, RuleMoveShapes, DeleteShapes, EscalateShapes
     DEF Api, Terminal

LEMMA StepShapes ==
  ASSUME AlertsAssumption, Shapes, [Next]_vars
  PROVE  Shapes'
<1>1. CASE UNCHANGED vars
  <2>1. UNCHANGED <<alerts, rule, channel, recent, received, flap, pass, req, emitter,
                    column, clears>>
    BY <1>1 DEF vars
  <2>2. Types'
    BY <2>1 DEF Types, Shapes
  <2>3. \A p \in Pass : WorkFits(pass[p], DOMAIN alerts, channel)'
    BY <2>1 DEF Shapes
  <2>4. \A q \in Request : RequestFits(req[q], DOMAIN alerts)'
    BY <2>1 DEF Shapes
  <2> QED BY <2>2, <2>3, <2>4 DEF Shapes
<1>2. CASE Next
  BY <1>2, EngineWorks, WorksShapes, BusShapes, KeeperShapes, LossShapes, RuleShapes,
     ChannelShapes, ApiShapes DEF Next
<1> QED BY <1>1, <1>2

LEMMA InitShapes == ASSUME AlertsAssumption, Init PROVE Shapes
<1>1. alerts \in Seq(AlertRow) /\ Len(alerts) = 0
  BY DEF Init
<1>2. rule \in RuleRow /\ channel \in [Channel -> ChannelStatus]
  BY DEF Init, RuleRow, ChannelStatus, AlertsAssumption
<1>3. Idle \in PassRecord /\ WorkFits(Idle, DOMAIN alerts, channel)
  BY DEF Idle, PassRecord, WorkFits, AlertsAssumption
<1>4. req \in [Request -> Requests] /\ \A q \in Request : RequestFits(req[q], DOMAIN alerts)
  BY NoRequestFits DEF Init
<1>5. received \in [Row \X Channel -> Nat] /\ flap \in [Row -> 0..FlapThreshold]
  BY DEF Init, AlertsAssumption
<1> QED BY <1>1, <1>2, <1>3, <1>4, <1>5 DEF Init, Shapes, Types, AlertsAssumption

LEMMA ShapesAlways == Spec => []Shapes
<1>1. Init => Shapes
  BY AlertsAssumption, InitShapes
<1>2. Shapes /\ [Next]_vars => Shapes'
  BY AlertsAssumption, StepShapes
<1> QED BY <1>1, <1>2, PTL DEF Spec

LEMMA ShapesAreTypes == Shapes => TypeOK
<1> SUFFICES ASSUME Shapes PROVE TypeOK
  OBVIOUS
<1>1. \A i \in DOMAIN alerts : alerts[i] \in AlertRow
  BY DEF Shapes, Types
<1> QED BY <1>1 DEF Shapes, Types, TypeOK

-----------------------------------------------------------------------------
(* What a step of a request, and of the rest of the system, does to the    *)
(* rows.                                                                   *)

SameRows ==
    /\ DOMAIN alerts' = DOMAIN alerts
    /\ \A j \in DOMAIN alerts : alerts'[j].key = alerts[j].key /\ alerts'[j].bus = alerts[j].bus

(* A request that changes a row is one that read it, and is done with it. *)
LEMMA ApiRows ==
  ASSUME Shapes, NEW q \in Request, Api(q)
  PROVE  /\ SameRows /\ UNCHANGED <<emitter, overlap, pass, received, flap, clears>>
         /\ \A i \in DOMAIN alerts :
               alerts'[i] # alerts[i] => req[q].kind \in {"alert", "escalate"} /\ req'[q] # req[q]
<1>0. alerts \in Seq(AlertRow) /\ req \in [Request -> Requests]
  BY DEF Shapes, Types
<1>1. ASSUME AlertMoveWrite(q)
      PROVE  /\ SameRows /\ UNCHANGED apiRest
             /\ req[q].kind = "alert" /\ req'[q] # req[q]
  <2>1. req[q].row \in DOMAIN alerts /\ req[q].to \in AlertStatus
    BY <1>1, RequestParts DEF AlertMoveWrite, Shapes, Types, RequestFits, Terminal, AlertStatus
  <2>2. alerts' = [alerts EXCEPT ![req[q].row].status = req[q].to]
    BY <1>1 DEF AlertMoveWrite
  <2>3. SameRows
    BY <1>0, <2>1, <2>2, StatusWritten DEF SameRows
  <2>4. req'[q].kind = None
    BY <1>0, <1>1 DEF AlertMoveWrite, Answered, NoRequest
  <2> QED BY <1>1, <2>3, <2>4 DEF AlertMoveWrite, None
<1>2. ASSUME NEW i \in Row, ChannelDeleteEscalate(q, i)
      PROVE  /\ SameRows /\ UNCHANGED apiRest
             /\ req[q].kind = "escalate" /\ req'[q] # req[q]
  <2>1. i \in DOMAIN alerts /\ i \in req[q].rows
    BY <1>2 DEF ChannelDeleteEscalate, Shapes, RequestFits
  <2>2. alerts' = [alerts EXCEPT ![i].status = "delivery_failed_final"]
    BY <1>2 DEF ChannelDeleteEscalate
  <2>3. SameRows
    BY <1>0, <2>1, <2>2, StatusWritten DEF SameRows, AlertStatus
  <2>4. req'[q] # req[q]
    <3>1. CASE req[q].rows = {i}
      <4>1. req'[q].kind = None
        BY <1>0, <1>2, <3>1 DEF ChannelDeleteEscalate, NoRequest
      <4> QED BY <1>2, <4>1 DEF ChannelDeleteEscalate, None
    <3>2. CASE req[q].rows # {i}
      <4>1. req'[q].rows = req[q].rows \ {i}
        BY <1>0, <1>2, <3>2 DEF ChannelDeleteEscalate
      <4> QED BY <2>1, <4>1
    <3> QED BY <3>1, <3>2
  <2> QED BY <1>2, <2>3, <2>4 DEF ChannelDeleteEscalate
<1>3. ASSUME UNCHANGED <<alerts, apiRest>> PROVE SameRows /\ UNCHANGED apiRest
  BY <1>3 DEF SameRows
<1>4. /\ SameRows /\ UNCHANGED apiRest
      /\ \/ UNCHANGED alerts
         \/ req[q].kind \in {"alert", "escalate"} /\ req'[q] # req[q]
  BY <1>1, <1>2, <1>3 DEF Api, AlertMoveRead, RuleMoveRead, RuleMoveWrite, ChannelDeleteRead,
     ChannelDeleteMark, ChannelDeleteSelect
<1> QED BY <1>4 DEF apiRest

(* Of the other steps only three insert a row, and no other writes one. *)
Inserts ==
    \/ \E e \in Emitter : PersistInsert(e)
    \/ \E linked \in Links, k \in Key : KeeperFires(linked, k)

LEMMA StepRows ==
  ASSUME AlertsAssumption, Shapes, [Next]_vars
  PROVE  \/ Inserts
         \/ \E e \in Emitter, k \in Key : PersistSelect(e, k)
         \/ SameRows /\ UNCHANGED <<emitter, overlap>>
<1>1. ASSUME NEW p \in Pass, NEW q, Works(p, q) PROVE SameRows /\ UNCHANGED <<emitter, overlap>>
  BY <1>1, WritesTable DEF Works, SameRows
<1>2. ASSUME UNCHANGED <<alerts, emitter, overlap>> PROVE SameRows /\ UNCHANGED <<emitter, overlap>>
  BY <1>2 DEF SameRows
<1>3. CASE \E p \in Pass : Engine(p) \/ StatementFails(p)
  BY <1>1, <1>3, EngineWorks
<1>4. CASE \E q \in Request : Api(q)
  BY <1>4, ApiRows
<1>5. CASE \/ KeeperRestarts
           \/ \E i \in Row : FlapWindowLapses(i)
           \/ \E i \in Row, c \in Channel : DedupWindowLapses(i, c)
  BY <1>2, <1>5 DEF KeeperRestarts, FlapWindowLapses, DedupWindowLapses, tables
<1>6. CASE \/ \E chs \in ChannelLists, esc \in EscalationLists :
                CreateRule(chs, esc) \/ PatchRule(chs, esc)
           \/ \E c \in Channel : CreateChannel(c)
  BY <1>2, <1>6 DEF CreateRule, PatchRule, CreateChannel, apiRest
<1>7. CASE UNCHANGED vars
  BY <1>2, <1>7 DEF vars, tables
<1> QED BY <1>3, <1>4, <1>5, <1>6, <1>7 DEF Next, Inserts

-----------------------------------------------------------------------------
(* One row per key.                                                        *)

(* An emission between its statements knows of no row that it overlooks. *)
Selected ==
    \A k \in Key \ overlap : k # None =>
        \A e \in Emitter : emitter[e] = k => ~Known(k)

LEMMA SameRowsSelected ==
  ASSUME OneRowUnlessOverlap, Selected, SameRows, UNCHANGED <<emitter, overlap>>
  PROVE  OneRowUnlessOverlap' /\ Selected'
<1>1. \A k : Known(k)' => Known(k)
  BY DEF Known, SameRows
<1>2. Selected'
  BY <1>1 DEF Selected
<1>3. OneRowUnlessOverlap'
  BY DEF OneRowUnlessOverlap, SameRows
<1> QED BY <1>2, <1>3

LEMMA SelectSelected ==
  ASSUME OneRowUnlessOverlap, Selected, Shapes, NEW e \in Emitter, NEW k \in Key,
         PersistSelect(e, k)
  PROVE  OneRowUnlessOverlap' /\ Selected'
<1>1. /\ UNCHANGED <<alerts, overlap>> /\ emitter \in [Emitter -> Key \cup {None}]
      /\ emitter' = IF Known(k) THEN emitter ELSE [emitter EXCEPT ![e] = k]
  BY DEF PersistSelect, tables, Shapes, Types
<1>2. \A o : Known(o)' = Known(o)
  BY <1>1 DEF Known
<1>3. Selected'
  BY <1>1, <1>2 DEF Selected
<1>4. OneRowUnlessOverlap'
  BY <1>1 DEF OneRowUnlessOverlap
<1> QED BY <1>3, <1>4

(* A row of k arrives: an emission that had looked for k is recorded, and  *)
(* a row the bus writes is the first or follows such an emission.          *)
LEMMA InsertSelected ==
  ASSUME AlertsAssumption, OneRowUnlessOverlap, Selected, Shapes, NEW k \in Key,
         NEW row \in AlertRow, row.key = k, alerts' = Append(alerts, row),
         k \notin overlap /\ row.bus => ~Known(k),
         NEW others \in SUBSET Emitter, Overlaps(k, others),
         \A e \in Emitter \ others : emitter'[e] = None,
         \A e \in others : emitter'[e] = emitter[e]
  PROVE  OneRowUnlessOverlap' /\ Selected'
<1>1. /\ DOMAIN alerts' = DOMAIN alerts \cup {Len(alerts')} /\ alerts'[Len(alerts')] = row
      /\ \A j \in DOMAIN alerts : alerts'[j] = alerts[j] /\ j < Len(alerts')
      /\ Len(alerts') \in Int
  BY RowInserted DEF Shapes, Types
<1>2. overlap \subseteq overlap' /\ (k \notin overlap' => \A e \in others : emitter[e] # k)
  BY DEF Overlaps
<1>3. \A o : Known(o)' => Known(o) \/ o = k
  BY <1>1 DEF Known
<1>4. Selected'
  BY <1>2, <1>3 DEF Selected
<1>5. OneRowUnlessOverlap'
  <2> SUFFICES ASSUME NEW o \in Key \ overlap', NEW i \in DOMAIN alerts', NEW j \in DOMAIN alerts',
                      i < j, alerts'[i].key = o, alerts'[j].key = o
               PROVE  ~alerts'[j].bus
    BY DEF OneRowUnlessOverlap
  <2>0. DOMAIN alerts \subseteq Int
    BY DEF Shapes, Types
  <2>1. CASE j \in DOMAIN alerts
    <3>1. i \in DOMAIN alerts
      BY <1>1, <2>0, <2>1
    <3> QED BY <1>1, <1>2, <2>1, <3>1 DEF OneRowUnlessOverlap
  <2>2. CASE j = Len(alerts')
    <3>1. i \in DOMAIN alerts /\ o = k
      BY <1>1, <2>0, <2>2
    <3>2. Known(k) /\ k \notin overlap
      BY <1>1, <1>2, <3>1 DEF Known
    <3> QED BY <1>1, <2>2, <3>2
  <2> QED BY <1>1, <2>1, <2>2
<1> QED BY <1>4, <1>5

LEMMA StepSelected ==
  ASSUME AlertsAssumption, OneRowUnlessOverlap, Selected, Shapes, [Next]_vars
  PROVE  OneRowUnlessOverlap' /\ Selected'
<1>1. ASSUME NEW e \in Emitter, PersistInsert(e) PROVE OneRowUnlessOverlap' /\ Selected'
  <2> DEFINE k == emitter[e]
  <2>1. k \in Key /\ k # None /\ emitter \in [Emitter -> Key \cup {None}]
    BY <1>1 DEF PersistInsert, Shapes, Types
  <2>2. PICK row \in AlertRow : row.key = k /\ alerts' = Append(alerts, row)
    BY <1>1, <2>1, InsertedRow DEF PersistInsert, Shapes
  <2>3. k \notin overlap => ~Known(k)
    BY <2>1 DEF Selected
  <2>4. /\ \A f \in Emitter \ (Emitter \ {e}) : emitter'[f] = None
        /\ \A f \in Emitter \ {e} : emitter'[f] = emitter[f]
    BY <1>1, <2>1 DEF PersistInsert
  <2> HIDE DEF k
  <2>5. Overlaps(k, Emitter \ {e})
    BY <1>1 DEF PersistInsert, k
  <2> QED BY <2>1, <2>2, <2>3, <2>4, <2>5, InsertSelected
<1>2. ASSUME NEW linked \in Links, NEW k \in Key, KeeperFires(linked, k)
      PROVE  OneRowUnlessOverlap' /\ Selected'
  <2>1. PICK row \in AlertRow : row.key = k /\ ~row.bus /\ alerts' = Append(alerts, row)
    <3>1. linked \in BOOLEAN /\ FALSE \in BOOLEAN /\ Types /\ Fire(linked, k, FALSE)
      BY <1>2 DEF KeeperFires, Shapes, AlertsAssumption
    <3> QED BY <3>1, InsertedRow
  <2>2. Overlaps(k, Emitter) /\ emitter' = emitter
    BY <1>2 DEF KeeperFires
  <2> QED BY <2>1, <2>2, InsertSelected
<1> QED BY <1>1, <1>2, SelectSelected, SameRowsSelected, StepRows DEF Inserts

(* persistAlertEvent's SELECT-then-INSERT leaves a second row of a key     *)
(* only when a row of it arrived between the two statements of an          *)
(* emission, for any number of emissions, keys and keeper inserts.         *)
THEOREM OneRowPerKey == Spec => []OneRowUnlessOverlap
<1>1. Init => OneRowUnlessOverlap /\ Selected
  BY DEF Init, OneRowUnlessOverlap, Selected, Known
<1>2. Shapes /\ OneRowUnlessOverlap /\ Selected /\ [Next]_vars => (OneRowUnlessOverlap /\ Selected)'
  BY AlertsAssumption, StepSelected
<1> QED BY <1>1, <1>2, ShapesAlways, PTL DEF Spec

-----------------------------------------------------------------------------
(* Who takes a terminal status away.                                       *)

(* A call writes the row it works on, and is done with it. *)
LEMMA WorksRows ==
  ASSUME AlertsAssumption, Shapes, NEW p \in Pass, NEW q, Works(p, q), NEW i \in DOMAIN alerts,
         alerts'[i] # alerts[i]
  PROVE  pass[p].cur = i /\ pass[p].saw \notin Terminal /\ pass'[p] # pass[p]
<1>1. i = pass[p].cur /\ pass[p].cur # 0 /\ q.cur = 0
  BY WritesTable DEF Works
<1>2. pass'[p] = q
  BY DEF Works, Moves, Shapes, Types
<1>3. pass[p].saw \notin Terminal
  BY <1>1, Working DEF Skipped, Terminal
<1> QED BY <1>1, <1>2, <1>3

(* A terminal status is lost only to an engine call that saw the row       *)
(* before it became terminal, or to a request that read it then: both read *)
(* first and update by id later.                                           *)
THEOREM TerminalGoesToStaleWriter == Spec => TerminalLostToStaleWriter
<1> DEFINE Stale ==
      \A i \in DOMAIN alerts :
       alerts[i].status \in Terminal /\ alerts'[i].status # alerts[i].status =>
         \/ \E p \in Pass : /\ pass[p].cur = i /\ pass[p].saw \notin Terminal
                           /\ pass'[p] # pass[p]
         \/ \E q \in Request : /\ req[q].kind \in {"alert", "escalate"}
                              /\ req'[q] # req[q]
<1>1. Shapes /\ [Next]_vars => Stale
  <2> SUFFICES ASSUME Shapes, [Next]_vars, NEW i \in DOMAIN alerts, alerts'[i] # alerts[i]
               PROVE  \/ \E p \in Pass : /\ pass[p].cur = i /\ pass[p].saw \notin Terminal
                                         /\ pass'[p] # pass[p]
                      \/ \E q \in Request : /\ req[q].kind \in {"alert", "escalate"}
                                            /\ req'[q] # req[q]
    OBVIOUS
  <2>1. CASE \E p \in Pass : Engine(p) \/ StatementFails(p)
    BY <2>1, AlertsAssumption, EngineWorks, WorksRows
  <2>2. CASE \E q \in Request : Api(q)
    BY <2>2, ApiRows
  <2>3. ASSUME NEW linked \in BOOLEAN, NEW k \in Key, NEW bus \in BOOLEAN, Fire(linked, k, bus)
        PROVE  FALSE
    <3>1. Types /\ alerts \in Seq(AlertRow)
      BY DEF Shapes, Types
    <3> QED BY <2>3, <3>1, InsertedRow, RowInserted
  <2>4. CASE \E e \in Emitter : PersistInsert(e)
    <3>1. PICK e \in Emitter : PersistInsert(e)
      BY <2>4
    <3>2. emitter[e] \in Key /\ FALSE \in BOOLEAN /\ TRUE \in BOOLEAN /\ Fire(FALSE, emitter[e], TRUE)
      BY <3>1 DEF PersistInsert, Shapes, Types
    <3> QED BY <2>3, <3>2
  <2>5. CASE \E linked \in Links, k \in Key : KeeperFires(linked, k)
    <3>1. PICK linked \in Links, k \in Key : KeeperFires(linked, k)
      BY <2>5
    <3>2. linked \in BOOLEAN /\ FALSE \in BOOLEAN /\ Fire(linked, k, FALSE)
      BY <3>1, AlertsAssumption DEF KeeperFires, AlertsAssumption
    <3> QED BY <2>3, <3>2
  <2>6. ~UNCHANGED alerts
    OBVIOUS
  <2> QED BY <2>1, <2>2, <2>4, <2>5, <2>6 DEF Next, vars, tables, apiRest, PersistSelect,
          KeeperRestarts, FlapWindowLapses, DedupWindowLapses, CreateRule, PatchRule, CreateChannel
<1>2. Shapes /\ [Next]_vars => [Stale]_vars
  BY <1>1
<1>3. Spec => [][Stale]_vars
  BY <1>2, ShapesAlways, PTL DEF Spec
<1> QED BY <1>3 DEF TerminalLostToStaleWriter

-----------------------------------------------------------------------------
(* How often a channel is sent to.                                         *)

(* The looks at a row the tracker has let through since it last forgot. *)
Credit(n) == IF n < FlapThreshold THEN n ELSE FlapThreshold - 1

(* Each message, and each call that may still send one, had a look of its  *)
(* own; before each loss of the tracker there were at most THRESHOLD - 1.  *)
Paid(i, c) ==
    received[<<i, c>>] + Cardinality(Senders(i, c)) <= (FlapThreshold - 1) * clears + Credit(flap[i])

AllPaid == \A i \in Row, c \in Channel : Paid(i, c)

LEMMA Budget ==
  ASSUME AlertsAssumption, NEW n \in Nat
  PROVE  /\ (FlapThreshold - 1) * n \in Nat
         /\ (FlapThreshold - 1) * (n + 1) = (FlapThreshold - 1) * n + (FlapThreshold - 1)
<1> DEFINE t == FlapThreshold - 1
<1>1. t \in Nat
  BY DEF AlertsAssumption
<1> HIDE DEF t
<1>2. t * n \in Nat /\ t * (n + 1) = t * n + t
  BY <1>1
<1> QED BY <1>2 DEF t

LEMMA SendersCount ==
  ASSUME AlertsAssumption, NEW i, NEW c
  PROVE  /\ IsFiniteSet(Senders(i, c)) /\ Cardinality(Senders(i, c)) \in Nat
         /\ IsFiniteSet(Senders(i, c)') /\ Cardinality(Senders(i, c)') \in Nat
<1>1. Senders(i, c) \in SUBSET Pass /\ Senders(i, c)' \in SUBSET Pass
  BY DEF Senders
<1>2. IsFiniteSet(Senders(i, c)) /\ IsFiniteSet(Senders(i, c)')
  BY <1>1, FS_Subset DEF AlertsAssumption
<1> QED BY <1>2, FS_CardinalityType

(* The callers that remain when one of them moves. *)
LEMMA SendersMove ==
  ASSUME Shapes, NEW p \in Pass, NEW q, Moves(p, q), NEW i, NEW c
  PROVE  /\ Senders(i, c)' \subseteq Senders(i, c) \cup {p}
         /\ ~CanSend(q, i, c) => Senders(i, c)' \subseteq Senders(i, c) \ {p}
         /\ CanSend(q, i, c) /\ CanSend(pass[p], i, c) => Senders(i, c)' \subseteq Senders(i, c)
<1>1. \A o \in Pass : pass'[o] = IF o = p THEN q ELSE pass[o]
  BY DEF Moves, Shapes, Types
<1> QED BY <1>1 DEF Senders

(* Fewer callers, and at least as much credit. *)
LEMMA FewerPaid ==
  ASSUME AlertsAssumption, Shapes, NEW i \in Row, NEW c \in Channel, Paid(i, c), Shapes',
         Senders(i, c)' \subseteq Senders(i, c), received'[<<i, c>>] = received[<<i, c>>],
         Credit(flap[i]) <= Credit(flap'[i]), clears' = clears
  PROVE  Paid(i, c)'
<1>1. Cardinality(Senders(i, c)') <= Cardinality(Senders(i, c))
  BY SendersCount, FS_Subset
<1>2. /\ received[<<i, c>>] \in Nat /\ flap[i] \in Nat /\ flap'[i] \in Nat
      /\ FlapThreshold \in Nat /\ clears \in Nat
  BY DEF Shapes, Types, AlertsAssumption
<1>3. Credit(flap[i]) \in Int /\ Credit(flap'[i]) \in Int
  BY <1>2 DEF Credit
<1>4. PICK b \in Nat : b = (FlapThreshold - 1) * clears
  BY <1>2, Budget
<1>5. received[<<i, c>>] + Cardinality(Senders(i, c)) <= b + Credit(flap[i])
  BY <1>4 DEF Paid
<1>6. received'[<<i, c>>] + Cardinality(Senders(i, c)') <= b + Credit(flap'[i])
  BY <1>1, <1>2, <1>3, <1>4, <1>5, SendersCount
<1> QED BY <1>4, <1>6 DEF Paid

(* One message more, one caller less. *)
LEMMA SentPaid ==
  ASSUME AlertsAssumption, Shapes, NEW i \in Row, NEW c \in Channel, Paid(i, c), Shapes',
         NEW p \in Senders(i, c), Senders(i, c)' \subseteq Senders(i, c) \ {p},
         received'[<<i, c>>] = received[<<i, c>>] + 1, UNCHANGED <<flap, clears>>
  PROVE  Paid(i, c)'
<1>1. /\ IsFiniteSet(Senders(i, c) \ {p})
      /\ Cardinality(Senders(i, c) \ {p}) = Cardinality(Senders(i, c)) - 1
  BY SendersCount, FS_RemoveElement
<1>2. Cardinality(Senders(i, c)') <= Cardinality(Senders(i, c)) - 1
  BY <1>1, FS_Subset
<1>3. /\ received[<<i, c>>] \in Nat /\ flap[i] \in Nat /\ FlapThreshold \in Nat /\ clears \in Nat
  BY DEF Shapes, Types, AlertsAssumption
<1>4. Credit(flap[i]) \in Int
  BY <1>3 DEF Credit
<1>5. PICK b \in Nat : b = (FlapThreshold - 1) * clears
  BY <1>3, Budget
<1>6. received[<<i, c>>] + Cardinality(Senders(i, c)) <= b + Credit(flap[i])
  BY <1>5 DEF Paid
<1>7. received'[<<i, c>>] + Cardinality(Senders(i, c)') <= b + Credit(flap[i])
  BY <1>2, <1>3, <1>4, <1>6, SendersCount
<1> QED BY <1>5, <1>7 DEF Paid

(* One caller more, one look more. *)
LEMMA LookedPaid ==
  ASSUME AlertsAssumption, Shapes, NEW i \in Row, NEW c \in Channel, Paid(i, c), Shapes',
         NEW p, Senders(i, c)' \subseteq Senders(i, c) \cup {p},
         flap[i] + 1 < FlapThreshold, flap'[i] = flap[i] + 1, UNCHANGED <<received, clears>>
  PROVE  Paid(i, c)'
<1>1. /\ IsFiniteSet(Senders(i, c) \cup {p})
      /\ Cardinality(Senders(i, c) \cup {p}) <= Cardinality(Senders(i, c)) + 1
  <2>1. IsFiniteSet(Senders(i, c)) /\ Cardinality(Senders(i, c)) \in Nat
    BY SendersCount
  <2>2. /\ IsFiniteSet(Senders(i, c) \cup {p})
        /\ Cardinality(Senders(i, c) \cup {p}) =
             IF p \in Senders(i, c) THEN Cardinality(Senders(i, c)) ELSE Cardinality(Senders(i, c)) + 1
    BY <2>1, FS_AddElement
  <2> QED BY <2>1, <2>2
<1>2. Cardinality(Senders(i, c)') <= Cardinality(Senders(i, c) \cup {p})
  BY <1>1, FS_Subset
<1>3. /\ received[<<i, c>>] \in Nat /\ flap[i] \in Nat /\ FlapThreshold \in Nat /\ clears \in Nat
  BY DEF Shapes, Types, AlertsAssumption
<1>4. Credit(flap[i]) = flap[i] /\ Credit(flap'[i]) = flap[i] + 1
  BY <1>3 DEF Credit
<1>5. PICK b \in Nat : b = (FlapThreshold - 1) * clears
  BY <1>3, Budget
<1>6. received[<<i, c>>] + Cardinality(Senders(i, c)) <= b + Credit(flap[i])
  BY <1>5 DEF Paid
<1>7. Cardinality(Senders(i, c)') <= Cardinality(Senders(i, c)) + 1
  BY <1>1, <1>2, SendersCount, FS_CardinalityType
<1>8. received'[<<i, c>>] + Cardinality(Senders(i, c)') <= b + Credit(flap'[i])
  BY <1>3, <1>4, <1>6, <1>7, SendersCount
<1> QED BY <1>5, <1>8 DEF Paid

(* What has been paid for fits in the credit of one loss more. *)
LEMMA PaidBounds ==
  ASSUME AlertsAssumption, Shapes, NEW i \in Row, NEW c \in Channel, Paid(i, c)
  PROVE  received[<<i, c>>] + Cardinality(Senders(i, c)) <= (FlapThreshold - 1) * (clears + 1)
<1>1. /\ received[<<i, c>>] \in Nat /\ flap[i] \in Nat /\ FlapThreshold \in Nat /\ clears \in Nat
      /\ FlapThreshold - 1 \in Nat
  BY DEF Shapes, Types, AlertsAssumption
<1>2. Credit(flap[i]) \in Int /\ Credit(flap[i]) <= FlapThreshold - 1
  BY <1>1 DEF Credit
<1>3. PICK b \in Nat : /\ b = (FlapThreshold - 1) * clears
                       /\ (FlapThreshold - 1) * (clears + 1) = b + (FlapThreshold - 1)
  BY <1>1, Budget
<1>4. received[<<i, c>>] + Cardinality(Senders(i, c)) <= b + Credit(flap[i])
  BY <1>3 DEF Paid
<1>5. received[<<i, c>>] + Cardinality(Senders(i, c)) <= b + (FlapThreshold - 1)
  BY <1>1, <1>2, <1>4, SendersCount
<1> QED BY <1>3, <1>5

(* The tracker forgets, which opens a new credit. *)
LEMMA ForgottenPaid ==
  ASSUME AlertsAssumption, Shapes, NEW i \in Row, NEW c \in Channel, Paid(i, c), Shapes',
         Senders(i, c)' \subseteq Senders(i, c), clears' = clears + 1, UNCHANGED received
  PROVE  Paid(i, c)'
<1>1. Cardinality(Senders(i, c)') <= Cardinality(Senders(i, c))
  BY SendersCount, FS_Subset
<1>2. /\ received[<<i, c>>] \in Nat /\ flap'[i] \in Nat /\ FlapThreshold \in Nat \ {0} /\ clears \in Nat
  BY DEF Shapes, Types, AlertsAssumption
<1>3. Credit(flap'[i]) \in Nat
  BY <1>2 DEF Credit
<1>4. PICK b \in Nat : b = (FlapThreshold - 1) * (clears + 1)
  BY <1>2, Budget DEF AlertsAssumption
<1>5. received[<<i, c>>] + Cardinality(Senders(i, c)) <= b
  BY <1>4, PaidBounds
<1>6. received'[<<i, c>>] + Cardinality(Senders(i, c)') <= b + Credit(flap'[i])
  BY <1>1, <1>2, <1>3, <1>5, SendersCount
<1> QED BY <1>4, <1>6 DEF Paid

LEMMA WorksPaid ==
  ASSUME AlertsAssumption, Shapes, AllPaid, NEW p \in Pass, NEW q, Works(p, q), Shapes'
  PROVE  AllPaid'
<1> SUFFICES ASSUME NEW i \in Row, NEW c \in Channel PROVE Paid(i, c)'
  BY DEF AllPaid
<1>1. Paid(i, c) /\ Moves(p, q) /\ UNCHANGED clears /\ i # 0
  BY DEF AllPaid, Works, Row, AlertsAssumption
<1>2. flap[i] \in Int /\ flap'[i] \in Int /\ FlapThreshold \in Nat
  BY DEF Shapes, Types, AlertsAssumption
<1>3. Weakens(pass[p], q) => Senders(i, c)' \subseteq Senders(i, c)
  <2>1. CASE ~CanSend(q, i, c)
    BY <1>1, <2>1, SendersMove
  <2>2. CASE CanSend(q, i, c) /\ Weakens(pass[p], q)
    <3>1. CanSend(pass[p], i, c)
      BY <1>1, <2>2 DEF CanSend, Weakens
    <3> QED BY <1>1, <2>2, <3>1, SendersMove
  <2> QED BY <2>1, <2>2
<1>4. Credit(flap[i]) \in Int
  BY <1>2 DEF Credit
<1>5. CASE Quiet(p, q)
  BY <1>1, <1>3, <1>4, <1>5, FewerPaid DEF Quiet
<1>6. CASE Sends(p, q)
  <2>1. PICK d \in Channel : /\ CanSend(pass[p], pass[p].cur, d) /\ ~CanSend(q, pass[p].cur, d)
                             /\ Receives(pass[p].cur, d)
    BY <1>6 DEF Sends
  <2>2. Weakens(pass[p], q) /\ UNCHANGED flap /\ pass[p].cur \in Row
    BY <1>6 DEF Sends
  <2>3. CASE i = pass[p].cur /\ c = d
    <3>1. p \in Senders(i, c) /\ Senders(i, c)' \subseteq Senders(i, c) \ {p}
      BY <1>1, <2>1, <2>3, SendersMove DEF Senders
    <3>2. received'[<<i, c>>] = received[<<i, c>>] + 1
      BY <2>1, <2>2, <2>3, ReceivesType DEF Shapes
    <3> QED BY <1>1, <2>2, <3>1, <3>2, SentPaid
  <2>4. CASE ~(i = pass[p].cur /\ c = d)
    <3>1. received'[<<i, c>>] = received[<<i, c>>]
      <4>1. Types
        BY DEF Shapes
      <4> QED BY <2>1, <2>2, <2>4, <4>1, ReceivesElsewhere
    <3> QED BY <1>1, <1>3, <1>4, <2>2, <3>1, FewerPaid
  <2> QED BY <2>3, <2>4
<1>7. CASE Looks(p, q)
  <2>1. PICK j \in Row :
          /\ q.cur = 0 \/ (q.cur = j /\ flap[j] + 1 < FlapThreshold)
          /\ flap' = [flap EXCEPT ![j] = IF @ < FlapThreshold THEN @ + 1 ELSE @]
          /\ UNCHANGED received
    BY <1>7 DEF Looks
  <2>2. /\ flap'[j] = IF flap[j] < FlapThreshold THEN flap[j] + 1 ELSE flap[j]
        /\ i # j => flap'[i] = flap[i]
    BY <2>1, LooksType DEF Shapes
  <2>3. CASE i = j /\ q.cur = j
    <3>1. flap[i] + 1 < FlapThreshold /\ flap'[i] = flap[i] + 1
      BY <1>1, <1>2, <2>1, <2>2, <2>3
    <3> QED BY <1>1, <2>1, <3>1, SendersMove, LookedPaid
  <2>4. CASE ~(i = j /\ q.cur = j)
    <3>1. ~CanSend(q, i, c)
      BY <1>1, <2>1, <2>4 DEF CanSend
    <3>2. Credit(flap[i]) <= Credit(flap'[i])
      BY <1>2, <2>2 DEF Credit
    <3>3. Senders(i, c)' \subseteq Senders(i, c)
      BY <1>1, <3>1, SendersMove
    <3> QED BY <1>1, <2>1, <3>2, <3>3, FewerPaid
  <2> QED BY <2>3, <2>4
<1> QED BY <1>5, <1>6, <1>7 DEF Works

LEMMA LossPaid ==
  ASSUME AlertsAssumption, Shapes, AllPaid, Shapes',
         KeeperRestarts \/ \E i \in Row : FlapWindowLapses(i)
  PROVE  AllPaid'
<1> SUFFICES ASSUME NEW i \in Row, NEW c \in Channel PROVE Paid(i, c)'
  BY DEF AllPaid
<1>1. Paid(i, c) /\ i # 0
  BY DEF AllPaid, Row, AlertsAssumption
<1>2. CASE KeeperRestarts
  <2>1. Senders(i, c)' \subseteq Senders(i, c)
    BY <1>1, <1>2 DEF KeeperRestarts, Senders, CanSend, Idle
  <2> QED BY <1>1, <1>2, <2>1, ForgottenPaid DEF KeeperRestarts
<1>3. ASSUME NEW j \in Row, FlapWindowLapses(j) PROVE Paid(i, c)'
  <2>1. Senders(i, c)' \subseteq Senders(i, c)
    BY <1>3 DEF FlapWindowLapses, Senders
  <2> QED BY <1>1, <1>3, <2>1, ForgottenPaid DEF FlapWindowLapses
<1> QED BY <1>2, <1>3

LEMMA StepPaid ==
  ASSUME AlertsAssumption, Shapes, AllPaid, Shapes', [Next]_vars
  PROVE  AllPaid'
<1>1. ASSUME UNCHANGED <<pass, received, flap, clears>> PROVE AllPaid'
  <2>1. \A i, c : Senders(i, c)' = Senders(i, c)
    BY <1>1 DEF Senders
  <2>2. \A i \in Row, c \in Channel : Paid(i, c) => Paid(i, c)'
    BY <1>1, <2>1 DEF Paid
  <2> QED BY <2>2 DEF AllPaid
<1>2. CASE \E p \in Pass : Engine(p) \/ StatementFails(p)
  BY <1>2, EngineWorks, WorksPaid
<1>3. CASE \E q \in Request : Api(q)
  BY <1>1, <1>3, ApiRows
<1>4. CASE KeeperRestarts \/ \E i \in Row : FlapWindowLapses(i)
  BY <1>4, LossPaid
<1>5. CASE \/ \E e \in Emitter : PersistInsert(e) \/ \E k \in Key : PersistSelect(e, k)
           \/ \E linked \in Links, k \in Key : KeeperFires(linked, k)
           \/ \E i \in Row, c \in Channel : DedupWindowLapses(i, c)
  BY <1>1, <1>5 DEF PersistInsert, PersistSelect, KeeperFires, DedupWindowLapses, bounds
<1>6. CASE \/ \E chs \in ChannelLists, esc \in EscalationLists :
                CreateRule(chs, esc) \/ PatchRule(chs, esc)
           \/ \E c \in Channel : CreateChannel(c)
  BY <1>1, <1>6 DEF CreateRule, PatchRule, CreateChannel, apiRest
<1>7. CASE UNCHANGED vars
  BY <1>1, <1>7 DEF vars
<1> QED BY <1>2, <1>3, <1>4, <1>5, <1>6, <1>7 DEF Next

LEMMA InitPaid == ASSUME AlertsAssumption, Init PROVE AllPaid
<1> SUFFICES ASSUME NEW i \in Row, NEW c \in Channel PROVE Paid(i, c)
  BY DEF AllPaid
<1>1. Senders(i, c) = {} /\ received[<<i, c>>] = 0 /\ flap[i] = 0 /\ clears = 0
  BY DEF Init, Senders, CanSend, Idle, Row, AlertsAssumption
<1>2. Cardinality(Senders(i, c)) = 0
  BY <1>1, FS_EmptySet
<1>3. Credit(0) = 0 /\ (FlapThreshold - 1) * 0 = 0
  BY DEF Credit, AlertsAssumption
<1> QED BY <1>1, <1>2, <1>3 DEF Paid

(* However the successes that cannot be recorded, lost commits and passes  *)
(* that overlap interleave, a channel accepts an alert less often than     *)
(* FLAPPING_THRESHOLD between two losses of the tracker: the tracker       *)
(* counts passes, and every message is sent in a pass of its own.          *)
THEOREM ResendsAreBounded == Spec => []ResendsBounded
<1>1. Shapes /\ AllPaid => ResendsBounded
  <2> SUFFICES ASSUME Shapes, AllPaid, NEW i \in Row, NEW c \in Channel
               PROVE  received[<<i, c>>] <= (FlapThreshold - 1) * (clears + 1)
    BY ShapesAreTypes DEF ResendsBounded
  <2>1. received[<<i, c>>] + Cardinality(Senders(i, c)) <= (FlapThreshold - 1) * (clears + 1)
    BY AlertsAssumption, PaidBounds DEF AllPaid
  <2>2. received[<<i, c>>] \in Nat /\ clears + 1 \in Nat /\ Cardinality(Senders(i, c)) \in Nat
    BY AlertsAssumption, SendersCount DEF Shapes, Types
  <2>3. PICK b \in Nat : b = (FlapThreshold - 1) * (clears + 1)
    BY <2>2, AlertsAssumption, Budget
  <2> QED BY <2>1, <2>2, <2>3
<1>2. Init => Shapes /\ AllPaid
  BY AlertsAssumption, InitShapes, InitPaid
<1>3. Shapes /\ AllPaid /\ [Next]_vars => (Shapes /\ AllPaid)'
  BY AlertsAssumption, StepShapes, StepPaid
<1> QED BY <1>1, <1>2, <1>3, PTL DEF Spec
=============================================================================

------------------------------ MODULE BleProofs ------------------------------
(***************************************************************************)
(* Theorems about Ble, for every command, interface and number of          *)
(* advertisements.                                                         *)
(***************************************************************************)
EXTENDS Ble, FiniteSets, FiniteSetTheorems, TLAPS

-----------------------------------------------------------------------------
(* Types. *)

Dead == {"search", "write", "close"}
Ops == {"register", "params", "scan", "stop", "open", "unregister"} \cup Dead
LinkNames == {"OPEN", "SEARCH_CMPL", "WRITE_CHAR"}
ScanNames == {"SCAN_START_COMPLETE", "SCAN_RESULT", "SCAN_END"}
Names == {"REG", "SCAN_PARAM_SET_COMPLETE", "SCAN_STOP_COMPLETE", "CLOSE"}
           \cup LinkNames \cup ScanNames
OrNone == Interfaces \cup {0}
Requests == [op : Ops, if : OrNone, conn : OrNone, cmd : Commands]
Events == [name : Names, if : OrNone, conn : OrNone, ok : BOOLEAN]
Types ==
  /\ gif \in OrNone /\ _conn_id \in OrNone /\ _cmd \in Commands
  /\ requests \in Seq(Requests) /\ events \in Seq(Events)
  /\ registered \subseteq Interfaces /\ connection \in OrNone
  /\ written \in Seq(Commands) /\ stops \in Nat
  /\ scanning \in BOOLEAN /\ busy \in BOOLEAN

\* One more element ...
LEMMA AppendFacts ==
  ASSUME NEW S, NEW s \in Seq(S), NEW x \in S
  PROVE  /\ Append(s, x) \in Seq(S) /\ Len(s) \in Nat /\ Len(Append(s, x)) = Len(s) + 1
         /\ \A i \in 1..Len(s) + 1 : Append(s, x)[i] = IF i = Len(s) + 1 THEN x ELSE s[i]
OBVIOUS

\* ... and one less.
LEMMA TailFacts ==
  ASSUME NEW S, NEW s \in Seq(S), s # <<>>
  PROVE  /\ Tail(s) \in Seq(S) /\ Len(s) \in Nat \ {0} /\ Len(Tail(s)) = Len(s) - 1
         /\ Head(s) = s[1] /\ Head(s) \in S
         /\ \A i \in 1..Len(s) - 1 : Tail(s)[i] = s[i + 1] /\ i + 1 \in 1..Len(s)
OBVIOUS

\* What is asked of the stack, and what it tells, has its type.
LEMMA Fields ==
  /\ _cmd \in Commands =>
       \A op \in Ops, i, c \in OrNone :
         /\ Request(op, i, c) \in Requests /\ Request(op, i, c).op = op
         /\ Request(op, i, c).if = i /\ Request(op, i, c).cmd = _cmd
  /\ \A n \in Names, i, c \in OrNone, ok \in BOOLEAN :
       /\ Event(n, i, c, ok) \in Events /\ Event(n, i, c, ok).name = n
       /\ Event(n, i, c, ok).if = i /\ Event(n, i, c, ok).ok = ok
<1>1. ASSUME _cmd \in Commands, NEW op \in Ops, NEW i \in OrNone, NEW c \in OrNone
      PROVE  /\ Request(op, i, c) \in Requests /\ Request(op, i, c).op = op
             /\ Request(op, i, c).if = i /\ Request(op, i, c).cmd = _cmd
  BY <1>1 DEF Request, Requests
<1>2. ASSUME NEW n \in Names, NEW i \in OrNone, NEW c \in OrNone, NEW ok \in BOOLEAN
      PROVE  /\ Event(n, i, c, ok) \in Events /\ Event(n, i, c, ok).name = n
             /\ Event(n, i, c, ok).if = i /\ Event(n, i, c, ok).ok = ok
  BY <1>2 DEF Event, Events
<1> QED BY <1>1, <1>2

\* A request asked for, an event told.
LEMMA Asked ==
  ASSUME Types, NEW op \in Ops, NEW i \in OrNone, NEW c \in OrNone, Ask(op, i, c)
  PROVE  requests' \in Seq(Requests)
BY Fields, AppendFacts DEF Types, Ask
LEMMA Told ==
  ASSUME Types, NEW n \in Names, NEW i \in OrNone, NEW c \in OrNone, NEW ok \in BOOLEAN,
         Tell(n, i, c, ok)
  PROVE  events' \in Seq(Events)
BY Fields, AppendFacts DEF Types, Tell

\* A callback asks for one request at most, whose interface is one it knows.
LEMMA CallbackTypes == Types /\ Callback => Types'
<1> SUFFICES ASSUME Types, Callback PROVE Types'
  OBVIOUS
<1> DEFINE e == Head(events)
<1>1. /\ events # <<>> /\ events' = Tail(events) /\ Handles(e)
      /\ UNCHANGED <<registered, scanning, connection>>
  BY DEF Callback, scan
<1>2. e \in Events /\ events' \in Seq(Events) BY <1>1, TailFacts DEF Types
<1>3. e.if \in OrNone /\ e.conn \in OrNone /\ gif \in OrNone /\ _conn_id \in OrNone /\ 0 \in OrNone
  BY <1>2 DEF Events, Types, OrNone
<1> HIDE DEF e
<1>4. CASE UNCHANGED <<gif, _conn_id, _cmd, requests, written, stops, busy>>
  BY <1>1, <1>2, <1>4 DEF Types
<1>5. ASSUME NEW op \in Ops, NEW i \in OrNone, NEW c \in OrNone, Ask(op, i, c),
             UNCHANGED <<_cmd, written>>,
             gif' \in OrNone, _conn_id' \in OrNone, stops' \in Nat, busy' \in BOOLEAN
      PROVE  Types'
  <2>1. requests' \in Seq(Requests) BY <1>5, Asked
  <2> QED BY <1>1, <1>2, <1>5, <2>1 DEF Types
<1>t. /\ "scan" \in Ops /\ "stop" \in Ops /\ "open" \in Ops /\ "search" \in Ops /\ "write" \in Ops
      /\ "close" \in Ops /\ "params" \in Ops /\ "unregister" \in Ops
      /\ stops \in Nat /\ stops + 1 \in Nat /\ busy \in BOOLEAN /\ FALSE \in BOOLEAN
  BY DEF Ops, Dead, Types
<1>6. CASE ParamsSet \/ ScanStopped
  BY <1>3, <1>5, <1>6, <1>t DEF ParamsSet, ScanStopped, app, history
<1>7. CASE ScanStarted(e) \/ ScanEnded
  BY <1>4, <1>7 DEF ScanStarted, ScanEnded, app
<1>8. CASE ScanResult(e)
  <2>1. CASE e.ok BY <1>3, <1>5, <1>8, <1>t, <2>1 DEF ScanResult, app
  <2>2. CASE ~e.ok BY <1>4, <1>8, <2>2 DEF ScanResult, app, history
  <2> QED BY <2>1, <2>2
<1>9. CASE Registered(e)
  <2>1. CASE gif' = e.if /\ Ask("params", 0, 0) /\ UNCHANGED <<_conn_id, _cmd, history>>
    BY <1>3, <1>5, <1>t, <2>1 DEF history
  <2>2. CASE UNCHANGED <<app, requests, busy, written, stops>>
    BY <1>4, <2>2 DEF app
  <2> QED BY <1>9, <2>1, <2>2 DEF Registered
<1>10. CASE OfThisInterface(e)
  <2>1. CASE Opened(e)
    BY <1>3, <1>5, <1>t, <2>1 DEF Opened, history
  <2>2. CASE switcher_move \/ Written(e)
    BY <1>3, <1>5, <1>t, <2>2 DEF switcher_move, Written, app, history
  <2>3. CASE Closed(e)
    BY <1>3, <1>5, <1>t, <2>3 DEF Closed, app
  <2> QED BY <1>10, <2>1, <2>2, <2>3 DEF OfThisInterface
<1>11. CASE UNCHANGED <<app, requests, history>>
  BY <1>4, <1>11 DEF app, history
<1> QED BY <1>1, <1>6, <1>7, <1>8, <1>9, <1>10, <1>11 DEF Handles

\* The stack tells one event at most of a request.
LEMMA StackTypes == Types /\ Stack => Types'
<1> SUFFICES ASSUME Types, Stack PROVE Types'
  OBVIOUS
<1> DEFINE r == Head(requests)
<1>1. /\ requests # <<>> /\ requests' = Tail(requests) /\ Answer(r)
      /\ UNCHANGED <<gif, _conn_id, _cmd, busy, stops>>
  BY DEF Stack, app
<1>2. r \in Requests /\ requests' \in Seq(Requests) BY <1>1, TailFacts DEF Types
<1>3. r.if \in OrNone /\ r.conn \in OrNone /\ r.cmd \in Commands /\ 0 \in OrNone
      /\ \A i \in Interfaces : i \in OrNone
  BY <1>2 DEF Requests, OrNone
<1> HIDE DEF r
<1>4. ASSUME \/ events' = events
             \/ \E n \in Names, i, c \in OrNone, ok \in BOOLEAN : Tell(n, i, c, ok),
             registered' \subseteq Interfaces, connection' \in OrNone, scanning' \in BOOLEAN,
             written' = written \/ written' = Append(written, r.cmd)
      PROVE  Types'
  <2>1. events' \in Seq(Events) BY <1>4, Told DEF Types
  <2>2. written' \in Seq(Commands)
    <3>1. Append(written, r.cmd) \in Seq(Commands) BY <1>3, AppendFacts DEF Types
    <3> QED BY <1>4, <3>1 DEF Types
  <2> QED BY <1>1, <1>2, <1>4, <2>1, <2>2 DEF Types
<1>t. /\ registered \subseteq Interfaces /\ connection \in OrNone /\ scanning \in BOOLEAN
      /\ FALSE \in BOOLEAN /\ TRUE \in BOOLEAN
      /\ "REG" \in Names /\ "SCAN_PARAM_SET_COMPLETE" \in Names /\ "SCAN_STOP_COMPLETE" \in Names
      /\ "CLOSE" \in Names /\ "OPEN" \in Names /\ "SEARCH_CMPL" \in Names /\ "WRITE_CHAR" \in Names
      /\ "SCAN_START_COMPLETE" \in Names
  BY DEF Types, Names, LinkNames, ScanNames
<1>5. CASE Registers /\ UNCHANGED <<scan, connection, written>>
  <2>1. registered' \subseteq Interfaces BY <1>5, <1>t DEF Registers
  <2>2. \E i \in OrNone, ok \in BOOLEAN : Tell("REG", i, 0, ok) BY <1>5, <1>3, <1>t DEF Registers
  <2> QED BY <1>3, <1>4, <1>5, <1>t, <2>1, <2>2 DEF scan
<1>6. CASE /\ Tell("SCAN_PARAM_SET_COMPLETE", 0, 0, TRUE)
           /\ UNCHANGED <<registered, scan, connection, written>>
  BY <1>3, <1>4, <1>6, <1>t DEF scan
<1>7. CASE (StartsScan \/ StopsScan) /\ UNCHANGED <<registered, connection, written>>
  BY <1>3, <1>4, <1>7, <1>t DEF StartsScan, StopsScan
<1>8. CASE Opens(r) /\ UNCHANGED <<registered, scan, written>>
  BY <1>3, <1>4, <1>8, <1>t DEF Opens, scan
<1>9. CASE /\ \E n \in {"SEARCH_CMPL", "WRITE_CHAR", "CLOSE"} : Tell(n, r.if, r.conn, TRUE)
           /\ UNCHANGED <<registered, scan>> /\ connection' \in {connection, 0}
           /\ written' = written \/ written' = Append(written, r.cmd)
  BY <1>3, <1>4, <1>9, <1>t DEF scan
<1>10. CASE UNCHANGED <<events, registered, scan, connection, written>>
  BY <1>4, <1>10, <1>t DEF scan
<1>11. CASE Unregisters(r) /\ UNCHANGED <<scan, written>>
  BY <1>3, <1>4, <1>11, <1>t DEF Unregisters, scan
<1> QED BY <1>1, <1>5, <1>6, <1>7, <1>8, <1>9, <1>10, <1>11 DEF Answer

\* Every step keeps the types.
LEMMA TypesStep == Types /\ [Next]_vars => Types'
<1> SUFFICES ASSUME Types, [Next]_vars PROVE Types'
  OBVIOUS
<1>1. CASE ble_task BY <1>1 DEF ble_task, Types, app, scan, history
<1>2. ASSUME NEW cmd \in Commands, ble_pairing(cmd) PROVE Types'
  <2>1. cmd = _cmd' BY <1>2 DEF ble_pairing
  <2>2. [op |-> "register", if |-> 0, conn |-> 0, cmd |-> _cmd] \in Requests
    BY DEF Requests, Types, Ops, OrNone
  <2>3. requests' = Append(requests, [op |-> "register", if |-> 0, conn |-> 0, cmd |-> _cmd])
    BY <1>2 DEF ble_pairing, Ask, Request
  <2>4. requests' \in Seq(Requests) BY <2>2, <2>3, AppendFacts DEF Types
  <2>5. <<>> \in Seq(Commands) /\ 0 \in Nat /\ TRUE \in BOOLEAN OBVIOUS
  <2> QED BY <1>2, <2>4, <2>5 DEF ble_pairing, Types, scan
<1>3. ASSUME NEW n \in Names, NEW i \in OrNone, NEW c \in OrNone, NEW ok \in BOOLEAN,
             Tell(n, i, c, ok),
             UNCHANGED <<app, requests, registered, busy, written, stops>>,
             scanning' \in {scanning, FALSE}, connection' \in {connection, 0}
      PROVE  Types'
  <2>1. events' \in Seq(Events) BY <1>3, Told
  <2> QED BY <1>3, <2>1 DEF Types, app, OrNone
<1>t. 0 \in OrNone /\ "SCAN_RESULT" \in Names /\ "SCAN_END" \in Names /\ "CLOSE" \in Names
      /\ TRUE \in BOOLEAN /\ connection \in OrNone
  BY DEF OrNone, Names, ScanNames, Types
<1>4. ASSUME NEW ofSwitch \in BOOLEAN, Advertisement(ofSwitch) PROVE Types'
  BY <1>3, <1>4, <1>t DEF Advertisement, history
<1>5. CASE ScanEnds BY <1>3, <1>5, <1>t DEF ScanEnds, history
<1>6. CASE LinkDrops BY <1>3, <1>6, <1>t DEF LinkDrops, scan, history
<1>7. CASE UNCHANGED vars BY <1>7 DEF vars, app, scan, history, Types
<1> QED BY <1>1, <1>2, <1>4, <1>5, <1>6, <1>7, CallbackTypes, StackTypes DEF Next

-----------------------------------------------------------------------------
(* The phases of a pairing whose scan is stopped once at most.  Each callback makes the one  *)
(* next request, so that a pairing is in one place; what a connection leaves behind when it  *)
(* drops is dead, because the stack takes it before it gives the interface back.             *)

Quiet == ~scanning /\ connection = 0
\* The first n requests are what a finished pairing has left, up to giving its interface back.
Leaving(n) ==
  /\ \A i \in 1..n - 1 : requests[i].op \in Dead
  /\ IF n = 0 THEN registered = {}
     ELSE requests[n].op = "unregister" /\ requests[n].if = gif /\ registered \subseteq {gif}
Rest == ~busy /\ Quiet /\ events = <<>> /\ Leaving(Len(requests))
Registering ==
  /\ busy /\ stops = 0 /\ Quiet /\ events = <<>> /\ requests # <<>>
  /\ requests[Len(requests)].op = "register" /\ Leaving(Len(requests) - 1)
RegistrationTold ==
  /\ busy /\ stops = 0 /\ Quiet /\ requests = <<>> /\ Len(events) = 1
  /\ events[1].name = "REG" /\ (events[1].ok => registered = {events[1].if})
\* Nothing follows.
Stuck == busy /\ Quiet /\ requests = <<>> /\ events = <<>>
Preparing ==
  /\ busy /\ stops = 0 /\ Quiet /\ registered = {gif}
  /\ \/ Len(requests) = 1 /\ requests[1].op \in {"params", "scan"} /\ events = <<>>
     \/ Len(events) = 1 /\ events[1].name = "SCAN_PARAM_SET_COMPLETE" /\ requests = <<>>
Searching ==
  /\ busy /\ connection = 0 /\ registered = {gif}
  /\ \A i \in 1..Len(events) : events[i].name \in ScanNames
  /\ \/ stops = 0 /\ requests = <<>>
     \/ stops = 1 /\ Len(requests) = 1 /\ requests[1].op = "stop"
Stopped ==
  /\ busy /\ stops = 1 /\ Quiet /\ registered = {gif} /\ requests = <<>> /\ events # <<>>
  /\ \A i \in 1..Len(events) :
       events[i].name \in IF i = Len(events) THEN {"SCAN_STOP_COMPLETE"} ELSE ScanNames
Opening ==
  /\ busy /\ stops = 1 /\ Quiet /\ registered = {gif}
  /\ \/ Len(requests) = 1 /\ requests[1].op = "open" /\ events = <<>>
     \/ Len(events) = 1 /\ events[1].name = "OPEN" /\ ~events[1].ok /\ requests = <<>>
\* From the opened connection to its end, which is the last the stack tells of it.
Linked ==
  /\ busy /\ stops = 1 /\ ~scanning /\ registered = {gif}
  /\ \A i \in 1..Len(requests) : requests[i].op \in Dead
  /\ \A i \in 1..Len(events) :
       \/ events[i].name \in LinkNames /\ events[i].ok
       \/ events[i].name = "CLOSE" /\ i = Len(events) /\ connection = 0
Phases ==
  \/ Rest \/ Registering \/ RegistrationTold \/ Stuck \/ Preparing
  \/ Searching \/ Stopped \/ Opening \/ Linked
PhaseInv == ~Doubled => Phases

\* The one request there is after an Ask, the one event after a Tell.
LEMMA OneAsked ==
  ASSUME Types, requests = <<>>, NEW op \in Ops, NEW i \in OrNone, NEW c \in OrNone,
         Ask(op, i, c)
  PROVE  Len(requests') = 1 /\ requests'[1].op = op
BY Fields, AppendFacts DEF Types, Ask
LEMMA OneTold ==
  ASSUME Types, events = <<>>,
         NEW n \in Names, NEW i \in OrNone, NEW c \in OrNone, NEW ok \in BOOLEAN, Tell(n, i, c, ok)
  PROVE  Len(events') = 1 /\ events'[1].name = n /\ events'[1].if = i /\ events'[1].ok = ok
BY Fields, AppendFacts DEF Types, Tell

\* The last event is the one that was told.
LEMMA LastTold ==
  ASSUME Types, NEW n \in Names, NEW i \in OrNone, NEW c \in OrNone, NEW ok \in BOOLEAN,
         Tell(n, i, c, ok)
  PROVE  /\ Len(events) \in Nat /\ Len(events') = Len(events) + 1
         /\ events'[Len(events')].name = n /\ events'[Len(events')].ok = ok
         /\ \A k \in 1..Len(events) : events'[k] = events[k]
<1> DEFINE e == Event(n, i, c, ok)
<1>1. e \in Events /\ e.name = n /\ e.ok = ok BY Fields
<1> HIDE DEF e
<1>2. events' = Append(events, e) /\ events \in Seq(Events) BY DEF Tell, e, Types
<1> QED BY <1>1, <1>2, AppendFacts

\* The stack takes what the old pairing has left, and then the registration of the new one.
LEMMA LeftoverPhases ==
  ASSUME Types, Rest \/ Registering, Stack PROVE Rest' \/ Registering' \/ RegistrationTold'
<1> DEFINE r == Head(requests)
<1>1. /\ requests # <<>> /\ requests' = Tail(requests) /\ Answer(r)
      /\ UNCHANGED <<gif, busy, stops>>
  BY DEF Stack, app
<1>2. /\ requests' \in Seq(Requests) /\ Len(requests) \in Nat \ {0}
      /\ Len(requests') = Len(requests) - 1 /\ r = requests[1]
      /\ \A i \in 1..Len(requests) - 1 : requests'[i] = requests[i + 1]
  BY <1>1, TailFacts DEF Types
<1> HIDE DEF r
<1>3. Quiet /\ events = <<>> BY DEF Rest, Registering
<1>4. CASE r.op \in Dead
  <2>1. UNCHANGED <<events, registered, scanning, connection>>
    BY <1>1, <1>3, <1>4 DEF Answer, OnConnection, Dead, Quiet, scan
  <2>2. ASSUME NEW n \in Nat, n <= Len(requests), n # 0, Leaving(n) PROVE Leaving(n - 1)'
    <3>1. n # 1 BY <1>2, <1>4, <2>2 DEF Leaving, Dead
    <3>2. requests'[n - 1] = requests[n] BY <1>2, <2>2, <3>1
    <3>3. \A i \in 1..n - 2 : requests'[i].op \in Dead
      <4>1. \A i \in 1..n - 2 : requests'[i] = requests[i + 1] /\ i + 1 \in 1..n - 1
        BY <1>2, <2>2
      <4> QED BY <2>2, <4>1 DEF Leaving
    <3> QED BY <1>1, <2>1, <2>2, <3>1, <3>2, <3>3 DEF Leaving
  <2>3. CASE Rest
    <3>1. PICK n \in Nat : n = Len(requests) BY <1>2
    <3>2. Leaving(n - 1)' BY <1>2, <2>2, <2>3, <3>1 DEF Rest
    <3>3. Len(requests') = n - 1 BY <1>2, <3>1
    <3> QED BY <1>1, <2>1, <2>3, <3>2, <3>3 DEF Rest, Quiet, Leaving
  <2>4. CASE Registering
    <3>1. Len(requests) # 1 BY <1>2, <1>4, <2>4 DEF Registering, Dead
    <3>2. PICK n \in Nat : n = Len(requests) - 1 BY <1>2
    <3>3. n # 0 /\ Leaving(n - 1)' BY <1>2, <2>2, <2>4, <3>1, <3>2 DEF Registering
    <3>4. Len(requests') = n BY <1>2, <3>2
    <3>5. requests'[Len(requests')] = requests[Len(requests)] BY <1>2, <3>2, <3>3
    <3>6. requests' # <<>> BY <3>3, <3>4
    <3> QED BY <1>1, <2>1, <2>4, <3>3, <3>4, <3>5, <3>6 DEF Registering, Quiet, Leaving
  <2> QED BY <2>3, <2>4
<1>5. CASE r.op = "unregister"
  <2>1. UNCHANGED <<events, scanning>> /\ Unregisters(r)
    BY <1>1, <1>5 DEF Answer, Unregisters, scan
  <2>2. connection' = 0 BY <1>3, <2>1 DEF Unregisters, Quiet
  <2>3. CASE Rest
    <3>1. Len(requests) = 1 BY <1>2, <1>5, <2>3 DEF Rest, Leaving, Dead
    <3>2. r.if = gif /\ registered \subseteq {gif} BY <1>2, <2>3, <3>1 DEF Rest, Leaving
    <3>3. registered' = {} BY <2>1, <3>2 DEF Unregisters
    <3>4. Len(requests') = 0 BY <1>2, <3>1
    <3> QED BY <1>1, <1>3, <2>1, <2>2, <2>3, <3>3, <3>4 DEF Rest, Quiet, Leaving
  <2>4. CASE Registering
    <3>1. Len(requests) # 1 BY <1>2, <1>5, <2>4 DEF Registering
    <3>2. Len(requests) = 2 BY <1>2, <1>5, <2>4, <3>1 DEF Registering, Leaving, Dead
    <3>3. r.if = gif /\ registered \subseteq {gif} BY <1>2, <2>4, <3>2 DEF Registering, Leaving
    <3>4. registered' = {} BY <2>1, <3>3 DEF Unregisters
    <3>5. Len(requests') = 1 /\ requests'[1] = requests[2] BY <1>2, <3>2
    <3>6. requests' # <<>> BY <3>5
    <3>7. requests'[Len(requests')].op = "register" BY <2>4, <3>2, <3>5 DEF Registering
    <3> QED BY <1>1, <1>3, <2>1, <2>2, <2>4, <3>4, <3>5, <3>6, <3>7 DEF Registering, Quiet, Leaving
  <2> QED BY <2>3, <2>4
<1>6. CASE r.op = "register"
  <2>1. Registers /\ UNCHANGED <<scanning, connection>>
    BY <1>1, <1>6 DEF Answer, scan
  <2>2. ~Rest BY <1>2, <1>6 DEF Rest, Leaving, Dead
  <2>3. Registering BY <2>2
  <2>4. Len(requests) = 1 BY <1>2, <1>6, <2>3 DEF Registering, Leaving, Dead
  <2>5. registered = {} BY <2>3, <2>4 DEF Registering, Leaving
  <2>6. requests' = <<>> BY <1>2, <2>4
  <2>7. "REG" \in Names /\ 0 \in OrNone /\ Interfaces \subseteq OrNone BY DEF Names, OrNone
  <2>8. CASE \E i \in Interfaces : registered' = registered \cup {i} /\ Tell("REG", i, 0, TRUE)
    <3>1. PICK i \in Interfaces : registered' = registered \cup {i} /\ Tell("REG", i, 0, TRUE)
      BY <2>8
    <3>2. Len(events') = 1 /\ events'[1].name = "REG" /\ events'[1].if = i
      BY <1>3, <2>7, <3>1, OneTold
    <3> QED BY <1>1, <1>3, <2>1, <2>3, <2>5, <2>6, <3>1, <3>2
           DEF RegistrationTold, Registering, Quiet
  <2>9. CASE Tell("REG", 0, 0, FALSE)
    <3>1. Len(events') = 1 /\ events'[1].name = "REG" /\ ~events'[1].ok
      BY <1>3, <2>7, <2>9, OneTold
    <3> QED BY <1>1, <1>3, <2>1, <2>3, <2>6, <3>1 DEF RegistrationTold, Registering, Quiet
  <2> QED BY <2>1, <2>8, <2>9 DEF Registers
<1>7. r.op \in Dead \cup {"unregister", "register"}
  <2>1. CASE Rest BY <1>2, <2>1 DEF Rest, Leaving
  <2>2. CASE Registering BY <1>2, <2>2 DEF Registering, Leaving
  <2> QED BY <2>1, <2>2
<1> QED BY <1>4, <1>5, <1>6, <1>7

\* One request or one event is left when there was one.
LEMMA NoneLeft == ASSUME NEW S, NEW s \in Seq(S), Len(s) = 1 PROVE Tail(s) = <<>>
<1> DEFINE t == Tail(s)
<1>1. s # <<>> OBVIOUS
<1>2. t \in Seq(S) /\ Len(t) = 0 BY <1>1, TailFacts
<1> HIDE DEF t
<1>3. t = <<>> BY <1>2
<1> QED BY <1>3 DEF t

\* The stack does what an unfinished pairing asks, from the scan parameters to the open.
LEMMA RequestPhases ==
  ASSUME Types, Preparing \/ Searching \/ Opening, Stack PROVE Phases'
<1> DEFINE r == Head(requests)
<1>1. /\ requests # <<>> /\ requests' = Tail(requests) /\ Answer(r)
      /\ UNCHANGED <<gif, busy, stops>>
  BY DEF Stack, app
<1>2. /\ Len(requests) \in Nat \ {0} /\ r = requests[1]
      /\ events \in Seq(Events) /\ Len(<<>>) = 0
  BY <1>1, TailFacts DEF Types
<1>3. r \in Requests BY <1>1, TailFacts DEF Types
<1> HIDE DEF r
<1>4. Len(requests) = 1 BY <1>1, <1>2 DEF Preparing, Searching, Opening
<1>5. requests' = <<>> BY <1>1, <1>4, NoneLeft DEF Types
<1>6. 0 \in OrNone /\ r.if \in OrNone BY <1>3 DEF OrNone, Requests
<1>t. /\ "SCAN_PARAM_SET_COMPLETE" \in Names /\ "SCAN_STOP_COMPLETE" \in Names /\ "OPEN" \in Names
      /\ "SCAN_START_COMPLETE" \in Names /\ TRUE \in BOOLEAN /\ FALSE \in BOOLEAN
      /\ "SCAN_START_COMPLETE" \in ScanNames /\ "OPEN" \in LinkNames
  BY DEF Names, LinkNames, ScanNames
<1>7. CASE Preparing
  <2>1. r.op \in {"params", "scan"} /\ events = <<>> BY <1>1, <1>2, <1>7 DEF Preparing
  <2>2. CASE r.op = "params"
    <3>1. /\ Tell("SCAN_PARAM_SET_COMPLETE", 0, 0, TRUE)
          /\ UNCHANGED <<registered, scanning, connection>>
      BY <1>1, <2>2 DEF Answer, scan
    <3>2. Len(events') = 1 /\ events'[1].name = "SCAN_PARAM_SET_COMPLETE"
      BY <1>6, <1>t, <2>1, <3>1, OneTold
    <3> QED BY <1>1, <1>5, <1>7, <3>1, <3>2 DEF Preparing, Quiet, Phases
  <2>3. CASE r.op = "scan"
    <3>1. StartsScan /\ UNCHANGED <<registered, connection>> BY <1>1, <2>3 DEF Answer
    <3>2. Len(events') = 1 /\ events'[1].name = "SCAN_START_COMPLETE"
      BY <1>6, <1>t, <2>1, <3>1, OneTold DEF StartsScan
    <3>3. Searching' BY <1>1, <1>5, <1>7, <1>t, <3>1, <3>2 DEF Preparing, Quiet, Searching
    <3> QED BY <3>3 DEF Phases
  <2> QED BY <2>1, <2>2, <2>3
<1>8. CASE Searching
  <2>1. r.op = "stop" /\ stops = 1 BY <1>1, <1>2, <1>8 DEF Searching
  <2>2. StopsScan /\ UNCHANGED <<registered, connection>> BY <1>1, <2>1 DEF Answer
  <2>4. /\ Len(events) \in Nat /\ Len(events') = Len(events) + 1
        /\ events'[Len(events')].name = "SCAN_STOP_COMPLETE"
        /\ \A i \in 1..Len(events) : events'[i] = events[i]
    BY <1>6, <1>t, <2>2, LastTold DEF StopsScan
  <2>5. \A i \in 1..Len(events') :
          events'[i].name \in IF i = Len(events') THEN {"SCAN_STOP_COMPLETE"} ELSE ScanNames
    <3> SUFFICES ASSUME NEW i \in 1..Len(events'), i # Len(events')
                 PROVE  events'[i].name \in ScanNames
      BY <2>4
    <3>1. i \in 1..Len(events) BY <2>4
    <3> QED BY <1>8, <2>4, <3>1 DEF Searching
  <2>6. events' # <<>> BY <1>2, <2>4
  <2>7. Stopped' BY <1>1, <1>5, <1>8, <2>1, <2>2, <2>5, <2>6
         DEF Searching, Stopped, StopsScan, Quiet
  <2> QED BY <2>7 DEF Phases
<1>9. CASE Opening
  <2>1. r.op = "open" /\ events = <<>> BY <1>1, <1>2, <1>9 DEF Opening
  <2>2. Opens(r) /\ UNCHANGED <<registered, scanning>> BY <1>1, <2>1 DEF Answer, scan
  <2>3. connection = 0 /\ ~scanning BY <1>9 DEF Opening, Quiet
  <2>4. CASE r.if \in registered /\ connection' = r.if /\ Tell("OPEN", r.if, r.if, TRUE)
    <3>1. Len(events') = 1 /\ events'[1].name = "OPEN" /\ events'[1].ok
      BY <1>6, <1>t, <2>1, <2>4, OneTold
    <3>2. Linked' BY <1>1, <1>2, <1>5, <1>9, <1>t, <2>2, <3>1 DEF Opening, Quiet, Linked
    <3> QED BY <3>2 DEF Phases
  <2>5. CASE Tell("OPEN", r.if, 0, FALSE) /\ UNCHANGED connection
    <3>1. Len(events') = 1 /\ events'[1].name = "OPEN" /\ ~events'[1].ok
      BY <1>6, <1>t, <2>1, <2>5, OneTold
    <3>2. Opening' BY <1>1, <1>5, <1>9, <2>2, <2>5, <3>1 DEF Opening, Quiet
    <3> QED BY <3>2 DEF Phases
  <2>6. CASE UNCHANGED <<events, connection>>
    <3>1. Stuck' BY <1>1, <1>5, <1>9, <2>1, <2>2, <2>6 DEF Opening, Quiet, Stuck
    <3> QED BY <3>1 DEF Phases
  <2> QED BY <2>2, <2>4, <2>5, <2>6 DEF Opens
<1> QED BY <1>7, <1>8, <1>9

\* What is last told of a connection is told when there is none any more.
LEMMA LinkTold ==
  ASSUME Types, Linked, NEW n \in LinkNames \cup {"CLOSE"}, NEW i \in OrNone, NEW c \in OrNone,
         Tell(n, i, c, TRUE), connection # 0,
         connection' = IF n = "CLOSE" THEN 0 ELSE connection,
         UNCHANGED <<gif, busy, stops, scanning, registered>>,
         \A k \in 1..Len(requests') : requests'[k].op \in Dead
  PROVE  Linked'
<1>1. n \in Names /\ TRUE \in BOOLEAN BY DEF Names
<1>2. /\ Len(events) \in Nat /\ Len(events') = Len(events) + 1
      /\ events'[Len(events')].name = n /\ events'[Len(events')].ok
      /\ \A k \in 1..Len(events) : events'[k] = events[k]
  BY <1>1, LastTold
<1>3. ASSUME NEW k \in 1..Len(events')
      PROVE  \/ events'[k].name \in LinkNames /\ events'[k].ok
             \/ events'[k].name = "CLOSE" /\ k = Len(events') /\ connection' = 0
  <2>1. CASE k = Len(events') BY <1>2, <2>1
  <2>2. CASE k # Len(events')
    <3>1. k \in 1..Len(events) /\ events'[k] = events[k] BY <1>2, <2>2
    <3> QED BY <3>1 DEF Linked
  <2> QED BY <2>1, <2>2
<1> QED BY <1>3 DEF Linked

\* The stack does what is asked of a connection, or ignores it.
LEMMA LinkPhases == ASSUME Types, Linked, Stack PROVE Linked'
<1> DEFINE r == Head(requests)
<1>1. /\ requests # <<>> /\ requests' = Tail(requests) /\ Answer(r)
      /\ UNCHANGED <<gif, busy, stops>>
  BY DEF Stack, app
<1>2. /\ Len(requests) \in Nat \ {0} /\ r = requests[1] /\ r \in Requests
      /\ Len(requests') = Len(requests) - 1
      /\ \A i \in 1..Len(requests') : requests'[i] = requests[i + 1] /\ i + 1 \in 1..Len(requests)
  BY <1>1, TailFacts DEF Types
<1> HIDE DEF r
<1>3. /\ r.op \in Dead /\ \A i \in 1..Len(requests') : requests'[i].op \in Dead
      /\ r.if \in OrNone /\ r.conn \in OrNone
  BY <1>2 DEF Linked, Requests
<1>4. CASE OnConnection(r)
  <2>1. /\ UNCHANGED <<registered, scanning>> /\ connection # 0
        /\ \/ Tell("SEARCH_CMPL", r.if, r.conn, TRUE) /\ UNCHANGED connection
           \/ Tell("WRITE_CHAR", r.if, r.conn, TRUE) /\ UNCHANGED connection
           \/ Tell("CLOSE", r.if, r.conn, TRUE) /\ connection' = 0
    BY <1>1, <1>3, <1>4 DEF Answer, OnConnection, Dead, scan
  <2>2. /\ {"SEARCH_CMPL", "WRITE_CHAR", "CLOSE"} \subseteq LinkNames \cup {"CLOSE"}
    BY DEF LinkNames
  <2> QED BY <1>1, <1>3, <2>1, <2>2, LinkTold
<1>5. CASE ~OnConnection(r)
  <2>1. UNCHANGED <<events, registered, scanning, connection>>
    BY <1>1, <1>3, <1>5 DEF Answer, Dead, scan
  <2> QED BY <1>1, <1>3, <2>1 DEF Linked
<1> QED BY <1>4, <1>5

\* Every step of the stack leads from a phase to a phase.
LEMMA StackPhases == ASSUME Types, Phases, Stack PROVE Phases'
<1>1. ~RegistrationTold /\ ~Stuck /\ ~Stopped
  BY DEF Stack, RegistrationTold, Stuck, Stopped
<1> QED BY <1>1, LeftoverPhases, RequestPhases, LinkPhases DEF Phases

\* A pairing that has been told of something waits for nothing else until it looks for the switch,
\* and again while it opens the connection.
LEMMA ToldPhases ==
  ASSUME Types, RegistrationTold \/ Preparing \/ Opening, Callback PROVE Phases'
<1> DEFINE e == Head(events)
<1>1. /\ events # <<>> /\ events' = Tail(events) /\ Handles(e)
      /\ UNCHANGED <<registered, scanning, connection>>
  BY DEF Callback, scan
<1>2. Len(events) \in Nat \ {0} /\ e = events[1] /\ e \in Events
  BY <1>1, TailFacts DEF Types
<1> HIDE DEF e
<1>3. Len(events) = 1 /\ requests = <<>>
  BY <1>1, <1>2 DEF RegistrationTold, Preparing, Opening
<1>4. events' = <<>> BY <1>1, <1>3, NoneLeft DEF Types
<1>5. 0 \in OrNone /\ gif \in OrNone /\ "params" \in Ops /\ "scan" \in Ops /\ "open" \in Ops
  BY DEF OrNone, Types, Ops
<1>6. CASE RegistrationTold
  <2>1. Registered(e) BY <1>1, <1>2, <1>6 DEF RegistrationTold, Handles, GattEvents
  <2>2. CASE e.ok /\ gif' = e.if /\ Ask("params", 0, 0) /\ UNCHANGED <<_conn_id, _cmd, history>>
    <3>1. Len(requests') = 1 /\ requests'[1].op = "params" BY <1>3, <1>5, <2>2, OneAsked
    <3>2. registered = {e.if} BY <1>2, <1>6, <2>2 DEF RegistrationTold
    <3>3. UNCHANGED <<busy, stops>> BY <2>2 DEF history
    <3>4. Preparing'
      BY <1>1, <1>4, <1>6, <2>2, <3>1, <3>2, <3>3 DEF RegistrationTold, Preparing, Quiet
    <3> QED BY <3>4 DEF Phases
  <2>3. CASE ~e.ok /\ UNCHANGED <<app, requests, busy, written, stops>>
    <3>1. Stuck' BY <1>1, <1>3, <1>4, <1>6, <2>3 DEF RegistrationTold, Stuck, Quiet
    <3> QED BY <3>1 DEF Phases
  <2> QED BY <2>1, <2>2, <2>3 DEF Registered
<1>7. CASE Preparing
  <2>1. ParamsSet BY <1>1, <1>2, <1>7 DEF Preparing, Handles, GattEvents
  <2>2. Len(requests') = 1 /\ requests'[1].op = "scan" BY <1>3, <1>5, <2>1, OneAsked DEF ParamsSet
  <2>3. UNCHANGED <<gif, busy, stops>> BY <2>1 DEF ParamsSet, app, history
  <2>4. Preparing' BY <1>1, <1>4, <1>7, <2>2, <2>3 DEF Preparing, Quiet
  <2> QED BY <2>4 DEF Phases
<1>8. CASE Opening
  <2>1. e.name = "OPEN" /\ ~e.ok BY <1>1, <1>2, <1>8 DEF Opening
  <2>2. \/ e.if = gif /\ Opened(e)
        \/ UNCHANGED <<app, requests, history>>
    BY <1>1, <2>1 DEF Handles, GattEvents, OfThisInterface
  <2>3. CASE Opened(e)
    <3>1. Ask("open", gif, 0) /\ UNCHANGED <<gif, busy, stops>>
      BY <2>1, <2>3 DEF Opened, history
    <3>2. Len(requests') = 1 /\ requests'[1].op = "open" BY <1>3, <1>5, <3>1, OneAsked
    <3>3. Opening' BY <1>1, <1>4, <1>8, <3>1, <3>2 DEF Opening, Quiet
    <3> QED BY <3>3 DEF Phases
  <2>4. CASE UNCHANGED <<app, requests, history>>
    <3>1. Stuck' BY <1>1, <1>3, <1>4, <1>8, <2>4 DEF Opening, Quiet, Stuck, history
    <3> QED BY <3>1 DEF Phases
  <2> QED BY <2>2, <2>3, <2>4
<1> QED BY <1>6, <1>7, <1>8

\* The scan is stopped at the switch, and a second time if it is seen again before it ends.
LEMMA ScanPhases == ASSUME Types, Searching \/ Stopped, Callback PROVE PhaseInv'
<1> DEFINE e == Head(events)
<1>1. /\ events # <<>> /\ events' = Tail(events) /\ Handles(e)
      /\ UNCHANGED <<registered, scanning, connection>>
  BY DEF Callback, scan
<1>2. /\ Len(events) \in Nat \ {0} /\ e = events[1] /\ e \in Events
      /\ events' \in Seq(Events) /\ Len(events') = Len(events) - 1
      /\ \A i \in 1..Len(events') : events'[i] = events[i + 1] /\ i + 1 \in 1..Len(events)
  BY <1>1, TailFacts DEF Types
<1> HIDE DEF e
<1>3. 0 \in OrNone /\ gif \in OrNone /\ "stop" \in Ops /\ "open" \in Ops
  BY DEF OrNone, Types, Ops
<1>4. CASE e.name \in ScanNames
  <2>1. UNCHANGED <<gif, busy>>
        /\ \/ UNCHANGED <<requests, stops>>
           \/ Ask("stop", 0, 0) /\ stops' = stops + 1
    <3>1. ScanStarted(e) \/ ScanEnded \/ ScanResult(e)
      BY <1>1, <1>4 DEF Handles, ScanNames, GattEvents
    <3> QED BY <3>1 DEF ScanStarted, ScanEnded, ScanResult, app, history
  <2>2. CASE Searching
    <3>1. \A i \in 1..Len(events') : events'[i].name \in ScanNames
      BY <1>2, <2>2 DEF Searching
    <3>2. CASE UNCHANGED <<requests, stops>>
      <4>1. Searching' BY <1>1, <2>1, <2>2, <3>1, <3>2 DEF Searching
      <4> QED BY <4>1 DEF PhaseInv, Phases
    <3>3. CASE Ask("stop", 0, 0) /\ stops' = stops + 1 /\ stops = 1
      <4>1. Doubled' BY <3>3 DEF Doubled
      <4> QED BY <4>1 DEF PhaseInv
    <3>4. CASE Ask("stop", 0, 0) /\ stops' = stops + 1 /\ stops = 0
      <4>1. requests = <<>> BY <2>2, <3>4 DEF Searching
      <4>2. Len(requests') = 1 /\ requests'[1].op = "stop" BY <1>3, <3>4, <4>1, OneAsked
      <4>3. stops' = 1 BY <3>4
      <4>4. Searching' BY <1>1, <2>1, <2>2, <3>1, <4>2, <4>3 DEF Searching
      <4> QED BY <4>4 DEF PhaseInv, Phases
    <3> QED BY <2>1, <2>2, <3>2, <3>3, <3>4 DEF Searching
  <2>3. CASE Stopped
    <3>1. CASE UNCHANGED <<requests, stops>>
      <4>1. Len(events) # 1 BY <1>2, <1>4, <2>3 DEF Stopped, ScanNames
      <4>2. events' # <<>> BY <1>2, <4>1
      <4>3. \A i \in 1..Len(events') :
              events'[i].name \in IF i = Len(events') THEN {"SCAN_STOP_COMPLETE"} ELSE ScanNames
        <5> TAKE i \in 1..Len(events')
        <5>1. events'[i] = events[i + 1] /\ i + 1 \in 1..Len(events)
              /\ (i = Len(events') <=> i + 1 = Len(events))
          BY <1>2
        <5>2. events[i + 1].name
                \in IF i + 1 = Len(events) THEN {"SCAN_STOP_COMPLETE"} ELSE ScanNames
          BY <2>3, <5>1 DEF Stopped
        <5> QED BY <5>1, <5>2
      <4>4. Stopped' BY <1>1, <2>1, <2>3, <3>1, <4>2, <4>3 DEF Stopped, Quiet
      <4> QED BY <4>4 DEF PhaseInv, Phases
    <3>2. CASE stops' = stops + 1
      <4>1. Doubled' BY <2>3, <3>2 DEF Doubled, Stopped
      <4> QED BY <4>1 DEF PhaseInv
    <3> QED BY <2>1, <3>1, <3>2
  <2> QED BY <2>2, <2>3
<1>5. CASE e.name \notin ScanNames
  <2>1. Stopped BY <1>2, <1>5 DEF Searching
  <2>2. Len(events) = 1 /\ e.name = "SCAN_STOP_COMPLETE" BY <1>2, <1>5, <2>1 DEF Stopped
  <2>3. events' = <<>> BY <1>1, <2>2, NoneLeft DEF Types
  <2>4. ScanStopped BY <1>1, <2>2 DEF Handles, GattEvents
  <2>5. Len(requests') = 1 /\ requests'[1].op = "open"
    BY <1>3, <2>1, <2>4, OneAsked DEF Stopped, ScanStopped
  <2>6. UNCHANGED <<gif, busy, stops>> BY <2>4 DEF ScanStopped, app, history
  <2>7. Opening' BY <1>1, <2>1, <2>3, <2>5, <2>6 DEF Stopped, Opening, Quiet
  <2> QED BY <2>7 DEF PhaseInv, Phases
<1> QED BY <1>4, <1>5

\* One more request: the others are as they were.
LEMMA LastAsked ==
  ASSUME Types, NEW op \in Ops, NEW i \in OrNone, NEW c \in OrNone, Ask(op, i, c)
  PROVE  /\ Len(requests) \in Nat /\ Len(requests') = Len(requests) + 1
         /\ requests'[Len(requests')].op = op /\ requests'[Len(requests')].if = i
         /\ requests'[Len(requests')].cmd = _cmd
         /\ \A k \in 1..Len(requests) : requests'[k] = requests[k]
<1> DEFINE r == Request(op, i, c)
<1>1. r \in Requests /\ r.op = op /\ r.if = i /\ r.cmd = _cmd BY Fields DEF Types
<1> HIDE DEF r
<1>2. requests' = Append(requests, r) /\ requests \in Seq(Requests) BY DEF Ask, r, Types
<1> QED BY <1>1, <1>2, AppendFacts

\* The end of the connection is the end of the pairing, which leaves dead requests behind.
LEMMA EndPhases == ASSUME Types, Linked, Callback PROVE Linked' \/ Rest'
<1> DEFINE e == Head(events)
<1>1. /\ events # <<>> /\ events' = Tail(events) /\ Handles(e)
      /\ UNCHANGED <<registered, scanning, connection>>
  BY DEF Callback, scan
<1>2. /\ Len(events) \in Nat \ {0} /\ e = events[1] /\ e \in Events
      /\ events' \in Seq(Events) /\ Len(events') = Len(events) - 1
      /\ \A i \in 1..Len(events') : events'[i] = events[i + 1] /\ i + 1 \in 1..Len(events)
  BY <1>1, TailFacts DEF Types
<1> HIDE DEF e
<1>3. /\ e.if \in OrNone /\ e.conn \in OrNone /\ 0 \in OrNone
      /\ gif \in OrNone /\ _conn_id \in OrNone
      /\ Dead \subseteq Ops /\ "unregister" \in Ops /\ Len(requests) \in Nat
      /\ "search" \in Dead /\ "write" \in Dead /\ "close" \in Dead
  BY <1>2 DEF OrNone, Events, Types, Ops, Dead
<1>4. \A i \in 1..Len(events') :
        \/ events'[i].name \in LinkNames /\ events'[i].ok
        \/ events'[i].name = "CLOSE" /\ i = Len(events') /\ connection' = 0
  <2> TAKE i \in 1..Len(events')
  <2>1. events'[i] = events[i + 1] /\ i + 1 \in 1..Len(events)
        /\ (i = Len(events') <=> i + 1 = Len(events))
    BY <1>2
  <2> QED BY <1>1, <2>1 DEF Linked
<1>5. \/ e.name \in LinkNames /\ e.ok
      \/ e.name = "CLOSE" /\ Len(events) = 1 /\ connection = 0
  BY <1>2 DEF Linked
<1>6. ASSUME UNCHANGED <<gif, busy, stops>>,
             requests' = requests \/ \E op \in Dead, i, c \in OrNone : Ask(op, i, c)
      PROVE  Linked'
  <2>1. \A k \in 1..Len(requests') : requests'[k].op \in Dead
    <3>1. CASE requests' = requests BY <3>1 DEF Linked
    <3>2. CASE \E op \in Dead, i, c \in OrNone : Ask(op, i, c)
      <4>1. PICK op \in Dead : \E i, c \in OrNone : Ask(op, i, c) BY <3>2
      <4>2. /\ Len(requests') = Len(requests) + 1 /\ requests'[Len(requests')].op = op
            /\ \A k \in 1..Len(requests) : requests'[k] = requests[k]
        BY <1>3, <4>1, LastAsked
      <4> TAKE k \in 1..Len(requests')
      <4>3. k = Len(requests') \/ k \in 1..Len(requests) BY <1>3, <4>2
      <4> QED BY <4>1, <4>2, <4>3 DEF Linked
    <3> QED BY <1>6, <3>1, <3>2
  <2> QED BY <1>1, <1>4, <1>6, <2>1 DEF Linked
<1>7. CASE e.name \in LinkNames
  <2>1. \/ Opened(e) /\ e.ok
        \/ switcher_move \/ Written(e) \/ UNCHANGED <<app, requests, history>>
    BY <1>1, <1>5, <1>7 DEF Handles, GattEvents, OfThisInterface, LinkNames
  <2> QED BY <1>3, <1>6, <2>1 DEF Opened, switcher_move, Written, app, history
<1>8. CASE e.name = "CLOSE"
  <2>1. Len(events) = 1 /\ connection = 0 BY <1>5, <1>8 DEF LinkNames
  <2>2. events' = <<>> BY <1>1, <2>1, NoneLeft DEF Types
  <2>3. \/ e.if = gif /\ Closed(e)
        \/ UNCHANGED <<app, requests, history>>
    BY <1>1, <1>8 DEF Handles, GattEvents, OfThisInterface
  <2>4. CASE e.if = gif /\ Closed(e)
    <3>1. Ask("unregister", gif, 0) /\ ~busy' /\ gif' = gif BY <2>4 DEF Closed, app
    <3>2. PICK n \in Nat : n = Len(requests) + 1 BY <1>3
    <3>3. /\ Len(requests') = n /\ n # 0
          /\ requests'[n].op = "unregister" /\ requests'[n].if = gif
          /\ \A k \in 1..n - 1 : requests'[k] = requests[k]
      BY <1>3, <3>1, <3>2, LastAsked
    <3>4. \A k \in 1..n - 1 : requests'[k].op \in Dead
      BY <1>3, <3>2, <3>3 DEF Linked
    <3>5. registered' = {gif} /\ Quiet' BY <1>1, <2>1 DEF Linked, Quiet
    <3> QED BY <2>2, <3>1, <3>3, <3>4, <3>5 DEF Rest, Leaving
  <2>5. CASE UNCHANGED <<app, requests, history>>
    BY <1>6, <2>5 DEF app, history
  <2> QED BY <2>3, <2>4, <2>5
<1> QED BY <1>5, <1>7, <1>8

\* A new pairing, which comes when the last one is over.
LEMMA PairingPhases ==
  ASSUME Types, Rest, NEW cmd \in Commands, ble_pairing(cmd) PROVE Registering'
<1> DEFINE r == [op |-> "register", if |-> 0, conn |-> 0, cmd |-> _cmd]
<1>1. /\ requests' = Append(requests, r) /\ busy' /\ stops' = 0
      /\ UNCHANGED <<gif, events, registered, scanning, connection>>
  BY DEF ble_pairing, Ask, Request, scan
<1>2. r \in Requests /\ r.op = "register" BY DEF Requests, Types, Ops, OrNone
<1> HIDE DEF r
<1>3. PICK n \in Nat : n = Len(requests) BY AppendFacts, <1>2 DEF Types
<1>4. /\ Len(requests') = n + 1 /\ requests'[n + 1] = r
      /\ \A k \in 1..n : requests'[k] = requests[k]
  BY <1>1, <1>2, <1>3, AppendFacts DEF Types
<1>5. Leaving(n)' BY <1>1, <1>3, <1>4 DEF Rest, Leaving
<1>6. requests' # <<>> BY <1>4
<1>7. Len(requests') - 1 = n BY <1>4
<1>8. /\ \A k \in 1..n - 1 : requests'[k].op \in Dead
      /\ IF n = 0 THEN registered' = {}
         ELSE /\ requests'[n].op = "unregister" /\ requests'[n].if = gif'
              /\ registered' \subseteq {gif'}
  BY <1>5 DEF Leaving
<1> QED BY <1>1, <1>2, <1>4, <1>6, <1>7, <1>8 DEF Registering, Rest, Quiet, Leaving

\* Every step keeps what is known of a pairing.
LEMMA PhaseStep == Types /\ PhaseInv /\ [Next]_vars => PhaseInv'
<1> SUFFICES ASSUME Types, PhaseInv, [Next]_vars, ~Doubled' PROVE Phases'
  BY DEF PhaseInv
<1>1. CASE ble_task \/ UNCHANGED vars
  <2>1. UNCHANGED <<gif, requests, events, registered, scanning, connection, busy, stops>>
    BY <1>1 DEF ble_task, vars, app, scan, history
  <2>2. Phases BY <2>1 DEF Doubled, PhaseInv
  <2> QED BY <2>1, <2>2 DEF Phases, Rest, Registering, RegistrationTold, Stuck, Preparing,
             Searching, Stopped, Opening, Linked, Leaving, Quiet
<1>2. ASSUME NEW cmd \in Commands, ble_pairing(cmd) PROVE Phases'
  <2>1. Phases /\ ~busy BY <1>2 DEF ble_pairing, PhaseInv
  <2>2. Rest
    BY <2>1 DEF Phases, Registering, RegistrationTold, Stuck, Preparing, Searching, Stopped,
                Opening, Linked
  <2> QED BY <1>2, <2>2, PairingPhases DEF Phases
<1>3. CASE Callback
  <2>1. stops' = stops \/ stops' = stops + 1
    BY <1>3 DEF Callback, Handles, ParamsSet, ScanStarted, ScanEnded, ScanResult, ScanStopped,
                Opened, Closed, switcher_move, Written, Registered, OfThisInterface, history
  <2>2. Phases BY <2>1 DEF Types, Doubled, PhaseInv
  <2>3. ~Rest /\ ~Registering /\ ~Stuck BY <1>3 DEF Callback, Rest, Registering, Stuck
  <2> QED BY <1>3, <2>2, <2>3, ToldPhases, ScanPhases, EndPhases DEF Phases, PhaseInv
<1>4. CASE Stack
  <2>1. stops' = stops BY <1>4 DEF Stack
  <2> QED BY <1>4, <2>1, StackPhases DEF Doubled, PhaseInv
<1>5. ASSUME NEW n \in ScanNames, NEW ok \in BOOLEAN, scanning, Tell(n, 0, 0, ok),
             scanning' \in BOOLEAN,
             UNCHANGED <<gif, requests, registered, connection, busy, stops>>
      PROVE  Phases'
  <2>1. Phases BY <1>5 DEF Doubled, PhaseInv
  <2>2. Searching
    BY <1>5, <2>1 DEF Phases, Rest, Registering, RegistrationTold, Stuck, Preparing, Stopped,
                      Opening, Linked, Quiet
  <2>3. /\ Len(events) \in Nat /\ Len(events') = Len(events) + 1
        /\ events'[Len(events')].name = n
        /\ \A k \in 1..Len(events) : events'[k] = events[k]
    BY <1>5, LastTold DEF Names, OrNone
  <2>4. ASSUME NEW i \in 1..Len(events') PROVE events'[i].name \in ScanNames
    <3>1. i = Len(events') \/ i \in 1..Len(events) BY <2>3
    <3> QED BY <2>2, <2>3, <3>1 DEF Searching
  <2>5. Searching' BY <1>5, <2>2, <2>4 DEF Searching
  <2> QED BY <2>5 DEF Phases
<1>6. ASSUME NEW ofSwitch \in BOOLEAN, Advertisement(ofSwitch) PROVE Phases'
  BY <1>5, <1>6 DEF Advertisement, ScanNames, app, history, Types
<1>7. CASE ScanEnds
  BY <1>5, <1>7 DEF ScanEnds, ScanNames, app, history
<1>8. CASE LinkDrops
  <2>1. /\ connection # 0 /\ connection' = 0 /\ Tell("CLOSE", connection, connection, TRUE)
        /\ UNCHANGED <<gif, requests, registered, scanning, busy, stops>>
    BY <1>8 DEF LinkDrops, app, scan, history
  <2>2. Phases BY <2>1 DEF Doubled, PhaseInv
  <2>3. Linked
    BY <2>1, <2>2 DEF Phases, Rest, Registering, RegistrationTold, Stuck, Preparing, Searching,
                      Stopped, Opening, Quiet
  <2>4. \A k \in 1..Len(requests') : requests'[k].op \in Dead BY <2>1, <2>3 DEF Linked
  <2>5. connection \in OrNone BY DEF Types
  <2>6. Linked' BY <2>1, <2>3, <2>4, <2>5, LinkTold
  <2> QED BY <2>6 DEF Phases
<1> QED BY <1>1, <1>2, <1>3, <1>4, <1>6, <1>7, <1>8 DEF Next

\* The pairing starts as if one were over.
LEMMA InitPhases == Init => Types /\ PhaseInv
<1> SUFFICES ASSUME Init PROVE Types /\ Rest
  BY DEF PhaseInv, Phases
<1>1. requests = <<>> /\ events = <<>> /\ written = <<>> /\ Len(requests) = 0
  BY DEF Init
<1>a. requests \in Seq(Requests) /\ events \in Seq(Events) /\ written \in Seq(Commands) BY <1>1
<1>b. 0 \in OrNone /\ stops \in Nat /\ scanning \in BOOLEAN /\ busy \in BOOLEAN BY DEF Init, OrNone
<1>2. Types BY <1>a, <1>b DEF Init, Types
<1>3. Rest BY <1>1 DEF Init, Rest, Quiet, Leaving
<1> QED BY <1>2, <1>3

\* A pairing is in one place of its way, unless its scan was stopped twice.
THEOREM OnePlace == Spec => [](Types /\ PhaseInv)
<1>1. Types /\ PhaseInv /\ [Next]_vars => (Types /\ PhaseInv)' BY TypesStep, PhaseStep
<1> QED BY <1>1, InitPhases, PTL DEF Spec

\* unregistered() is called when nothing of the pairing is left but what the stack takes before
\* it gives the registration back (ble.c: CLOSE), whatever was lost or refused before.
THEOREM OverWhenTold == Spec => []NothingLeft
<1>1. Types /\ PhaseInv => NothingLeft
  <2> SUFFICES ASSUME Types, PhaseInv, ~busy, ~Doubled
               PROVE  /\ ~scanning /\ connection = 0 /\ events = <<>>
                      /\ IF requests = <<>> THEN registered = {}
                         ELSE requests[Len(requests)].op = "unregister"
    BY DEF NothingLeft
  <2>1. Rest
    BY DEF PhaseInv, Phases, Registering, RegistrationTold, Stuck, Preparing, Searching, Stopped,
           Opening, Linked
  <2>2. requests \in Seq(Requests) BY DEF Types
  <2>3. requests = <<>> <=> Len(requests) = 0 BY <2>2
  <2> QED BY <2>1, <2>3 DEF Rest, Quiet, Leaving
<1> QED BY <1>1, OnePlace, PTL

-----------------------------------------------------------------------------
(* The command.  Each stop of a scan puts one token into play, which a request of the next    *)
(* step and the event of its answer hand on; a command that the switch receives uses it up.   *)

Places(s, P) == {i \in 1..Len(s) : s[i] \in P}
Count(s, P) == Cardinality(Places(s, P))
TokenRequests == {r \in Requests : r.op \in {"stop", "open", "search", "write"}}
TokenEvents == {e \in Events : e.name \in {"SCAN_STOP_COMPLETE", "OPEN", "SEARCH_CMPL"}}
Tokens == Count(requests, TokenRequests) + Count(events, TokenEvents)
TokenInv ==
  IF stops = 0 THEN written = <<>>
  ELSE /\ Tokens + Len(written) <= stops
       /\ \A i \in 1..Len(written) : written[i] = _cmd
       /\ \A i \in 1..Len(requests) : requests[i].op = "write" => requests[i].cmd = _cmd

\* The places of a sequence are finitely many.
LEMMA PlacesFinite ==
  ASSUME NEW S, NEW s \in Seq(S), NEW P PROVE IsFiniteSet(Places(s, P)) /\ Count(s, P) \in Nat
<1>1. Places(s, P) \subseteq 1..Len(s) /\ IsFiniteSet(1..Len(s)) BY FS_Interval DEF Places
<1> QED BY <1>1, FS_Subset, FS_CardinalityType DEF Count

\* An element that is appended counts if it is one of them ...
LEMMA CountAppend ==
  ASSUME NEW S, NEW s \in Seq(S), NEW x \in S, NEW P
  PROVE  Count(Append(s, x), P) = Count(s, P) + (IF x \in P THEN 1 ELSE 0)
<1>1. /\ Len(s) \in Nat /\ Len(Append(s, x)) = Len(s) + 1
      /\ \A i \in 1..Len(s) + 1 : Append(s, x)[i] = IF i = Len(s) + 1 THEN x ELSE s[i]
  BY AppendFacts
<1>2. IsFiniteSet(Places(s, P)) /\ Count(s, P) \in Nat BY PlacesFinite
<1>3. Len(s) + 1 \notin Places(s, P) BY <1>1 DEF Places
<1>4. CASE x \in P
  <2>1. Places(Append(s, x), P) = Places(s, P) \cup {Len(s) + 1} BY <1>1, <1>4 DEF Places
  <2> QED BY <1>2, <1>3, <1>4, <2>1, FS_AddElement DEF Count
<1>5. CASE x \notin P
  <2>1. Places(Append(s, x), P) = Places(s, P) BY <1>1, <1>5 DEF Places
  <2> QED BY <1>2, <1>5, <2>1 DEF Count
<1> QED BY <1>4, <1>5

\* ... and one that is taken counted if it was.
LEMMA CountTail ==
  ASSUME NEW S, NEW s \in Seq(S), s # <<>>, NEW P
  PROVE  Count(Tail(s), P) = Count(s, P) - (IF Head(s) \in P THEN 1 ELSE 0)
<1> DEFINE T == Places(Tail(s), P)
           U == Places(s, P) \ {1}
           f == [i \in T |-> i + 1]
<1>1. /\ Tail(s) \in Seq(S) /\ Len(s) \in Nat \ {0} /\ Len(Tail(s)) = Len(s) - 1
      /\ Head(s) = s[1] /\ \A i \in 1..Len(s) - 1 : Tail(s)[i] = s[i + 1]
  BY TailFacts
<1>2. f \in [T -> U] BY <1>1 DEF Places
<1>3. \A a, b \in T : f[a] = f[b] => a = b BY <1>1 DEF Places
<1>4. \A u \in U : \E t \in T : f[t] = u
  <2> SUFFICES ASSUME NEW u \in U PROVE u - 1 \in T /\ f[u - 1] = u
    OBVIOUS
  <2>1. u \in 2..Len(s) /\ s[u] \in P BY <1>1 DEF Places
  <2>2. u - 1 \in 1..Len(s) - 1 /\ (u - 1) + 1 = u BY <1>1, <2>1
  <2> QED BY <1>1, <2>1, <2>2 DEF Places
<1>5. ExistsBijection(T, U)
  BY <1>2, <1>3, <1>4 DEF ExistsBijection, Bijection, Injection, Surjection, IsInjective
<1>6. Cardinality(U) = Cardinality(T) BY <1>1, <1>5, PlacesFinite, FS_Bijection
<1>7. IsFiniteSet(Places(s, P)) /\ Cardinality(Places(s, P)) \in Nat BY PlacesFinite DEF Count
<1>8. Cardinality(U) = IF 1 \in Places(s, P) THEN Cardinality(Places(s, P)) - 1
                       ELSE Cardinality(Places(s, P))
  BY <1>7, FS_RemoveElement
<1>9. 1 \in Places(s, P) <=> Head(s) \in P BY <1>1 DEF Places
<1> QED BY <1>6, <1>7, <1>8, <1>9 DEF Count

\* The tokens after a request that is asked, and after an event that is told.
LEMMA TokenAsked ==
  ASSUME Types, NEW op \in Ops, NEW i \in OrNone, NEW c \in OrNone, Ask(op, i, c)
  PROVE  Count(requests, TokenRequests)'
           = Count(requests, TokenRequests)
               + (IF op \in {"stop", "open", "search", "write"} THEN 1 ELSE 0)
<1> DEFINE r == Request(op, i, c)
<1>1. r \in Requests /\ r.op = op BY Fields DEF Types
<1> HIDE DEF r
<1>2. requests' = Append(requests, r) /\ requests \in Seq(Requests) BY DEF Ask, r, Types
<1>3. r \in TokenRequests <=> op \in {"stop", "open", "search", "write"}
  BY <1>1 DEF TokenRequests
<1> QED BY <1>1, <1>2, <1>3, CountAppend
LEMMA TokenTold ==
  ASSUME Types, NEW n \in Names, NEW i \in OrNone, NEW c \in OrNone, NEW ok \in BOOLEAN,
         Tell(n, i, c, ok)
  PROVE  Count(events, TokenEvents)'
           = Count(events, TokenEvents)
               + (IF n \in {"SCAN_STOP_COMPLETE", "OPEN", "SEARCH_CMPL"} THEN 1 ELSE 0)
<1> DEFINE e == Event(n, i, c, ok)
<1>1. e \in Events /\ e.name = n BY Fields
<1> HIDE DEF e
<1>2. events' = Append(events, e) /\ events \in Seq(Events) BY DEF Tell, e, Types
<1>3. e \in TokenEvents <=> n \in {"SCAN_STOP_COMPLETE", "OPEN", "SEARCH_CMPL"}
  BY <1>1 DEF TokenEvents
<1> QED BY <1>1, <1>2, <1>3, CountAppend

\* The tokens in the requests and in the events.
Asking == Count(requests, TokenRequests)
Telling == Count(events, TokenEvents)
LEMMA TokenTypes ==
  /\ Types => Asking \in Nat /\ Telling \in Nat /\ Len(written) \in Nat
  /\ Types' => Asking' \in Nat /\ Telling' \in Nat /\ Len(written') \in Nat
BY PlacesFinite DEF Types, Asking, Telling

\* The stack hands a token on, lets the switch receive it, or loses it.
LEMMA StackTokens ==
  ASSUME Types, Types', Stack
  PROVE  /\ Asking' + Telling' + Len(written') <= Asking + Telling + Len(written)
         /\ \/ UNCHANGED written
            \/ /\ connection # 0 /\ Head(requests).op = "write"
               /\ written' = Append(written, Head(requests).cmd)
<1> DEFINE r == Head(requests)
<1>1. requests # <<>> /\ requests' = Tail(requests) /\ Answer(r)
  BY DEF Stack
<1>2. r \in Requests BY <1>1, TailFacts DEF Types
<1>3. Asking' = Asking - (IF r \in TokenRequests THEN 1 ELSE 0)
  BY <1>1, CountTail DEF Asking, Types
<1> HIDE DEF r
<1>4. r \in TokenRequests <=> r.op \in {"stop", "open", "search", "write"}
  BY <1>2 DEF TokenRequests
<1>5. /\ Asking \in Nat /\ Telling \in Nat /\ Len(written) \in Nat
      /\ Asking' \in Nat /\ Telling' \in Nat
  BY TokenTypes
<1>6. r.if \in OrNone /\ r.conn \in OrNone /\ 0 \in OrNone /\ r.cmd \in Commands
      /\ \A i \in Interfaces : i \in OrNone
  BY <1>2 DEF Requests, OrNone
<1>7. ASSUME NEW n \in Names, NEW i \in OrNone, NEW c \in OrNone, NEW ok \in BOOLEAN,
             Tell(n, i, c, ok)
      PROVE  Telling' = Telling
               + (IF n \in {"SCAN_STOP_COMPLETE", "OPEN", "SEARCH_CMPL"} THEN 1 ELSE 0)
  BY <1>7, TokenTold DEF Telling
<1>t. /\ "REG" \in Names /\ "SCAN_PARAM_SET_COMPLETE" \in Names /\ "SCAN_STOP_COMPLETE" \in Names
      /\ "CLOSE" \in Names /\ "OPEN" \in Names /\ "SEARCH_CMPL" \in Names /\ "WRITE_CHAR" \in Names
      /\ "SCAN_START_COMPLETE" \in Names /\ TRUE \in BOOLEAN /\ FALSE \in BOOLEAN
  BY DEF Names, LinkNames, ScanNames
<1> DEFINE Plain ==
             \E n \in {"REG", "SCAN_PARAM_SET_COMPLETE", "SCAN_START_COMPLETE", "CLOSE"},
                i, c \in OrNone, ok \in BOOLEAN : Tell(n, i, c, ok)
           Handing ==
             \E n \in {"SCAN_STOP_COMPLETE", "OPEN", "SEARCH_CMPL"},
                i, c \in OrNone, ok \in BOOLEAN : Tell(n, i, c, ok)
<1>8. CASE UNCHANGED <<events, written>>
  <2>1. Telling' = Telling BY <1>8 DEF Telling
  <2> QED BY <1>3, <1>5, <1>8, <2>1
<1>9. CASE UNCHANGED written /\ Plain
  <2>1. Telling' = Telling BY <1>5, <1>7, <1>9, <1>t
  <2> QED BY <1>3, <1>5, <1>9, <2>1
<1>10. CASE r.op \in {"stop", "open", "search"} /\ UNCHANGED written /\ Handing
  <2>1. Telling' = Telling + 1 BY <1>5, <1>7, <1>10, <1>t
  <2> QED BY <1>3, <1>4, <1>5, <1>10, <2>1
<1>11. CASE /\ r.op = "write" /\ OnConnection(r) /\ Tell("WRITE_CHAR", r.if, r.conn, TRUE)
            /\ written' = Append(written, r.cmd)
  <2>a. \E n \in {"WRITE_CHAR"}, i, c \in OrNone, ok \in BOOLEAN : Tell(n, i, c, ok)
    BY <1>6, <1>11
  <2>1. Telling' = Telling BY <1>5, <1>7, <1>t, <2>a
  <2>2. Asking' = Asking - 1 BY <1>3, <1>4, <1>11
  <2>3. Len(written') = Len(written) + 1 BY <1>6, <1>11, AppendFacts DEF Types
  <2>4. connection # 0 BY <1>11 DEF OnConnection
  <2> QED BY <1>5, <1>11, <2>1, <2>2, <2>3, <2>4 DEF r
<1>12. \/ UNCHANGED <<events, written>>
       \/ UNCHANGED written /\ Plain
       \/ r.op \in {"stop", "open", "search"} /\ UNCHANGED written /\ Handing
       \/ /\ r.op = "write" /\ OnConnection(r) /\ Tell("WRITE_CHAR", r.if, r.conn, TRUE)
          /\ written' = Append(written, r.cmd)
  <2>1. CASE Registers /\ UNCHANGED written
    <3>1. \E i \in OrNone, ok \in BOOLEAN : Tell("REG", i, 0, ok)
      BY <1>6, <1>t, <2>1 DEF Registers
    <3> QED BY <1>6, <2>1, <3>1
  <2>2. CASE Tell("SCAN_PARAM_SET_COMPLETE", 0, 0, TRUE) /\ UNCHANGED written BY <1>6, <1>t, <2>2
  <2>3. CASE StartsScan /\ UNCHANGED written BY <1>6, <2>3 DEF StartsScan
  <2>4. CASE r.op = "stop" /\ StopsScan /\ UNCHANGED written BY <1>6, <1>t, <2>4 DEF StopsScan
  <2>5. CASE r.op = "open" /\ Opens(r) /\ UNCHANGED written BY <1>6, <1>t, <2>5 DEF Opens
  <2>6. CASE r.op = "search" /\ Tell("SEARCH_CMPL", r.if, r.conn, TRUE) /\ UNCHANGED written
    BY <1>6, <1>t, <2>6
  <2>7. CASE Tell("CLOSE", r.if, r.conn, TRUE) /\ UNCHANGED written BY <1>6, <1>t, <2>7
  <2>8. CASE Unregisters(r) /\ UNCHANGED written BY <2>8 DEF Unregisters
  <2> QED BY <1>1, <2>1, <2>2, <2>3, <2>4, <2>5, <2>6, <2>7, <2>8 DEF Answer
<1> QED BY <1>8, <1>9, <1>10, <1>11, <1>12

\* A step of the stack keeps the tokens: without a stop there is no connection to write on.
LEMMA StackKeepsTokens ==
  ASSUME Types, Types', PhaseInv, TokenInv, Stack PROVE TokenInv'
<1> DEFINE r == Head(requests)
<1>1. /\ requests # <<>> /\ requests' = Tail(requests) /\ UNCHANGED <<stops, _cmd>>
  BY DEF Stack, app
<1>2. /\ r = requests[1] /\ r \in Requests /\ Len(requests) \in Nat \ {0}
      /\ Len(requests') = Len(requests) - 1
      /\ \A i \in 1..Len(requests') : requests'[i] = requests[i + 1] /\ i + 1 \in 1..Len(requests)
  BY <1>1, TailFacts DEF Types
<1>3. /\ Asking' + Telling' + Len(written') <= Asking + Telling + Len(written)
      /\ \/ UNCHANGED written
         \/ connection # 0 /\ r.op = "write" /\ written' = Append(written, r.cmd)
  BY StackTokens
<1> HIDE DEF r
<1>4. CASE stops = 0
  <2>1. connection = 0
    BY <1>4 DEF PhaseInv, Doubled, Phases, Rest, Registering, RegistrationTold, Stuck, Preparing,
                Searching, Stopped, Opening, Linked, Quiet
  <2> QED BY <1>1, <1>3, <1>4, <2>1 DEF TokenInv
<1>5. CASE stops # 0
  <2>1. Tokens' + Len(written') <= stops'
    <3>1. Asking \in Nat /\ Telling \in Nat /\ Len(written) \in Nat
          /\ Asking' \in Nat /\ Telling' \in Nat /\ Len(written') \in Nat /\ stops \in Nat
      BY TokenTypes DEF Types
    <3>2. Asking + Telling + Len(written) <= stops
      BY <1>5 DEF TokenInv, Tokens, Asking, Telling
    <3>3. Asking' + Telling' + Len(written') <= stops' BY <1>1, <1>3, <3>1, <3>2
    <3> QED BY <3>3 DEF Tokens, Asking, Telling
  <2>2. \A i \in 1..Len(requests') : requests'[i].op = "write" => requests'[i].cmd = _cmd'
    BY <1>1, <1>2, <1>5 DEF TokenInv
  <2>3. \A i \in 1..Len(written') : written'[i] = _cmd'
    <3>1. CASE UNCHANGED written BY <1>1, <1>5, <3>1 DEF TokenInv
    <3>2. CASE r.op = "write" /\ written' = Append(written, r.cmd)
      <4>1. r.cmd = _cmd BY <1>2, <1>5, <3>2 DEF TokenInv
      <4>2. /\ Len(written) \in Nat /\ Len(written') = Len(written) + 1
            /\ \A i \in 1..Len(written) + 1 :
                 written'[i] = IF i = Len(written) + 1 THEN _cmd ELSE written[i]
        BY <3>2, <4>1, AppendFacts DEF Types
      <4>3. \A i \in 1..Len(written) : written[i] = _cmd BY <1>5 DEF TokenInv
      <4> QED BY <1>1, <4>2, <4>3
    <3> QED BY <1>3, <3>1, <3>2
  <2> QED BY <1>1, <1>5, <2>1, <2>2, <2>3 DEF TokenInv
<1> QED BY <1>4, <1>5

\* What is in play and what was received, when less is in play, and when one comes into play.
LEMMA SumLess == \A a, b, c, d \in Nat : a + b \in Nat /\ (a <= c /\ b <= d => a + b <= c + d)
OBVIOUS
LEMMA Balance ==
  \A t, u, w, n \in Nat :
    /\ t <= u /\ u + w <= n => t + w <= n
    /\ t <= u + 1 /\ u + w <= n => t + w <= n + 1 /\ n + 1 # 0
    /\ t <= u + 1 /\ u = 0 => t + 0 <= 1
OBVIOUS

\* A callback hands a token on or loses it; only a sight of the switch makes one.
LEMMA CallbackTokens ==
  ASSUME Types, Types', Callback
  PROVE  /\ UNCHANGED <<written, _cmd>>
         /\ requests' = requests \/ \E op \in Ops, i, c \in OrNone : Ask(op, i, c)
         /\ \/ Asking' + Telling' <= Asking + Telling /\ UNCHANGED stops
            \/ /\ Head(events).name = "SCAN_RESULT" /\ Ask("stop", 0, 0)
               /\ Asking' + Telling' <= Asking + Telling + 1 /\ stops' = stops + 1
<1> DEFINE e == Head(events)
<1>1. events # <<>> /\ events' = Tail(events) /\ Handles(e)
  BY DEF Callback
<1>2. e \in Events BY <1>1, TailFacts DEF Types
<1>3. Telling' = Telling - (IF e \in TokenEvents THEN 1 ELSE 0)
  BY <1>1, CountTail DEF Telling, Types
<1> HIDE DEF e
<1>4. e \in TokenEvents <=> e.name \in {"SCAN_STOP_COMPLETE", "OPEN", "SEARCH_CMPL"}
  BY <1>2 DEF TokenEvents
<1>5. Asking \in Nat /\ Telling \in Nat /\ Asking' \in Nat /\ Telling' \in Nat
  BY TokenTypes
<1>s. /\ Telling' <= Telling
      /\ e \in TokenEvents => Telling' = Telling - 1
      /\ e \notin TokenEvents => Telling' = Telling
  <2>1. CASE e \in TokenEvents
    <3>1. Telling' = Telling - 1 BY <1>3, <2>1
    <3> QED BY <1>5, <2>1, <3>1
  <2>2. CASE e \notin TokenEvents
    <3>1. Telling' = Telling BY <1>3, <1>5, <2>2
    <3> QED BY <1>5, <2>2, <3>1
  <2> QED BY <2>1, <2>2
<1>6. /\ e.if \in OrNone /\ e.conn \in OrNone /\ 0 \in OrNone
      /\ gif \in OrNone /\ _conn_id \in OrNone
  BY <1>2 DEF Events, Types, OrNone
<1>7. /\ "stop" \in Ops /\ "open" \in Ops /\ "search" \in Ops /\ "write" \in Ops /\ "params" \in Ops
      /\ "scan" \in Ops /\ "close" \in Ops /\ "unregister" \in Ops
  BY DEF Ops, Dead
<1>8. ASSUME NEW op \in Ops, NEW i \in OrNone, NEW c \in OrNone, Ask(op, i, c)
      PROVE  Asking' = Asking + (IF op \in {"stop", "open", "search", "write"} THEN 1 ELSE 0)
  BY <1>8, TokenAsked DEF Asking
<1>9. ASSUME UNCHANGED <<requests, written, _cmd, stops>>
      PROVE  /\ UNCHANGED <<written, _cmd, stops>>
             /\ requests' = requests /\ Asking' + Telling' <= Asking + Telling
  <2>1. Asking' = Asking BY <1>9 DEF Asking
  <2>2. Asking' <= Asking /\ Telling' <= Telling BY <1>5, <1>s, <2>1
  <2>3. Asking' + Telling' <= Asking + Telling BY <1>5, <2>2, SumLess
  <2> QED BY <1>9, <2>3
<1>10. ASSUME UNCHANGED <<written, _cmd, stops>>,
              NEW op \in {"params", "scan", "close", "unregister"},
              NEW i \in OrNone, NEW c \in OrNone, Ask(op, i, c)
       PROVE  /\ UNCHANGED <<written, _cmd, stops>>
              /\ \E o \in Ops, j, k \in OrNone : Ask(o, j, k)
              /\ Asking' + Telling' <= Asking + Telling
  <2>1. op \in Ops /\ op \notin {"stop", "open", "search", "write"} BY <1>7
  <2>2. Asking' = Asking BY <1>5, <1>8, <1>10, <2>1
  <2>3. Asking' <= Asking /\ Telling' <= Telling BY <1>5, <1>s, <2>2
  <2>4. Asking' + Telling' <= Asking + Telling BY <1>5, <2>3, SumLess
  <2> QED BY <1>10, <2>1, <2>4
<1>11. ASSUME UNCHANGED <<written, _cmd, stops>>,
              e.name \in {"SCAN_STOP_COMPLETE", "OPEN", "SEARCH_CMPL"},
              NEW op \in {"open", "search", "write"}, NEW i \in OrNone, NEW c \in OrNone,
              Ask(op, i, c)
       PROVE  /\ UNCHANGED <<written, _cmd, stops>>
              /\ \E o \in Ops, j, k \in OrNone : Ask(o, j, k)
              /\ Asking' + Telling' <= Asking + Telling
  <2>1. op \in Ops /\ op \in {"stop", "open", "search", "write"} BY <1>7
  <2>2. Asking' = Asking + 1 BY <1>5, <1>8, <1>11, <2>1
  <2>3. Telling' = Telling - 1 BY <1>4, <1>s, <1>11
  <2>4. Asking' + Telling' <= Asking + Telling BY <1>5, <2>2, <2>3
  <2> QED BY <1>11, <2>1, <2>4
<1>12. CASE ParamsSet
  BY <1>6, <1>10, <1>12 DEF ParamsSet, app, history
<1>13. CASE ScanStarted(e) \/ ScanEnded
  BY <1>9, <1>13 DEF ScanStarted, ScanEnded, app
<1>14. CASE e.name = "SCAN_RESULT" /\ ScanResult(e)
  <2>1. CASE e.ok
    <3>1. Ask("stop", 0, 0) /\ stops' = stops + 1 /\ UNCHANGED <<written, _cmd>>
      BY <1>14, <2>1 DEF ScanResult, app
    <3>2. Asking' = Asking + 1 BY <1>5, <1>6, <1>7, <1>8, <3>1
    <3>3. Telling' = Telling BY <1>4, <1>s, <1>14
    <3> QED BY <1>5, <1>6, <1>7, <1>14, <3>1, <3>2, <3>3 DEF e
  <2>2. CASE ~e.ok BY <1>9, <1>14, <2>2 DEF ScanResult, app, history
  <2> QED BY <2>1, <2>2
<1>15. CASE e.name = "SCAN_STOP_COMPLETE" /\ ScanStopped
  BY <1>6, <1>11, <1>15 DEF ScanStopped, app, history
<1>16. CASE Registered(e)
  BY <1>6, <1>9, <1>10, <1>16 DEF Registered, app, history
<1>17. CASE e.name = "OPEN" /\ Opened(e)
  BY <1>6, <1>11, <1>17 DEF Opened, history
<1>18. CASE e.name = "SEARCH_CMPL" /\ switcher_move
  BY <1>6, <1>11, <1>18 DEF switcher_move, app, history
<1>19. CASE Written(e)
  BY <1>6, <1>10, <1>19 DEF Written, app, history
<1>20. CASE Closed(e)
  BY <1>6, <1>10, <1>20 DEF Closed, app
<1>21. CASE UNCHANGED <<app, requests, history>>
  BY <1>9, <1>21 DEF app, history
<1> QED BY <1>1, <1>12, <1>13, <1>14, <1>15, <1>16, <1>17, <1>18, <1>19, <1>20, <1>21
           DEF Handles, OfThisInterface

\* The first sight of the switch finds no token in play.
LEMMA NoTokenBefore ==
  ASSUME Types, PhaseInv, stops = 0, events # <<>>, Head(events).name = "SCAN_RESULT"
  PROVE  requests = <<>> /\ Asking = 0 /\ Telling = 0
<1>1. Head(events) = events[1] /\ Len(events) \in Nat \ {0} BY TailFacts DEF Types
<1>2. Searching
  BY <1>1 DEF PhaseInv, Doubled, Phases, Rest, Registering, RegistrationTold, Stuck, Preparing,
              Stopped, Opening, Linked
<1>3. requests = <<>> BY <1>2 DEF Searching
<1>4. Places(requests, TokenRequests) = {} BY <1>3 DEF Places
<1>5. Places(events, TokenEvents) = {}
  BY <1>2 DEF Places, TokenEvents, Searching, ScanNames
<1> QED BY <1>3, <1>4, <1>5, FS_EmptySet DEF Asking, Telling, Count

\* A callback keeps the tokens, and whatever it asks for carries the command.
LEMMA CallbackKeepsTokens ==
  ASSUME Types, Types', PhaseInv, TokenInv, Callback PROVE TokenInv'
<1>1. /\ UNCHANGED <<written, _cmd>>
      /\ requests' = requests \/ \E op \in Ops, i, c \in OrNone : Ask(op, i, c)
      /\ \/ Asking' + Telling' <= Asking + Telling /\ UNCHANGED stops
         \/ /\ Head(events).name = "SCAN_RESULT" /\ Ask("stop", 0, 0)
            /\ Asking' + Telling' <= Asking + Telling + 1 /\ stops' = stops + 1
  BY CallbackTokens
<1>2. events # <<>> BY DEF Callback
<1>3. Asking \in Nat /\ Telling \in Nat /\ Len(written) \in Nat
      /\ Asking' \in Nat /\ Telling' \in Nat /\ stops \in Nat
  BY TokenTypes DEF Types
<1>4. CASE stops = 0 /\ UNCHANGED stops
  BY <1>1, <1>4 DEF TokenInv
<1>5. CASE stops = 0 /\ ~UNCHANGED stops
  <2>1. /\ Head(events).name = "SCAN_RESULT" /\ Ask("stop", 0, 0) /\ stops' = 1
        /\ Asking' + Telling' <= Asking + Telling + 1
    BY <1>1, <1>5
  <2>2. requests = <<>> /\ Asking = 0 /\ Telling = 0 BY <1>2, <1>5, <2>1, NoTokenBefore
  <2>3. written' = <<>> /\ Len(written') = 0 BY <1>1, <1>5 DEF TokenInv
  <2>4. Asking' + Telling' + 0 <= 1
    <3>1. Asking + Telling = 0 BY <2>2
    <3> QED BY <1>3, <2>1, <3>1, SumLess, Balance
  <2>5. Tokens' + Len(written') <= stops'
    BY <2>1, <2>3, <2>4 DEF Tokens, Asking, Telling
  <2>6. Len(requests') = 1 /\ requests'[1].op = "stop"
    BY <2>1, <2>2, OneAsked DEF Ops, OrNone
  <2> QED BY <2>1, <2>3, <2>5, <2>6 DEF TokenInv
<1>6. CASE stops # 0
  <2>1. Asking + Telling + Len(written) <= stops
    BY <1>6 DEF TokenInv, Tokens, Asking, Telling
  <2>2. Asking' + Telling' + Len(written') <= stops' /\ stops' # 0
    <3>1. Asking' + Telling' + Len(written) <= stops'
      <4>1. CASE Asking' + Telling' <= Asking + Telling /\ stops' = stops
        BY <1>3, <2>1, <4>1, SumLess, Balance
      <4>2. CASE Asking' + Telling' <= Asking + Telling + 1 /\ stops' = stops + 1
        BY <1>3, <2>1, <4>2, SumLess, Balance
      <4> QED BY <1>1, <4>1, <4>2
    <3>2. stops' # 0
      <4>1. stops + 1 # 0 BY <1>3
      <4> QED BY <1>1, <1>6, <4>1
    <3> QED BY <1>1, <3>1, <3>2
  <2>3. Tokens' + Len(written') <= stops' BY <2>2 DEF Tokens, Asking, Telling
  <2>4. \A k \in 1..Len(requests') : requests'[k].op = "write" => requests'[k].cmd = _cmd'
    <3>1. CASE requests' = requests BY <1>1, <1>6, <3>1 DEF TokenInv
    <3>2. CASE \E op \in Ops, i, c \in OrNone : Ask(op, i, c)
      <4>1. /\ Len(requests) \in Nat /\ Len(requests') = Len(requests) + 1
            /\ requests'[Len(requests')].cmd = _cmd
            /\ \A k \in 1..Len(requests) : requests'[k] = requests[k]
        BY <3>2, LastAsked
      <4> TAKE k \in 1..Len(requests')
      <4>2. k = Len(requests') \/ k \in 1..Len(requests) BY <4>1
      <4> QED BY <1>1, <1>6, <4>1, <4>2 DEF TokenInv
    <3> QED BY <1>1, <3>1, <3>2
  <2>5. \A i \in 1..Len(written') : written'[i] = _cmd' BY <1>1, <1>6 DEF TokenInv
  <2> QED BY <2>2, <2>3, <2>4, <2>5 DEF TokenInv
<1> QED BY <1>4, <1>5, <1>6

\* Every step keeps the tokens.
LEMMA TokenStep == Types /\ Types' /\ PhaseInv /\ TokenInv /\ [Next]_vars => TokenInv'
<1> SUFFICES ASSUME Types, Types', PhaseInv, TokenInv, [Next]_vars PROVE TokenInv'
  OBVIOUS
<1>1. CASE UNCHANGED <<requests, events, written, stops, _cmd>>
  BY <1>1 DEF TokenInv, Tokens
<1>2. ASSUME NEW n \in Names \ {"SCAN_STOP_COMPLETE", "OPEN", "SEARCH_CMPL"},
             NEW i \in OrNone, NEW c \in OrNone, NEW ok \in BOOLEAN, Tell(n, i, c, ok),
             UNCHANGED <<requests, written, stops, _cmd>>
      PROVE  TokenInv'
  <2>1. Telling' = Telling
    <3>1. Telling \in Nat BY TokenTypes
    <3> QED BY <1>2, <3>1, TokenTold DEF Telling
  <2>2. Tokens' = Tokens BY <1>2, <2>1 DEF Tokens, Telling
  <2> QED BY <1>2, <2>2 DEF TokenInv
<1>t. /\ 0 \in OrNone /\ connection \in OrNone /\ TRUE \in BOOLEAN
      /\ {"SCAN_RESULT", "SCAN_END", "CLOSE"}
           \subseteq Names \ {"SCAN_STOP_COMPLETE", "OPEN", "SEARCH_CMPL"}
  BY DEF OrNone, Types, Names, ScanNames
<1>3. CASE ble_task \/ UNCHANGED vars
  BY <1>1, <1>3 DEF ble_task, vars, app, history
<1>4. ASSUME NEW cmd \in Commands, ble_pairing(cmd) PROVE TokenInv'
  BY <1>4 DEF ble_pairing, TokenInv
<1>5. ASSUME NEW ofSwitch \in BOOLEAN, Advertisement(ofSwitch) PROVE TokenInv'
  BY <1>2, <1>5, <1>t DEF Advertisement, app, history
<1>6. CASE ScanEnds
  BY <1>2, <1>6, <1>t DEF ScanEnds, app, history
<1>7. CASE LinkDrops
  BY <1>2, <1>7, <1>t DEF LinkDrops, app, history
<1> QED BY <1>3, <1>4, <1>5, <1>6, <1>7, CallbackKeepsTokens, StackKeepsTokens DEF Next

\* The switch receives the command of the pairing, once at most for each stop of the scan
\* (ble.c:250), though a refused open is asked for again and a link may drop anywhere.
THEOREM WrittenOncePerStop == Spec => []CommandOncePerStop
<1>1. Init => TokenInv BY DEF Init, TokenInv
<1>2. Types /\ PhaseInv /\ TokenInv /\ [Next]_vars => TokenInv'
  BY TypesStep, TokenStep
<1>3. Types /\ TokenInv => CommandOncePerStop
  <2> SUFFICES ASSUME Types, TokenInv PROVE CommandOncePerStop
    OBVIOUS
  <2>1. CASE stops = 0
    <3>1. written = <<>> /\ Len(written) = 0 BY <2>1 DEF TokenInv
    <3> QED BY <2>1, <3>1 DEF CommandOncePerStop
  <2>2. CASE stops # 0
    <3>1. Asking \in Nat /\ Telling \in Nat /\ Len(written) \in Nat /\ stops \in Nat
      BY TokenTypes DEF Types
    <3>2. Asking + Telling + Len(written) <= stops
      BY <2>2 DEF TokenInv, Tokens, Asking, Telling
    <3>3. Len(written) <= stops BY <3>1, <3>2
    <3> QED BY <2>2, <3>3 DEF TokenInv, CommandOncePerStop
  <2> QED BY <2>1, <2>2
<1> QED BY <1>1, <1>2, <1>3, OnePlace, PTL DEF Spec
=============================================================================

--------------------------------- MODULE Ble ---------------------------------
(***************************************************************************)
(* ble.c: a pairing turns the switch on or off once.  Each callback makes  *)
(* the next request of the Bluetooth stack: register, set the scan         *)
(* parameters, scan, stop at the switch's advertisement, open, search,     *)
(* write, close, unregister.  The end is told to the caller by             *)
(* unregistered(), and only by it: the caller here pairs again when it has *)
(* been called.  The firmware compiles ble.c and does not call it.         *)
(*                                                                         *)
(* External: the stack, which takes requests in order, answers each with   *)
(* an event or ignores one it cannot serve, and the switch.                *)
(***************************************************************************)
EXTENDS Naturals, Sequences

CONSTANTS
  Commands,     \* what ble_pairing may be asked to write
  Interfaces,   \* the GATT interfaces the stack gives out
  MaxAdverts    \* bound on the advertisements of a scan

ASSUME BleAssumption == 0 \notin Interfaces /\ MaxAdverts \in Nat

VARIABLES
  init,             \* the step of ble_task; 0 when it has failed
  \* ble.c
  gif, _conn_id, _cmd,
  \* the stack
  requests, events,
  registered,       \* interfaces in use
  scanning, adverts,
  connection,       \* the interface that is connected to the switch, or 0
  \* history of the pairing
  busy,             \* whether the caller waits for unregistered()
  written,          \* commands the switch has received
  stops,            \* how often its scan was asked to stop
  lost              \* whether it has come to where nothing follows

app == <<gif, _conn_id, _cmd>>
scan == <<scanning, adverts>>
history == <<busy, written, stops, lost>>
vars == <<init, app, requests, events, registered, scan, connection, history>>

Request(op, if, conn) == [op |-> op, if |-> if, conn |-> conn, cmd |-> _cmd]
Event(name, if, conn, ok) == [name |-> name, if |-> if, conn |-> conn, ok |-> ok]
Ask(op, if, conn) == requests' = Append(requests, Request(op, if, conn))
Tell(name, if, conn, ok) == events' = Append(events, Event(name, if, conn, ok))

-----------------------------------------------------------------------------
(* The stack. *)

Registers ==
  \/ /\ \E i \in Interfaces \ registered :
          registered' = registered \cup {i} /\ Tell("REG", i, 0, TRUE)
  \/ Tell("REG", 0, 0, FALSE) /\ UNCHANGED registered
StartsScan ==
  \E ok \in BOOLEAN : scanning' = ok /\ adverts' = 0 /\ Tell("SCAN_START_COMPLETE", 0, 0, ok)
StopsScan == scanning' = FALSE /\ UNCHANGED adverts /\ Tell("SCAN_STOP_COMPLETE", 0, 0, TRUE)
\* A second open of a connection gives it again.
Opens(r) ==
  \/ r.if \in registered /\ connection \in {0, r.if} /\ connection' = r.if /\ Tell("OPEN", r.if, r.if, TRUE)
  \/ r.if \in registered /\ connection # r.if /\ Tell("OPEN", r.if, 0, FALSE) /\ UNCHANGED connection
  \/ r.if \notin registered /\ UNCHANGED <<events, connection>>
OnConnection(r) == connection # 0 /\ connection = r.conn
Unregisters(r) ==
  /\ registered' = registered \ {r.if}
  /\ connection' = IF connection = r.if THEN 0 ELSE connection
  /\ UNCHANGED events

Answer(r) ==
  \/ r.op = "register" /\ Registers /\ UNCHANGED <<scan, connection, written>>
  \/ /\ r.op = "params" /\ Tell("SCAN_PARAM_SET_COMPLETE", 0, 0, TRUE)
     /\ UNCHANGED <<registered, scan, connection, written>>
  \/ r.op = "scan" /\ StartsScan /\ UNCHANGED <<registered, connection, written>>
  \/ r.op = "stop" /\ StopsScan /\ UNCHANGED <<registered, connection, written>>
  \/ r.op = "open" /\ Opens(r) /\ UNCHANGED <<registered, scan, written>>
  \/ /\ r.op = "search" /\ OnConnection(r) /\ Tell("SEARCH_CMPL", r.if, r.conn, TRUE)
     /\ UNCHANGED <<registered, scan, connection, written>>
  \/ /\ r.op = "write" /\ OnConnection(r) /\ Tell("WRITE_CHAR", r.if, r.conn, TRUE)
     /\ written' = Append(written, r.cmd)
     /\ UNCHANGED <<registered, scan, connection>>
  \/ /\ r.op = "close" /\ OnConnection(r) /\ Tell("CLOSE", r.if, r.conn, TRUE) /\ connection' = 0
     /\ UNCHANGED <<registered, scan, written>>
  \/ /\ r.op \in {"search", "write", "close"} /\ ~OnConnection(r)
     /\ UNCHANGED <<events, registered, scan, connection, written>>
  \/ r.op = "unregister" /\ Unregisters(r) /\ UNCHANGED <<scan, written>>
Stack ==
  /\ requests # <<>> /\ requests' = Tail(requests) /\ Answer(Head(requests))
  /\ UNCHANGED <<init, app, busy, stops, lost>>

\* An advertisement, of the switch or not; the end of the scan; the end of the connection.
Advertisement(ofSwitch) ==
  /\ scanning /\ adverts < MaxAdverts /\ adverts' = adverts + 1
  /\ Tell("SCAN_RESULT", 0, 0, ofSwitch)
  /\ UNCHANGED <<init, app, requests, registered, scanning, connection, history>>
ScanEnds ==
  /\ scanning /\ scanning' = FALSE /\ Tell("SCAN_END", 0, 0, TRUE)
  /\ UNCHANGED <<init, app, requests, registered, adverts, connection, history>>
LinkDrops ==
  /\ connection # 0 /\ connection' = 0 /\ Tell("CLOSE", connection, connection, TRUE)
  /\ UNCHANGED <<init, app, requests, registered, scan, history>>

-----------------------------------------------------------------------------
(* ble_task and ble_pairing *)

\* Controller and stack, initialised and enabled, and the two callbacks.
InitCalls == 6
ble_task ==
  /\ init \in 1..InitCalls
  /\ init' \in {init + 1, 0}
  /\ UNCHANGED <<app, requests, events, registered, scan, connection, history>>

\* A scan that was stopped more than once opens as many connections.
Doubled == stops > 1

\* Bound: no pairing is followed that comes after one whose scan was stopped twice.
ble_pairing(cmd) ==
  /\ init > InitCalls /\ ~busy /\ ~Doubled
  /\ _cmd' = cmd /\ Ask("register", 0, 0)
  /\ busy' = TRUE /\ written' = <<>> /\ stops' = 0 /\ lost' = FALSE
  /\ UNCHANGED <<init, gif, _conn_id, events, registered, scan, connection>>

-----------------------------------------------------------------------------
(* _ble_gap_cb *)

ParamsSet == Ask("scan", 0, 0) /\ UNCHANGED <<app, history>>
\* A scan that could not start is logged, one that has ended is not looked at.
ScanStarted(e) == lost' = (lost \/ ~e.ok) /\ UNCHANGED <<app, requests, busy, written, stops>>
ScanEnded == lost' = (lost \/ stops = 0) /\ UNCHANGED <<app, requests, busy, written, stops>>
\* Mutant: the connection is opened at once as well (ble.c:251).
Mutant_ScanResult(e) ==
  IF e.ok
  THEN /\ requests' = requests \o <<Request("stop", 0, 0), Request("open", gif, 0)>>
       /\ stops' = stops + 1
       /\ UNCHANGED <<app, busy, written, lost>>
  ELSE UNCHANGED <<app, requests, history>>
ScanResult(e) ==
  IF e.ok
  THEN /\ Ask("stop", 0, 0)
       /\ stops' = stops + 1
       /\ UNCHANGED <<app, busy, written, lost>>
  ELSE UNCHANGED <<app, requests, history>>
ScanStopped == Ask("open", gif, 0) /\ UNCHANGED <<app, history>>

(* _gattc_app_cb_handler *)

\* Mutant: a connection that could not be opened is given up.
Mutant_Opened(e) ==
  /\ _conn_id' = e.conn
  /\ IF e.ok THEN Ask("search", e.if, e.conn) ELSE UNCHANGED requests
  /\ UNCHANGED <<gif, _cmd, history>>
Opened(e) ==
  /\ _conn_id' = e.conn
  /\ IF e.ok THEN Ask("search", e.if, e.conn) ELSE Ask("open", gif, 0)
  /\ UNCHANGED <<gif, _cmd, history>>
\* Mutant: the caller is told, and the registration forgotten.
Mutant_Closed(e) ==
  /\ busy' = FALSE
  /\ UNCHANGED <<app, requests, written, stops, lost>>
Closed(e) ==
  /\ Ask("unregister", e.if, 0)
  /\ busy' = FALSE
  /\ UNCHANGED <<app, written, stops, lost>>
switcher_move == Ask("write", gif, _conn_id) /\ UNCHANGED <<app, history>>
Written(e) == Ask("close", e.if, e.conn) /\ UNCHANGED <<app, history>>

\* esp_gattc_cb: a registration is noted; what is of another interface is not for this one.
Registered(e) ==
  \/ /\ e.ok /\ gif' = e.if /\ Ask("params", 0, 0)
     /\ UNCHANGED <<_conn_id, _cmd, history>>
  \/ ~e.ok /\ lost' = TRUE /\ UNCHANGED <<app, requests, busy, written, stops>>
OfThisInterface(e) ==
  \/ e.name = "OPEN" /\ Opened(e)
  \/ e.name = "SEARCH_CMPL" /\ switcher_move
  \/ e.name = "WRITE_CHAR" /\ Written(e)
  \/ e.name = "CLOSE" /\ Closed(e)

GattEvents == {"OPEN", "SEARCH_CMPL", "WRITE_CHAR", "CLOSE"}
Handles(e) ==
  \/ e.name = "SCAN_PARAM_SET_COMPLETE" /\ ParamsSet
  \/ e.name = "SCAN_START_COMPLETE" /\ ScanStarted(e)
  \/ e.name = "SCAN_END" /\ ScanEnded
  \/ e.name = "SCAN_RESULT" /\ ScanResult(e)
  \/ e.name = "SCAN_STOP_COMPLETE" /\ ScanStopped
  \/ e.name = "REG" /\ Registered(e)
  \/ e.name \in GattEvents /\ e.if = gif /\ OfThisInterface(e)
  \/ e.name \in GattEvents /\ e.if # gif /\ UNCHANGED <<app, requests, history>>
Callback ==
  /\ events # <<>> /\ events' = Tail(events) /\ Handles(Head(events))
  /\ UNCHANGED <<init, registered, scan, connection>>

-----------------------------------------------------------------------------
Init ==
  /\ init = 1 /\ gif = 0 /\ _conn_id = 0 /\ _cmd \in Commands
  /\ requests = <<>> /\ events = <<>> /\ registered = {}
  /\ scanning = FALSE /\ adverts = 0 /\ connection = 0
  /\ busy = FALSE /\ written = <<>> /\ stops = 0 /\ lost = FALSE

Next ==
  \/ ble_task \/ \E cmd \in Commands : ble_pairing(cmd)
  \/ Callback
  \/ Stack \/ (\E ofSwitch \in BOOLEAN : Advertisement(ofSwitch)) \/ ScanEnds \/ LinkDrops
Spec == Init /\ [][Next]_vars

\* The stack answers and calls back, a scan has its end, and opening is not refused for ever.
FairSpec ==
  /\ Spec /\ WF_vars(Callback) /\ WF_vars(Stack) /\ WF_vars(ScanEnds)
  /\ SF_vars(Stack /\ connection' # connection /\ connection' # 0)

-----------------------------------------------------------------------------
(* Properties. *)

\* The switch receives nothing but the command of the pairing, and no more often than the scan
\* was stopped (ble.c:250), whatever opens fail and connections drop on the way.
CommandOncePerStop == Len(written) <= stops /\ \A i \in 1..Len(written) : written[i] = _cmd

\* When the scan was stopped once, unregistered() means that the pairing is over: nothing of it
\* is left in the stack, or nothing that comes after the registration is given back.
NothingLeft ==
  (~busy /\ ~Doubled) =>
    /\ ~scanning /\ connection = 0 /\ events = <<>>
    /\ IF requests = <<>> THEN registered = {} ELSE requests[Len(requests)].op = "unregister"

\* A pairing ends with unregistered(), unless it could not be registered, its scan could not
\* start, or the scan has ended without the switch: nothing then follows (ble.c:182, 221, 255).
PairingEnds == busy ~> (~busy \/ lost)
=============================================================================

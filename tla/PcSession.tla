----------------------------- MODULE PcSession -----------------------------
(***************************************************************************)
(* The connection life cycle of the PC program (MainWindow of              *)
(* tx_beacon_gui_v4.py): connecting over Bluetooth (a worker) or a serial  *)
(* port (at once), the automatic connection at startup, the background     *)
(* scan and its retries, the end of a session asked for or signalled, the  *)
(* start-up reading of a session and its polling.                          *)
(*                                                                         *)
(* Worker threads post their results and the transports post               *)
(* connected_changed to the main thread, which handles them one by one in  *)
(* the order they were posted (`inbox`); timers and the user come in       *)
(* between.  A transport object is used for one connection; t may name a   *)
(* new object when nothing refers to the old one any more.                 *)
(***************************************************************************)
EXTENDS Sequences, Naturals

CONSTANTS Ble,            \* transport objects over Bluetooth
          Serial,         \* transport objects over a serial port
          None,           \* no transport
          AutoReconnect,  \* the setting "scan and reconnect"
          MaxScans,       \* bound: background scans running at a time
          MaxInbox        \* bound: events waiting for the main thread

T == Ble \cup Serial

ASSUME PcSessionAssumption ==
    /\ None \notin T /\ Ble \cap Serial = {}
    /\ AutoReconnect \in BOOLEAN /\ MaxScans \in Nat \ {0} /\ MaxInbox \in Nat

VARIABLES
    conn,       \* _connected
    transport,  \* _transport
    link,       \* the connection below each transport object
    ui,         \* what _update_connection_ui showed last
    btn,        \* the Connect button is enabled
    inbox,      \* events posted to the main thread
    work,       \* worker threads running
    scanning,   \* _bg_scan_active
    scans,      \* scan workers running
    shots,      \* single-shot timers pending
    autodisc,   \* the auto-disconnect timer is running
    dialog,     \* the countdown dialog is on the screen
    polling,    \* the refresh timer is running
    lastBle,    \* _last_src names a Bluetooth source
    crossed     \* history: an attempt began while another one, or the end of an
                \* earlier session, was still under way

main  == <<conn, transport, ui, btn, lastBle>>
timers == <<shots, autodisc, dialog, polling>>
vars  == <<main, timers, link, inbox, work, scanning, scans, crossed>>

\* "late": the attempt was given up and its coroutine goes on; "late_open": and it
\* connected.  "orphan": open, but the program forgot the client and stopped its loop.
LinkStates == {"idle", "opening", "open", "late", "late_open", "orphan", "closed"}
Forgotten  == {"idle", "closed", "orphan"}
Jobs   == [job : {"connect", "auto", "cleanup", "stop"}, t : T]
              \cup [job : {"init"}, t : {None}]
Events == [ev : {"up", "down", "ok", "fail", "auto_ok", "auto_fail"}, t : T]
              \cup [ev : {"init", "found", "none", "scan_error"}, t : {None}]

Job(j, t)   == [job |-> j, t |-> t]
Event(e, t) == [ev |-> e, t |-> t]
Posted      == {inbox[i] : i \in 1..Len(inbox)}

\* Nothing of an earlier connection is left: no worker, signal or link.
Quiet == /\ transport = None
         /\ \A t \in T : link[t] \in Forgotten
         /\ \A w \in work : w.job \in {"init", "stop"}
         /\ \A e \in Posted : e.t = None

\* t can name a new transport object.
Unused(t) == /\ t # transport /\ link[t] \in Forgotten
             /\ \A w \in work : w.t # t
             /\ \A e \in Posted : e.t # t

-----------------------------------------------------------------------------
(* What the handlers share: the two halves of _on_conn_changed, with the    *)
(* transport it finds, and the workers and timers it leaves.                *)

SessionBegins(tr) ==
    /\ conn' = TRUE /\ ui' = TRUE /\ scanning' = FALSE
    /\ autodisc' = (autodisc \/ tr \in Ble)
    /\ UNCHANGED polling

SessionEnds ==
    /\ conn' = FALSE /\ ui' = FALSE
    /\ autodisc' = FALSE /\ polling' = FALSE
    /\ UNCHANGED scanning

RetryAfterEnd  == IF AutoReconnect /\ lastBle THEN {"scan"} ELSE {}
RetryAfterFail == IF AutoReconnect THEN {"scan"} ELSE {}
StopLoop(tr)   == IF tr \in Ble THEN {Job("stop", tr)} ELSE {}
NoCleanUpMutant(tr) == {}     \* the worker finds self._transport gone
CleanUpNoneMutant(tr) == {Job("cleanup", tr)}
CleanUp(tr)    == IF tr = None THEN {} ELSE {Job("cleanup", tr)}

\* _do_connect for a BLE source: the transport is set before the worker runs.
ConnectBle(t) ==
    /\ Unused(t)
    /\ transport' = t /\ lastBle' = TRUE /\ btn' = FALSE
    /\ link' = [link EXCEPT ![t] = "opening"]
    /\ work' = work \cup {Job("connect", t)}
    /\ crossed' = (crossed \/ ~Quiet)

-----------------------------------------------------------------------------
(* The user and the timers. *)

\* _on_connect_toggle, or a device chosen in the scan dialog, which looks at
\* _connected only.
ClickBle(t) ==
    /\ ~conn /\ ConnectBle(t)
    /\ UNCHANGED <<conn, ui, timers, inbox, scanning, scans>>

ClickSerial(t) ==
    /\ ~conn /\ btn /\ Unused(t)
    /\ transport' = t /\ lastBle' = FALSE
    /\ link' = [link EXCEPT ![t] = "open"]
    /\ SessionBegins(t)
    /\ work' = work \cup {Job("init", None)}
    /\ crossed' = (crossed \/ ~Quiet)
    /\ UNCHANGED <<btn, shots, dialog, inbox, scans>>

\* _do_disconnect: the session ends at once, a worker closes the link.
DoDisconnect ==
    /\ transport' = None
    /\ work' = work \cup CleanUp(transport)
    /\ IF conn
         THEN SessionEnds
         ELSE UNCHANGED <<conn, ui, autodisc, polling, scanning>>
    /\ crossed' = (crossed \/ (~conn /\ transport # None))
    /\ UNCHANGED <<btn, lastBle, link, inbox, scans>>

EndShots == IF conn THEN RetryAfterEnd ELSE {}

ClickDisconnect ==
    /\ conn /\ btn
    /\ DoDisconnect
    /\ shots' = shots \cup EndShots
    /\ UNCHANGED dialog

\* The Restart button: the session is ended 300 ms later, whichever it is then.
ClickRestart ==
    /\ conn /\ transport # None
    /\ shots' = shots \cup {"off"}
    /\ UNCHANGED <<main, autodisc, dialog, polling, link, inbox, work, scanning,
                   scans, crossed>>

RestartShot ==
    /\ "off" \in shots
    /\ DoDisconnect
    /\ shots' = (shots \ {"off"}) \cup EndShots
    /\ UNCHANGED dialog

\* The auto-disconnect timer opens a dialog that no session owns.
AutodiscTimeout ==
    /\ autodisc
    /\ autodisc' = FALSE
    /\ dialog' = (dialog \/ conn)
    /\ UNCHANGED <<main, shots, polling, link, inbox, work, scanning, scans, crossed>>

DialogExtend ==
    /\ dialog
    /\ dialog' = FALSE /\ autodisc' = TRUE
    /\ UNCHANGED <<main, shots, polling, link, inbox, work, scanning, scans, crossed>>

DialogDisconnect ==
    /\ dialog
    /\ DoDisconnect
    /\ dialog' = FALSE
    /\ shots' = shots \cup EndShots

\* The Refresh button: polling stops until the start-up reading is done again.
ClickRefresh ==
    /\ conn /\ transport # None
    /\ polling' = FALSE
    /\ work' = work \cup {Job("init", None)}
    /\ UNCHANGED <<main, shots, autodisc, dialog, link, inbox, scanning, scans, crossed>>

\* _start_bg_scan, 2 s after a session ended or 5 s after a failure.
ScanShot ==
    /\ "scan" \in shots
    /\ shots' = shots \ {"scan"}
    /\ IF scanning \/ conn
         THEN UNCHANGED <<scanning, scans>>
         ELSE scans < MaxScans /\ scanning' = TRUE /\ scans' = scans + 1
    /\ UNCHANGED <<main, autodisc, dialog, polling, link, inbox, work, crossed>>
-----------------------------------------------------------------------------
(* The worker threads. *)

Post(events) == /\ Len(inbox) + Len(events) <= MaxInbox
                /\ inbox' = inbox \o events

WorkerEnds(w, events) ==
    /\ w \in work
    /\ work' = work \ {w}
    /\ Post(events)
    /\ UNCHANGED <<main, timers, scanning, scans, crossed>>

\* connect_to: connected, which is signalled before it is returned.
Connects(t) ==
    /\ link[t] = "opening"
    /\ link' = [link EXCEPT ![t] = "open"]
    /\ WorkerEnds(Job("connect", t), <<Event("up", t), Event("ok", t)>>)

\* _async_connect fails, possibly after the connection stood; or _do_disconnect
\* took the loop away under it.
ConnectFails(t) ==
    /\ link[t] \in {"opening", "closed"}
    /\ link' = [link EXCEPT ![t] = "closed"]
    /\ \E stood \in {s \in BOOLEAN : s => link[t] = "opening"} :
         WorkerEnds(Job("connect", t),
                    (IF stood THEN <<Event("down", t)>> ELSE <<>>)
                        \o <<Event("fail", t)>>)

\* 12 s are over: connect_to returns False and the coroutine goes on.
ConnectTimesOut(t) ==
    /\ link[t] = "opening"
    /\ link' = [link EXCEPT ![t] = "late"]
    /\ WorkerEnds(Job("connect", t), <<Event("fail", t)>>)

LateResult(t) ==
    /\ link[t] = "late"
    /\ \E r \in {"late_open", "closed"} : link' = [link EXCEPT ![t] = r]
    /\ UNCHANGED <<main, timers, inbox, work, scanning, scans, crossed>>

AutoConnects(t) ==
    /\ \/ /\ link' = [link EXCEPT ![t] = "open"]
          /\ WorkerEnds(Job("auto", t), <<Event("auto_ok", t)>>)
       \/ /\ link' = [link EXCEPT ![t] = "closed"]
          /\ WorkerEnds(Job("auto", t), <<Event("auto_fail", t)>>)

\* _cleanup: disconnect() signals what it did itself, and a Bluetooth link that
\* was open signals its end as well.
CleanUpEnds(t) ==
    /\ link' = [link EXCEPT ![t] = "closed"]
    /\ WorkerEnds(Job("cleanup", t),
                  (IF t \in Ble /\ link[t] = "open"
                     THEN <<Event("down", t)>> ELSE <<>>) \o <<Event("down", t)>>)

StopEndsMutant(t) ==         \* it disconnects, which is signalled once more
    /\ link' = [link EXCEPT ![t] = IF @ = "open" THEN "closed" ELSE @]
    /\ WorkerEnds(Job("stop", t), <<Event("down", t)>>)

\* _stop_ble: the loop is stopped and the client forgotten, without disconnecting.
StopEnds(t) ==
    /\ link' = [link EXCEPT ![t] = IF @ = "open" THEN "orphan" ELSE @]
    /\ WorkerEnds(Job("stop", t), <<>>)

\* The start-up reading asks self._transport when it runs.
InitEnds ==
    /\ WorkerEnds(Job("init", None),
                  IF transport = None THEN <<>> ELSE <<Event("init", None)>>)
    /\ UNCHANGED link

ScanEnds ==
    /\ scans > 0
    /\ scans' = scans - 1
    /\ \E e \in {"found", "none", "scan_error"} :
         Post(<<Event(e, None)>>)
    /\ UNCHANGED <<main, timers, link, work, scanning, crossed>>

\* The beacon drops the link, or goes out of range: Bluetooth says so while its
\* loop runs, a serial port does not.
Drop(t) ==
    /\ link[t] \in {"open", "late_open", "orphan"}
    /\ link' = [link EXCEPT ![t] = "closed"]
    /\ Post(IF t \in Ble /\ link[t] # "orphan" THEN <<Event("down", t)>> ELSE <<>>)
    /\ UNCHANGED <<main, timers, work, scanning, scans, crossed>>
-----------------------------------------------------------------------------
(* The main thread handles the first event of its inbox. *)

Handle(e) ==
    /\ inbox # <<>> /\ Head(inbox) = e
    /\ inbox' = Tail(inbox)

\* _on_conn_changed(True)
OnUp(t) ==
    /\ Handle(Event("up", t))
    /\ IF conn
         THEN UNCHANGED <<conn, ui, scanning, autodisc, polling, work>>
         ELSE SessionBegins(transport) /\ work' = work \cup {Job("init", None)}
    /\ UNCHANGED <<transport, btn, lastBle, shots, dialog, link, scans, crossed>>

\* _on_conn_changed(False): it compares two Booleans, whoever the signal is from.
OnDown(t) ==
    /\ Handle(Event("down", t))
    /\ IF conn
         THEN /\ SessionEnds
              /\ transport' = None
              /\ work' = work \cup StopLoop(transport)
              /\ shots' = shots \cup RetryAfterEnd
         ELSE UNCHANGED <<conn, ui, scanning, autodisc, polling, transport, work, shots>>
    /\ UNCHANGED <<btn, lastBle, dialog, link, scans, crossed>>

\* _ble_done
OnConnected(t) ==
    /\ Handle(Event("ok", t))
    /\ btn' = TRUE
    /\ UNCHANGED <<conn, transport, ui, lastBle, timers, link, work, scanning, scans,
                   crossed>>

OnConnectFailed(t) ==
    /\ Handle(Event("fail", t))
    /\ btn' = TRUE /\ transport' = None /\ ui' = FALSE
    /\ shots' = shots \cup RetryAfterFail
    /\ UNCHANGED <<conn, lastBle, autodisc, dialog, polling, link, work, scanning,
                   scans, crossed>>

\* _done of _autoconnect_start
OnAutoConnected(t) ==
    /\ Handle(Event("auto_ok", t))
    /\ btn' = TRUE /\ transport' = t
    /\ IF conn
         THEN UNCHANGED <<conn, ui, scanning, autodisc, polling, work>>
         ELSE SessionBegins(t) /\ work' = work \cup {Job("init", None)}
    /\ UNCHANGED <<lastBle, shots, dialog, link, scans, crossed>>

OnAutoFailed(t) ==
    /\ Handle(Event("auto_fail", t))
    /\ btn' = TRUE /\ ui' = FALSE
    /\ UNCHANGED <<conn, transport, lastBle, timers, link, work, scanning, scans,
                   crossed>>

OnInitDoneMutant ==          \* the timer is not started again
    /\ Handle(Event("init", None))
    /\ UNCHANGED <<main, timers, link, work, scanning, scans, crossed>>

\* _on_init_done starts the refresh timer, in a session or out of one.
OnInitDone ==
    /\ Handle(Event("init", None))
    /\ polling' = TRUE
    /\ UNCHANGED <<main, shots, autodisc, dialog, link, work, scanning, scans, crossed>>

\* _on_bg_scan_done: with a session, without a beacon, with one; _on_bg_scan_error.
OnScanIgnored ==
    /\ conn
    /\ \E e \in {"found", "none"} : Handle(Event(e, None))
    /\ scanning' = FALSE
    /\ UNCHANGED <<main, timers, link, work, scans, crossed>>

OnScanEmptyMutant ==         \* no retry
    /\ ~conn /\ Handle(Event("none", None))
    /\ scanning' = FALSE
    /\ UNCHANGED <<main, timers, link, work, scans, crossed>>

OnScanEmpty ==
    /\ ~conn /\ Handle(Event("none", None))
    /\ scanning' = FALSE
    /\ shots' = shots \cup RetryAfterFail
    /\ UNCHANGED <<main, autodisc, dialog, polling, link, work, scans, crossed>>

OnScanFound(t) ==
    /\ ~conn /\ Handle(Event("found", None))
    /\ scanning' = FALSE
    /\ ConnectBle(t)
    /\ UNCHANGED <<conn, ui, timers, scans>>

OnScanError ==
    /\ Handle(Event("scan_error", None))
    /\ scanning' = FALSE
    /\ UNCHANGED <<main, timers, link, work, scans, crossed>>
-----------------------------------------------------------------------------
\* Startup: a serial port of last time is opened by a worker; the scan at
\* startup is a setting.
Init ==
    /\ conn = FALSE /\ transport = None /\ ui = FALSE
    /\ inbox = <<>> /\ scanning = FALSE /\ scans = 0
    /\ shots \in {{}, {"scan"}}
    /\ autodisc = FALSE /\ dialog = FALSE /\ polling = FALSE
    /\ \/ /\ btn = TRUE /\ work = {} /\ lastBle \in BOOLEAN
          /\ link = [t \in T |-> "idle"]
       \/ \E s \in Serial :
            /\ btn = FALSE /\ work = {Job("auto", s)} /\ lastBle = FALSE
            /\ link = [t \in T |-> IF t = s THEN "opening" ELSE "idle"]
    /\ crossed = FALSE

User  == \/ \E t \in Ble : ClickBle(t)
         \/ \E t \in Serial : ClickSerial(t)
         \/ ClickDisconnect \/ ClickRestart \/ ClickRefresh
         \/ DialogExtend \/ DialogDisconnect
Timer == RestartShot \/ AutodiscTimeout \/ ScanShot
Workers == \/ \E t \in T : \/ Connects(t) \/ ConnectFails(t) \/ ConnectTimesOut(t)
                           \/ LateResult(t) \/ AutoConnects(t)
                           \/ CleanUpEnds(t) \/ StopEnds(t)
           \/ InitEnds \/ ScanEnds
Main  == \/ \E t \in T : \/ OnUp(t) \/ OnDown(t) \/ OnConnected(t) \/ OnConnectFailed(t)
                         \/ OnAutoConnected(t) \/ OnAutoFailed(t)
         \/ OnInitDone
         \/ OnScanIgnored \/ OnScanEmpty \/ OnScanError
         \/ \E t \in Ble : OnScanFound(t)

Next == User \/ Timer \/ Workers \/ Main \/ \E t \in T : Drop(t)

\* The event loop handles what was posted, single-shot timers fire, and every
\* worker returns (all its calls have timeouts).  Nothing is fair for the user
\* or the air.
Spec == /\ Init /\ [][Next]_vars
        /\ WF_vars(Main) /\ WF_vars(ScanShot) /\ WF_vars(RestartShot)
        /\ WF_vars(InitEnds) /\ WF_vars(ScanEnds)
        /\ \A t \in T : WF_vars(\/ Connects(t) \/ ConnectFails(t) \/ ConnectTimesOut(t)
                                \/ AutoConnects(t) \/ CleanUpEnds(t) \/ StopEnds(t))
-----------------------------------------------------------------------------
TypeOK ==
    /\ conn \in BOOLEAN /\ ui \in BOOLEAN /\ btn \in BOOLEAN
    /\ transport \in T \cup {None}
    /\ link \in [T -> LinkStates]
    /\ inbox \in Seq(Events)
    /\ work \subseteq Jobs
    /\ scanning \in BOOLEAN /\ scans \in 0..MaxScans
    /\ shots \subseteq {"scan", "off"}
    /\ autodisc \in BOOLEAN /\ dialog \in BOOLEAN /\ polling \in BOOLEAN
    /\ lastBle \in BOOLEAN /\ crossed \in BOOLEAN

\* Every open link has an owner: it is that of _transport, or a worker that will
\* close it or report it is running, or the report is waiting.
LinksOwned ==
    \A t \in T : link[t] = "open" =>
        \/ t = transport
        \/ Job("cleanup", t) \in work
        \/ Event("auto_ok", t) \in Posted

\* The screen shows what _connected says.
UiShows == ui = conn

\* The Connect button is disabled only while an attempt is under way.
ButtonFollows ==
    btn \/ \E t \in T : \/ Job("connect", t) \in work \/ Job("auto", t) \in work
                        \/ \E e \in {"ok", "fail", "auto_ok", "auto_fail"} :
                             Event(e, t) \in Posted

\* Unless a connection was begun while another attempt or the end of an earlier
\* session was under way, no link is lost, the screen is right and the button is
\* free: the bookkeeping of _do_connect, _ble_done, _do_disconnect and
\* _on_conn_changed adds up.
BooksBalance == ~crossed => LinksOwned /\ UiShows /\ ButtonFollows

\* A signal ends a session only if the link of that session is gone: the signals
\* of _cleanup and of a link that broke arrive after the session they belong to
\* has ended, unless attempts crossed.
SignalsEndOwnSession ==
    [][conn /\ ~conn' /\ transport # None /\ ~crossed /\ (\E t \in T : OnDown(t))
         => link[transport] # "open"]_vars

\* Automatic reconnection: where no scan fails (_on_bg_scan_error does not try again),
\* a program that once took up a Bluetooth source comes back to a session, or to
\* scanning, again and again, unless a serial port is taken meanwhile.
ScansWork == Event("scan_error", None) \notin Posted
KeepsLooking ==
    AutoReconnect /\ []ScansWork =>
        [](transport \in Ble => []<>(conn \/ scans > 0 \/ ~lastBle \/ crossed))

\* A session is polled: unless attempts crossed, every session that lasts gets its
\* refresh timer, also after a refresh took it away.
SessionPolls == conn /\ ~crossed ~> polling \/ ~conn \/ crossed
=============================================================================

----------------------------- MODULE BleSession -----------------------------
(***************************************************************************)
(* The BLE sessions of the beacon firmware (STM32_WPAN/App/app_ble.c): the *)
(* program on CPU1 keeps what it believes of the link in s_ble_state, CPU2 *)
(* runs the BLE stack and holds the link itself, and the two meet through  *)
(* commands, answered at once, and a queue of events, taken out whenever   *)
(* the main loop or one of its waits calls BLE_ProcessEvents.              *)
(*                                                                         *)
(* Time is three flags that rise when a delay has run out: the session's   *)
(* window, 60 s without a NUS write, the pause of the schedule.  The bit   *)
(* BLE_OP_GEKON is left out of op_mode: no code tests it.                  *)
(***************************************************************************)
EXTENDS Naturals, Sequences

CONSTANTS OpModes,     \* operating modes the host may set
          Faults,      \* the failures that may happen
          QueueMax,    \* bound: events CPU2 has sent and CPU1 not yet taken
          MaxResets    \* bound: resets

ModeBits   == {"CONT", "SCHED"}
FaultKinds == {"not_ready", "discoverable", "adv_data", "no_shutdown"}

ASSUME ModeAssumption  == OpModes \subseteq SUBSET ModeBits
ASSUME FaultAssumption == Faults \subseteq FaultKinds
ASSUME BoundAssumption == QueueMax \in Nat /\ MaxResets \in Nat

VARIABLES
  pc,           \* where CPU1 is
  cont,         \* it is in the loop of TX_MODE_CONT
  ble_state,    \* s_ble_state
  session,      \* s_session_active and s_session_is_timed
  expired,      \* the session's window is over
  quiet,        \* BLE_NUS_IDLE_TIMEOUT_MS since the last NUS write
  op_mode,      \* g_ble_op_mode
  cpu2_up,      \* s_cpu2_initialized
  c2boot,       \* CPU2 has been booted since the reset
  hci_pending,  \* s_hci_evt_pending
  prev_idle,    \* s_ble_prev_idle
  sched,        \* s_ble_sched_armed and the interval since s_ble_sched_rtc
  link,         \* CPU2: what the radio does
  events,       \* CPU2: the events it has sent
  resets

cpu1 == <<pc, cont, ble_state, session, expired, quiet, op_mode, cpu2_up, c2boot,
          hci_pending, prev_idle, sched>>
vars == <<cpu1, link, events, resets>>

Places == {"events", "stop", "stopping", "guard", "loop", "rest"}
Events == {"conn", "disc", "write"}

Idle == ble_state = "IDLE"
-----------------------------------------------------------------------------
(* Sessions.                                                               *)

StartAdvertisingMutant ==  \* the result of set_discoverable is not looked at
  /\ link' = IF link = "off" THEN "adv" ELSE link
  /\ ble_state' = "ADV"

\* _StartAdvertising: with CFG_BLE_NUM_LINK = 1 CPU2 refuses when it already
\* advertises or has a client.
StartAdvertising ==
  \/ link = "off" /\ link' = "adv" /\ ble_state' = "ADV"
  \/ link = "off" /\ "adv_data" \in Faults /\ link' = "adv" /\ ble_state' = "IDLE"
  \/ /\ link # "off" \/ "discoverable" \in Faults
     /\ ble_state' = "IDLE" /\ UNCHANGED link

\* BLE_AppInit: CPU2 answers READY only to the first boot since the reset.
AppInit ==
  \/ /\ ~c2boot
     /\ c2boot' = TRUE /\ cpu2_up' = TRUE
     /\ StartAdvertising
  \/ /\ c2boot \/ "not_ready" \in Faults
     /\ c2boot' = TRUE
     /\ UNCHANGED <<cpu2_up, link, ble_state>>

\* BLE_StartSession
StartSession(kind) ==
  /\ session' = kind
  /\ expired' = FALSE
  /\ IF cpu2_up
     THEN StartAdvertising /\ UNCHANGED <<cpu2_up, c2boot>>
     ELSE AppInit

\* What _StopSession_internal leaves; the events that are queued stay so.
SessionEnded ==
  /\ ble_state' = "IDLE"
  /\ session' = "none"
  /\ hci_pending' = FALSE

-----------------------------------------------------------------------------
(* BLE_ProcessEvents.                                                      *)

\* The client has left: mode CONT advertises again, else the session ends.
Disconnected ==
  IF "CONT" \in op_mode
  THEN StartAdvertising /\ UNCHANGED session
  ELSE ble_state' = "IDLE" /\ session' = "none" /\ UNCHANGED link

\* hci_user_evt_proc takes one event out and raises the flag again for the
\* next.  A write may carry OP_BLE_SET.
HandleEvent ==
  /\ pc \in {"events", "stopping"} /\ cpu2_up
  /\ hci_pending /\ events # <<>>
  /\ events' = Tail(events)
  /\ hci_pending' = (Tail(events) # <<>>)
  /\ CASE Head(events) = "disc" ->
            Disconnected /\ UNCHANGED <<quiet, op_mode>>
       [] Head(events) = "conn" ->
            /\ ble_state' = "CONN" /\ quiet' = FALSE
            /\ UNCHANGED <<session, op_mode, link>>
       [] Head(events) = "write" ->
            /\ quiet' = FALSE /\ op_mode' \in OpModes \union {op_mode}
            /\ UNCHANGED <<ble_state, session, link>>
  /\ UNCHANGED <<pc, cont, expired, cpu2_up, c2boot, prev_idle, sched, resets>>

WindowOver == session = "timed" /\ ble_state = "ADV" /\ expired

CheckWindowMutant ==       \* the window of a timed session is not looked at
  /\ pc = "events" /\ ~(cpu2_up /\ hci_pending)
  /\ pc' = IF WindowOver /\ session # "timed" THEN "stop" ELSE "guard"
  /\ UNCHANGED <<cont, ble_state, session, expired, quiet, op_mode, cpu2_up, c2boot,
                 hci_pending, prev_idle, sched, link, events, resets>>

\* No event is left to take: the session's window.
CheckWindow ==
  /\ pc = "events" /\ ~(cpu2_up /\ hci_pending)
  /\ pc' = IF WindowOver THEN "stop" ELSE "guard"
  /\ UNCHANGED <<cont, ble_state, session, expired, quiet, op_mode, cpu2_up, c2boot,
                 hci_pending, prev_idle, sched, link, events, resets>>

\* _StopSession_internal stops the advertising; a client may have come since
\* the events were taken.
StopBegin ==
  /\ pc = "stop"
  /\ pc' = "stopping"
  /\ link' = IF link = "adv" THEN "off" ELSE link
  /\ UNCHANGED <<cont, ble_state, session, expired, quiet, op_mode, cpu2_up, c2boot,
                 hci_pending, prev_idle, sched, events, resets>>

\* It has taken events for 200 ms and ends the session,
\* whatever they were.
StopEnd ==
  /\ pc = "stopping"
  /\ SessionEnded
  /\ pc' = "guard"
  /\ UNCHANGED <<cont, expired, quiet, op_mode, cpu2_up, c2boot, prev_idle, sched, link,
                 events, resets>>

GuardQuietMutant ==        \* the terminate is left out
  /\ pc = "guard" /\ pc' = "loop"
  /\ quiet' = FALSE
  /\ UNCHANGED <<cont, ble_state, session, expired, op_mode, cpu2_up, c2boot, hci_pending,
                 prev_idle, sched, link, events, resets>>

\* The NUS inactivity guard drops a client that stays silent.
GuardQuiet ==
  /\ pc = "guard"
  /\ pc' = "loop"
  /\ IF ble_state = "CONN" /\ quiet
     THEN /\ quiet' = FALSE
          /\ IF link = "conn"
             THEN link' = "off" /\ events' = Append(events, "disc") /\ hci_pending' = TRUE
             ELSE UNCHANGED <<link, events, hci_pending>>
     ELSE UNCHANGED <<quiet, link, events, hci_pending>>
  /\ UNCHANGED <<cont, ble_state, session, expired, op_mode, cpu2_up, c2boot, prev_idle,
                 sched, resets>>

-----------------------------------------------------------------------------
(* The main loop.                                                          *)

\* What is due for a BLE that is idle: a session seen to end starts the pause.
SchedNow == IF prev_idle THEN sched ELSE "pause"

ScheduleMutant ==          \* the end of a session restarts nothing
  /\ pc = "loop" /\ ~cont /\ pc' = "rest"
  /\ \/ /\ "SCHED" \notin op_mode \/ ~Idle \/ sched = "pause"
        /\ prev_idle' = Idle
        /\ UNCHANGED <<sched, ble_state, session, expired, cpu2_up, c2boot, link>>
     \/ /\ "SCHED" \in op_mode /\ Idle /\ prev_idle /\ sched = "first"
        /\ StartSession("timed")
        /\ sched' = "pause" /\ prev_idle' = FALSE
  /\ UNCHANGED <<cont, quiet, op_mode, hci_pending, events, resets>>

\* The schedule opens a session at the first check and then one pause after
\* the last session was seen to end.
Schedule ==
  /\ pc = "loop" /\ ~cont
  /\ pc' = "rest"
  /\ \/ /\ "SCHED" \notin op_mode \/ ~Idle
        /\ prev_idle' = Idle
        /\ UNCHANGED <<sched, ble_state, session, expired, cpu2_up, c2boot, link>>
     \/ /\ "SCHED" \in op_mode /\ Idle /\ SchedNow = "pause"
        /\ prev_idle' = TRUE /\ sched' = "pause"
        /\ UNCHANGED <<ble_state, session, expired, cpu2_up, c2boot, link>>
     \/ /\ "SCHED" \in op_mode /\ Idle /\ SchedNow # "pause"
        /\ StartSession("timed")
        /\ sched' = "pause" /\ prev_idle' = FALSE
  /\ UNCHANGED <<cont, quiet, op_mode, hci_pending, events, resets>>

\* UartCmd_Wait, the wait for BLE with WFI and the loop of TX_MODE_CONT take
\* events and do not look at the schedule.
Wait ==
  /\ pc = "loop"
  /\ pc' = "events"
  /\ UNCHANGED <<cont, ble_state, session, expired, quiet, op_mode, cpu2_up, c2boot,
                 hci_pending, prev_idle, sched, link, events, resets>>

\* The loop of TX_MODE_CONT lasts until the mode is another.
EnterCont ==
  /\ pc = "rest"
  /\ cont' = TRUE /\ pc' = "events"
  /\ UNCHANGED <<ble_state, session, expired, quiet, op_mode, cpu2_up, c2boot,
                 hci_pending, prev_idle, sched, link, events, resets>>

LeaveCont ==
  /\ pc = "loop" /\ cont
  /\ cont' = FALSE /\ pc' = "events"
  /\ UNCHANGED <<ble_state, session, expired, quiet, op_mode, cpu2_up, c2boot,
                 hci_pending, prev_idle, sched, link, events, resets>>

\* Where the UART and the button are looked at.
Polls == pc = "rest" \/ (pc = "loop" /\ cont)

\* A second press in its window opens a session, except in TX_MODE_CONT.
Gekon ==
  /\ pc = "rest" /\ Idle
  /\ StartSession("timed")
  /\ UNCHANGED <<pc, cont, quiet, op_mode, hci_pending, prev_idle, sched, events, resets>>

\* OP_BLE_SET over UART: neither starts nor stops a session.
UartBleSet ==
  /\ Polls
  /\ op_mode' \in OpModes
  /\ UNCHANGED <<pc, cont, ble_state, session, expired, quiet, cpu2_up, c2boot, hci_pending,
                 prev_idle, sched, link, events, resets>>

NoShutdownMutant ==        \* the event flag is left as it was
  /\ Polls /\ "no_shutdown" \in Faults /\ cpu2_up
  /\ ble_state' = "IDLE" /\ session' = IF Idle THEN session ELSE "none"
  /\ link' = "off" /\ events' = <<>> /\ cpu2_up' = FALSE
  /\ UNCHANGED <<pc, cont, expired, quiet, op_mode, c2boot, hci_pending, prev_idle, sched, resets>>

\* A long press whose Shutdown is not entered: BLE_ForceShutdown has been done.
NoShutdown ==
  /\ Polls /\ "no_shutdown" \in Faults /\ cpu2_up
  /\ ble_state' = "IDLE"
  /\ session' = IF Idle THEN session ELSE "none"
  /\ link' = "off" /\ events' = <<>>
  /\ cpu2_up' = FALSE /\ hci_pending' = FALSE
  /\ UNCHANGED <<pc, cont, expired, quiet, op_mode, c2boot, prev_idle, sched, resets>>

EndLoop ==
  /\ pc = "rest"
  /\ pc' = "events"
  /\ UNCHANGED <<cont, ble_state, session, expired, quiet, op_mode, cpu2_up, c2boot,
                 hci_pending, prev_idle, sched, link, events, resets>>

\* The start of the program: mode CONT opens a session that has no end.
Started(m) ==
  /\ pc' = "events" /\ cont' = FALSE /\ op_mode' = m
  /\ quiet' = FALSE /\ hci_pending' = FALSE /\ prev_idle' = TRUE /\ sched' = "first"
  /\ expired' = FALSE /\ events' = <<>>
  /\ \/ /\ "CONT" \in m
        /\ session' = "untimed" /\ c2boot' = TRUE
        /\ \/ link' = "adv" /\ ble_state' = "ADV" /\ cpu2_up' = TRUE
           \/ /\ "adv_data" \in Faults
              /\ link' = "adv" /\ ble_state' = "IDLE" /\ cpu2_up' = TRUE
           \/ /\ "discoverable" \in Faults
              /\ link' = "off" /\ ble_state' = "IDLE" /\ cpu2_up' = TRUE
           \/ /\ "not_ready" \in Faults
              /\ link' = "off" /\ ble_state' = "IDLE" /\ cpu2_up' = FALSE
     \/ /\ "CONT" \notin m
        /\ session' = "none" /\ c2boot' = FALSE
        /\ link' = "off" /\ ble_state' = "IDLE" /\ cpu2_up' = FALSE

\* A reset, or Shutdown and the press that ends it; a mode that was not saved
\* is lost.
Reset ==
  /\ resets < MaxResets
  /\ resets' = resets + 1
  /\ \E m \in OpModes : Started(m)

-----------------------------------------------------------------------------
(* Time.                                                                   *)

Clock == <<pc, cont, ble_state, session, op_mode, cpu2_up, c2boot, hci_pending, prev_idle,
           link, events, resets>>

Expire == session # "none" /\ ~expired /\ expired' = TRUE /\ UNCHANGED <<Clock, quiet, sched>>

Silence == ble_state = "CONN" /\ ~quiet /\ quiet' = TRUE /\ UNCHANGED <<Clock, expired, sched>>

PauseOver == sched = "pause" /\ sched' = "due" /\ UNCHANGED <<Clock, expired, quiet>>

-----------------------------------------------------------------------------
(* CPU2 and the client.                                                    *)

Send(e) ==
  /\ Len(events) < QueueMax
  /\ events' = Append(events, e)
  /\ hci_pending' = TRUE
  /\ UNCHANGED <<pc, cont, ble_state, session, expired, quiet, op_mode, cpu2_up, c2boot,
                 prev_idle, sched, resets>>

ClientConnects == link = "adv" /\ link' = "conn" /\ Send("conn")
ClientLeaves   == link = "conn" /\ link' = "off" /\ Send("disc")
ClientWrites   == link = "conn" /\ UNCHANGED link /\ Send("write")

-----------------------------------------------------------------------------

\* The program has started without an earlier life of CPU2.
Init ==
  /\ pc = "events" /\ cont = FALSE /\ op_mode \in OpModes
  /\ quiet = FALSE /\ hci_pending = FALSE /\ prev_idle = TRUE /\ sched = "first"
  /\ expired = FALSE /\ events = <<>> /\ resets = 0
  /\ IF "CONT" \in op_mode
     THEN /\ session = "untimed" /\ c2boot = TRUE /\ cpu2_up = TRUE
          /\ link = "adv" /\ ble_state = "ADV"
     ELSE /\ session = "none" /\ c2boot = FALSE /\ cpu2_up = FALSE
          /\ link = "off" /\ ble_state = "IDLE"

Cpu1 ==
  \/ HandleEvent \/ CheckWindow \/ StopBegin \/ StopEnd \/ GuardQuiet
  \/ Schedule \/ Wait \/ EnterCont \/ LeaveCont \/ Gekon \/ UartBleSet \/ NoShutdown \/ EndLoop

Time == Expire \/ Silence \/ PauseOver

Client == ClientConnects \/ ClientLeaves \/ ClientWrites

Next == Cpu1 \/ Time \/ Client \/ Reset

Spec == Init /\ [][Next]_vars

\* CPU1 goes on, in the loop of TX_MODE_CONT too, which nothing need end; time
\* passes, the other waits come to an end and advertising does not fail for ever.
FairSpec ==
  /\ Spec
  /\ WF_vars(HandleEvent) /\ WF_vars(CheckWindow) /\ WF_vars(StopBegin) /\ WF_vars(StopEnd)
  /\ WF_vars(GuardQuiet) /\ WF_vars(cont /\ Wait) /\ WF_vars(EndLoop \/ EnterCont)
  /\ SF_vars(Schedule) /\ SF_vars(Schedule /\ ble_state' = "ADV")
  /\ WF_vars(Expire) /\ WF_vars(Silence) /\ WF_vars(PauseOver)

-----------------------------------------------------------------------------
(* Properties.                                                             *)

Queued(e) == \E i \in 1 .. Len(events) : events[i] = e

\* Every variable has a value of its type, and the flag that calls for the
\* queue to be read is up only when there is something in it and a stack to ask.
TypeOK ==
  /\ pc \in Places /\ cont \in BOOLEAN /\ ble_state \in {"IDLE", "ADV", "CONN"}
  /\ session \in {"none", "timed", "untimed"}
  /\ expired \in BOOLEAN /\ quiet \in BOOLEAN /\ op_mode \in SUBSET ModeBits
  /\ cpu2_up \in BOOLEAN /\ c2boot \in BOOLEAN /\ hci_pending \in BOOLEAN
  /\ prev_idle \in BOOLEAN /\ sched \in {"first", "pause", "due"}
  /\ link \in {"off", "adv", "conn"} /\ events \in Seq(Events)
  /\ resets \in Nat
  /\ hci_pending => cpu2_up /\ events # <<>>

\* What the program believes of the link is so, or the event that says
\* otherwise is queued: a client it counts as connected is, or has left; an
\* advertising it counts as running is, or was ended by a client.
BelievesRight ==
  /\ ble_state = "CONN" => link = "conn" \/ Queued("disc")
  /\ ble_state = "ADV" /\ pc # "stopping" => link = "adv" \/ Queued("conn") \/ Queued("disc")

\* A session opened for a limited time does not advertise for ever: schedule
\* and double press cannot drain the battery.
WindowEnds == session = "timed" /\ ble_state = "ADV" ~> ~(session = "timed" /\ ble_state = "ADV")

\* A client that stays silent, and has no write on its way, is dropped: the
\* beacon does not hang with a host that crashed.
QuietClientDropped == quiet /\ ble_state = "CONN" ~> ble_state # "CONN" \/ Queued("write")

\* In mode SCHEDULE the beacon can be reached again and again.  Three things
\* end that in the code and are premises here: another mode, TX_MODE_CONT for
\* good (its loop never looks at the schedule), and a CPU2 that was booted and is
\* not up, which BLE_AppInit cannot boot a second time.
ScheduleReopens ==
  (/\ <>[]("SCHED" \in op_mode /\ (cpu2_up \/ ~c2boot))
   /\ []<>~cont)
  => []<>(link # "off")
=============================================================================

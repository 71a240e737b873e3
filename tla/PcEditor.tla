------------------------------ MODULE PcEditor ------------------------------
(***************************************************************************)
(* Editing the beacon's configuration in the PC program: the form of the   *)
(* Logging tab with the Apply and Revert buttons of the footer, the write  *)
(* to RAM 700 ms after an edit, "Apply to beacon" (write, read back, save  *)
(* to flash, set the accelerometer, read again) and the start-up reading.  *)
(* Each request runs in a worker thread of its own; what a worker read is  *)
(* loaded by the main thread later.  A configuration is one sensor's bit   *)
(* of log_mask and its interval.  The accelerometer's bit and interval are *)
(* no part of what the form writes as a configuration: that write clears   *)
(* the bit (log_mask is replaced as a whole), and only Apply sets it       *)
(* again, by commands after its save.                                      *)
(***************************************************************************)
EXTENDS Naturals

CONSTANTS MaxInterval,   \* bound: intervals in seconds
          FirstIv,       \* the accelerometer's interval when the program starts
          Workers        \* bound: worker threads at a time

ASSUME IntervalAssumption == MaxInterval \in Nat \ {0} /\ FirstIv \in 0..MaxInterval

Config  == [mask : {0, 1}, iv : 0..MaxInterval]
Form    == [tog : BOOLEAN, spin : 1..MaxInterval]     \* a row of the form
Accel   == [on : BOOLEAN, iv : 0..MaxInterval]        \* the accelerometer in the beacon
Unknown == [mask |-> 0, iv |-> MaxInterval + 1]     \* a cache of None, no bytes read

VARIABLES
    connected, cache, form, apply_on, revert_on, timer,   \* main thread
    accel_form,        \* its accelerometer's row
    jobs,              \* worker threads
    ble,               \* the session is over Bluetooth
    ram, accel,        \* the beacon: the configuration and the accelerometer
    stored,            \* flash holds both as they are
    pending,           \* a save waits for the client to leave
    excused            \* history: writes overlapped with other requests or failed, an
                       \* old cache was shown, a session ended under a request

gui    == <<connected, cache, form, apply_on, revert_on, timer, accel_form>>
beacon == <<ram, accel, stored, pending>>
vars   == <<gui, jobs, ble, beacon, excused>>

NewJob(kind, at, blob, row) == [kind |-> kind, at |-> at, blob |-> blob, row |-> row,
                                raced |-> FALSE, loose |-> FALSE]
NoRow == [tog |-> FALSE, spin |-> 0]     \* an empty list of sensors
Idle  == NewJob("none", "idle", Unknown, NoRow)
Job   == [kind : {"auto", "apply", "reload", "init"},
          at : {"write", "verify", "save", "enable", "interval", "read", "list", "done",
                "failed"},
          blob : Config \cup {Unknown}, row : Form \cup {NoRow},
          raced : BOOLEAN,     \* history: another's write came after this Apply's
          loose : BOOLEAN]     \* history: so it did, or an accelerometer command of
                               \* this Apply failed, or another Apply gave one
Writes(j) == jobs[j].kind \in {"auto", "apply"} /\ jobs[j].at = "write"
Active    == {j \in Workers : jobs[j] # Idle}

\* LoggingTab.load_config and get_config.
Load(c) == [tog  |-> c.mask = 1 \/ c.iv > 0,
            spin |-> IF c.iv > 1 THEN c.iv ELSE 1]
Get(f)  == [mask |-> IF f.tog THEN 1 ELSE 0, iv |-> IF f.tog THEN f.spin ELSE 0]

\* load_accel.
LoadAccel(a) == [tog |-> a.on, spin |-> IF a.iv > 1 THEN a.iv ELSE 1]

\* A worker is started.  A write that meets any other request, or a request that
\* meets a write, may be carried out in another order than it was asked for.
Start(j, kind, at, blob, row) ==
    /\ jobs[j] = Idle
    /\ jobs' = [jobs EXCEPT ![j] = NewJob(kind, at, blob, row)]
Meets(kind) == IF kind \in {"auto", "apply"} THEN Active # {}
               ELSE \E k \in Active : jobs[k].kind \in {"auto", "apply"}
-----------------------------------------------------------------------------
(* The user. *)

EditMutant(f, a) ==          \* the timer is started by the first edit only
    /\ f # form \/ a # accel_form
    /\ form' = f /\ accel_form' = a
    /\ apply_on' = TRUE /\ revert_on' = TRUE
    /\ timer' = (timer \/ (connected /\ ~apply_on))
    /\ UNCHANGED <<connected, cache, jobs, ble, beacon, excused>>

\* LoggingTab._on_change, or BeaconTab._on_profile_apply; _on_config_dirty.
Edit(f, a) ==
    /\ f # form \/ a # accel_form
    /\ form' = f /\ accel_form' = a
    /\ apply_on' = TRUE /\ revert_on' = TRUE
    /\ timer' = (timer \/ connected)
    /\ UNCHANGED <<connected, cache, jobs, ble, beacon, excused>>

\* _on_revert: what was written to RAM meanwhile stays there, and so does the
\* accelerometer's row.
Revert ==
    /\ revert_on
    /\ form' = IF cache = Unknown THEN form ELSE Load(cache)
    /\ timer' = FALSE
    /\ apply_on' = FALSE /\ revert_on' = FALSE
    /\ excused' = (excused \/ cache # ram \/ Active # {})
    /\ UNCHANGED <<connected, cache, accel_form, jobs, ble, beacon>>

\* _on_tab_changed: Apply is disabled also while an Apply is under way.
TabChanged ==
    /\ cache # Unknown /\ ~apply_on
    /\ form' = Load(cache)
    /\ \E emits \in {e \in BOOLEAN : e => form' # form} :
         /\ apply_on' = emits
         /\ revert_on' = (revert_on \/ emits)
    /\ excused' = (excused \/ cache # ram \/ Active # {})
    /\ UNCHANGED <<connected, cache, timer, accel_form, jobs, ble, beacon>>

\* _on_apply; without a session it only says that the profile is loaded.
Apply ==
    /\ apply_on /\ connected
    /\ apply_on' = FALSE
    /\ \E j \in Workers : Start(j, "apply", "write", Get(form), accel_form)
    /\ excused' = (excused \/ Meets("apply"))
    /\ UNCHANGED <<connected, cache, form, revert_on, timer, accel_form, ble, beacon>>

\* _do_ram_write, 700 ms after the last edit.
AutoApply ==
    /\ timer
    /\ timer' = FALSE
    /\ \E j \in Workers : Start(j, "auto", "write", Get(form), NoRow)
    /\ excused' = (excused \/ Meets("auto"))
    /\ UNCHANGED <<connected, cache, form, apply_on, revert_on, accel_form, ble, beacon>>

Connect ==
    /\ ~connected
    /\ connected' = TRUE /\ ble' \in BOOLEAN
    /\ \E j \in Workers : Start(j, "init", "read", Unknown, NoRow)
    /\ excused' = (excused \/ Meets("init"))
    /\ UNCHANGED <<cache, form, apply_on, revert_on, timer, accel_form, beacon>>

\* _on_conn_changed(False), _update_connection_ui(False).
Disconnect ==
    /\ connected
    /\ connected' = FALSE /\ cache' = Unknown /\ ble' = FALSE
    /\ apply_on' = FALSE /\ revert_on' = FALSE /\ timer' = FALSE
    /\ excused' = (excused \/ Active # {})
    /\ UNCHANGED <<form, accel_form, jobs, beacon>>
-----------------------------------------------------------------------------
(* The workers: one request of a worker at the beacon. *)

Goto(j, at) == jobs' = [jobs EXCEPT ![j].at = at]
Failed      == NewJob("apply", "failed", Unknown, NoRow)

\* An auto-apply has nothing to do after its write: a failure is logged.  An Apply that
\* has made its write has been overtaken.
WriteDone(j, next) ==
    jobs' = [k \in Workers |->
               IF k = j THEN (IF jobs[j].kind = "auto" THEN Idle ELSE next)
               ELSE IF jobs[k].kind = "apply" /\ jobs[k].at \notin {"write", "failed"}
                      THEN [jobs[k] EXCEPT !.raced = TRUE, !.loose = TRUE]
               ELSE jobs[k]]

\* CFG!: log_mask is replaced, and the form's has no bit for the accelerometer.
Stores(blob) ==
    /\ ram' = blob
    /\ accel' = [accel EXCEPT !.on = FALSE]
    /\ stored' = (stored /\ UNCHANGED <<ram, accel>>)

Write(j) ==
    /\ Writes(j) /\ connected
    /\ Stores(jobs[j].blob)
    /\ WriteDone(j, [jobs[j] EXCEPT !.at = "verify"])
    /\ UNCHANGED <<gui, ble, pending, excused>>

WriteFailsMutant(j) ==       \* the result of the write is not looked at
    /\ Writes(j)
    /\ (connected /\ Stores(jobs[j].blob)) \/ UNCHANGED <<ram, accel, stored>>
    /\ WriteDone(j, [jobs[j] EXCEPT !.at = "verify"])
    /\ excused' = TRUE
    /\ UNCHANGED <<gui, ble, pending>>

\* Refused, or the answer did not come within 8 s; or the transport is gone.
WriteFails(j) ==
    /\ Writes(j)
    /\ (connected /\ Stores(jobs[j].blob)) \/ UNCHANGED <<ram, accel, stored>>
    /\ WriteDone(j, Failed)
    /\ excused' = TRUE
    /\ UNCHANGED <<gui, ble, pending>>

\* What does not have 64 bytes is not compared.
Verify(j) ==
    /\ jobs[j].at = "verify"
    /\ \/ Goto(j, "save")                \* nothing, or not 64 bytes, came back
       \/ /\ connected
          /\ IF ram = jobs[j].blob /\ ~accel.on
               THEN Goto(j, "save")
               ELSE jobs' = [jobs EXCEPT ![j] = Failed]
    /\ UNCHANGED <<gui, ble, beacon, excused>>

\* RAM is saved with the change made, at once or in the main loop's next round; with a
\* client on Bluetooth when it has left.
Keeps ==
    IF ble THEN pending' = TRUE /\ stored' = (stored /\ UNCHANGED accel)
           ELSE stored' = TRUE /\ UNCHANGED pending

\* SAVE!: with a client on Bluetooth the beacon says OK and saves later.
Save(j) ==
    /\ jobs[j].at = "save" /\ connected
    /\ UNCHANGED <<ram, accel>> /\ Keeps
    /\ Goto(j, "enable")
    /\ UNCHANGED <<gui, ble, excused>>

SaveFails(j) ==
    /\ jobs[j].at = "save"
    /\ jobs' = [jobs EXCEPT ![j] = Failed]
    /\ UNCHANGED <<gui, ble, beacon, excused>>

\* The end of an accelerometer command, its result unread, or raised by the transport.
AccelDone(j, at, ok) ==
    \E next \in {[jobs[j] EXCEPT !.at = at, !.loose = @ \/ ~ok]}
                \cup (IF ok THEN {} ELSE {Failed}) :
        jobs' = [k \in Workers |->
                   IF k = j THEN next
                   ELSE IF jobs[k].kind = "apply" /\ jobs[k].at # "failed"
                     THEN [jobs[k] EXCEPT !.loose = TRUE]
                   ELSE jobs[k]]

\* OP_SENSOR_ENABLE for the accelerometer; when it fails it may have been obeyed.
Enable(j) ==
    /\ jobs[j].at = "enable"
    /\ \E ok \in BOOLEAN :
         /\ \/ /\ connected
               /\ accel' = [accel EXCEPT !.on = jobs[j].row.tog]
               /\ UNCHANGED ram /\ Keeps
            \/ ~ok /\ UNCHANGED beacon
         /\ AccelDone(j, IF jobs[j].row.tog THEN "interval" ELSE "done", ok)
    /\ UNCHANGED <<gui, ble, excused>>

\* OP_SENSOR_INTERVAL for the accelerometer.
Interval(j) ==
    /\ jobs[j].at = "interval"
    /\ \E ok \in BOOLEAN :
         /\ \/ /\ connected
               /\ accel' = [accel EXCEPT !.iv = jobs[j].row.spin]
               /\ UNCHANGED ram /\ Keeps
            \/ ~ok /\ UNCHANGED beacon
         /\ AccelDone(j, "done", ok)
    /\ UNCHANGED <<gui, ble, excused>>

\* read_config of the start-up reading and after an Apply; the former goes on.
Read(j) ==
    /\ jobs[j].at = "read"
    /\ \E read \in {Unknown} \cup (IF connected THEN {ram} ELSE {}) :
         jobs' = [jobs EXCEPT ![j].at = IF jobs[j].kind = "init" THEN "list" ELSE "done",
                              ![j].blob = read]
    /\ UNCHANGED <<gui, ble, beacon, excused>>

\* cmd_sensor_list of the start-up reading.
List(j) ==
    /\ jobs[j].at = "list"
    /\ \E row \in {NoRow} \cup (IF connected THEN {LoadAccel(accel)} ELSE {}) :
         jobs' = [jobs EXCEPT ![j].at = "done", ![j].row = row]
    /\ UNCHANGED <<gui, ble, beacon, excused>>
-----------------------------------------------------------------------------
(* The main thread handles what a worker returned. *)

\* _on_apply_done: the configuration is read again.
ApplyDone(j) ==
    /\ jobs[j].kind = "apply" /\ jobs[j].at = "done"
    /\ apply_on' = TRUE
    /\ jobs' = [jobs EXCEPT ![j] = NewJob("reload", "read", Unknown, NoRow)]
    /\ excused' = (excused \/ \E k \in Active \ {j} : jobs[k].kind \in {"auto", "apply"})
    /\ UNCHANGED <<connected, cache, form, revert_on, timer, accel_form, ble, beacon>>

\* _on_apply_done with a failure, _on_apply_error.
ApplyFailed(j) ==
    /\ jobs[j].at = "failed"
    /\ apply_on' = TRUE
    /\ jobs' = [jobs EXCEPT ![j] = Idle]
    /\ UNCHANGED <<connected, cache, form, revert_on, timer, accel_form, ble, beacon, excused>>

\* _on_cfg_reloaded and _on_init_done: load_config of the Beacon tab emits
\* config_changed, so that the start-up reading leaves the footer enabled.
Loaded(j) ==
    /\ jobs[j].kind \in {"reload", "init"} /\ jobs[j].at = "done"
    /\ jobs' = [jobs EXCEPT ![j] = Idle]
    /\ IF jobs[j].blob = Unknown
         THEN UNCHANGED <<cache, form, apply_on, revert_on>>
         ELSE /\ cache' = jobs[j].blob
              /\ form' = Load(jobs[j].blob)
              /\ apply_on' = (jobs[j].kind = "init")
              /\ revert_on' = (jobs[j].kind = "init")
    /\ accel_form' = IF jobs[j].row = NoRow THEN accel_form ELSE jobs[j].row
    /\ UNCHANGED <<connected, timer, ble, beacon, excused>>

\* The beacon, when no client is connected.
DeferredSave ==
    /\ pending /\ ~(connected /\ ble)
    /\ stored' = TRUE /\ pending' = FALSE
    /\ UNCHANGED <<gui, jobs, ble, ram, accel, excused>>
-----------------------------------------------------------------------------
Init ==
    /\ connected = FALSE /\ cache = Unknown
    /\ form = [tog |-> TRUE, spin |-> 1]
    /\ apply_on = FALSE /\ revert_on = FALSE /\ timer = FALSE
    /\ jobs = [j \in Workers |-> Idle]
    /\ accel_form = [tog |-> FALSE, spin |-> 1]
    /\ ram \in Config /\ accel \in [on : BOOLEAN, iv : {FirstIv}]
    /\ stored = TRUE /\ pending = FALSE /\ ble = FALSE
    /\ excused = FALSE

Next ==
    \/ \E f, a \in Form : Edit(f, a)
    \/ Revert \/ TabChanged \/ Apply \/ AutoApply \/ Connect \/ Disconnect
    \/ DeferredSave
    \/ \E j \in Workers : \/ Write(j) \/ WriteFails(j) \/ Verify(j)
                          \/ Save(j) \/ SaveFails(j) \/ Enable(j) \/ Interval(j)
                          \/ Read(j) \/ List(j)
                          \/ ApplyDone(j) \/ ApplyFailed(j) \/ Loaded(j)

Spec == Init /\ [][Next]_vars
-----------------------------------------------------------------------------
\* Every variable has a value of its type.
TypeOK ==
    /\ connected \in BOOLEAN /\ apply_on \in BOOLEAN /\ revert_on \in BOOLEAN
    /\ timer \in BOOLEAN /\ ble \in BOOLEAN /\ pending \in BOOLEAN
    /\ excused \in BOOLEAN /\ stored \in BOOLEAN
    /\ cache \in Config \cup {Unknown} /\ form \in Form /\ accel_form \in Form
    /\ jobs \in [Workers -> Job \cup {Idle}]
    /\ ram \in Config /\ accel \in Accel

\* With nothing under way the form shows what the beacon runs, the accelerometer's row
\* left aside: the write after an edit, Apply and the readings leave no difference,
\* unless requests met or failed, or Revert or a change of tab brought back an older
\* reading.  A sensor's bit without an interval, or an interval without the bit, which
\* the program never writes but may find, the form shows as a sensor that is on.
Settled   == connected /\ cache # Unknown /\ ~timer /\ Active = {}
FormShows(c) ==
    IF c.mask = 1 <=> c.iv > 0 THEN Get(form) = c ELSE form = Load(c)
SettledShowsBeacon == Settled /\ ~excused => FormShows(ram)

\* "Settings applied and saved to flash" is true of the configuration, unless another
\* write was made between the write of this Apply and its end: the beacon runs it, and
\* has saved it or will when the client leaves.  It is true of the accelerometer, unless
\* moreover one of the commands for it failed, which the program does not notice, or
\* another Apply gave one after this had started.
Obeys(row) == accel.on = row.tog /\ (row.tog => accel.iv = row.spin)
AppliedIsSaved ==
    \A j \in Workers :
        jobs[j].kind = "apply" /\ jobs[j].at = "done" /\ ~jobs[j].raced
            => /\ ram = jobs[j].blob
               /\ stored \/ pending
               /\ ~jobs[j].loose => Obeys(jobs[j].row)

\* "After verified apply -> automatically SAVE!": what the only Apply under way saves,
\* and then reports as applied and saved, is what it has written, provided the form
\* still shows that.
ReportedIsSaved ==
    [][\A j \in Workers :
         Save(j) /\ jobs[j].blob = Get(form) /\ (\A k \in Workers \ {j} : jobs[k].kind # "apply")
             => ram = jobs[j].blob]_vars
=============================================================================

--------------------------- MODULE PcEditorProofs ---------------------------
(***************************************************************************)
(* Proofs about PcEditor, for any set of workers and any bound of the      *)
(* intervals: types, that an Apply which reports "applied and saved" tells *)
(* the truth unless another write came in between, and that a form with    *)
(* nothing under way shows what the beacon runs.                           *)
(***************************************************************************)
EXTENDS PcEditor, TLAPS

Kinds  == {"auto", "apply", "reload", "init"}
Places == {"write", "verify", "save", "enable", "interval", "read", "list", "done", "failed"}

\* What a worker writes is a configuration, and only the readings read.
Fine(job) ==
    /\ job.at = "write" => job.blob \in Config
    /\ job.at \in {"read", "list"} => job.kind \in {"reload", "init"}
JobsOK == \A j \in Workers : Fine(jobs[j])

\* From its write to its end RAM holds what an Apply has written, from its save it is
\* saved or will be, and the accelerometer has been told so far.
Right(job) ==
    job.kind = "apply" /\ ~job.raced =>
        /\ job.at \in {"verify", "save", "enable", "interval", "done"} => ram = job.blob
        /\ job.at \in {"enable", "interval", "done"} => stored \/ pending
        /\ job.at = "interval" /\ ~job.loose => accel.on = TRUE /\ job.row.tog
        /\ job.at = "done" /\ ~job.loose => Obeys(job.row)
HoldsApplied == \A j \in Workers : Right(jobs[j])

TInv == TypeOK /\ JobsOK
Inv  == TInv /\ HoldsApplied
-----------------------------------------------------------------------------
\* The records of a worker.
LEMMA JobFields ==
  ASSUME TypeOK, NEW j \in Workers
  PROVE  /\ jobs[j] \in Job \/ jobs[j] = Idle
         /\ jobs[j].blob \in Config \cup {Unknown}
         /\ jobs[j].row \in Form \cup {NoRow}
         /\ jobs[j].raced \in BOOLEAN
         /\ jobs[j].at # "idle" => jobs[j] \in Job
         /\ jobs[j].kind # "none" => jobs[j] \in Job
<1>1. jobs[j] \in Job \cup {Idle}
  BY DEF TypeOK
<1>2. CASE jobs[j] = Idle
  BY <1>2 DEF Idle, NewJob
<1>3. CASE jobs[j] \in Job
  BY <1>3 DEF Job
<1> QED  BY <1>1, <1>2, <1>3

\* The record of a worker that starts, and of an Apply that has failed.
LEMMA NewJobTyped ==
  ASSUME NEW kind \in Kinds, NEW at \in Places, NEW blob \in Config \cup {Unknown},
         NEW row \in Form \cup {NoRow}
  PROVE  /\ NewJob(kind, at, blob, row) \in Job
         /\ NewJob(kind, at, blob, row).kind = kind /\ NewJob(kind, at, blob, row).at = at
         /\ NewJob(kind, at, blob, row).blob = blob /\ NewJob(kind, at, blob, row).row = row
BY DEF NewJob, Kinds, Places, Job

\* A row's switch is on or off.
LEMMA RowSwitch == \A row \in Form \cup {NoRow} : row.tog \in BOOLEAN
<1>1. \A row \in Form : row.tog \in BOOLEAN
  BY DEF Form
<1>2. NoRow.tog = FALSE
  BY DEF NoRow
<1> QED  BY <1>1, <1>2

LEMMA FailedTyped == Failed \in Job /\ Failed.kind = "apply" /\ Failed.at = "failed" /\ Fine(Failed)
BY NewJobTyped DEF Failed, Kinds, Places, Fine

LEMMA IdleFields == Idle.kind = "none" /\ Idle.at = "idle" /\ Fine(Idle)
BY DEF Idle, NewJob, Fine

\* The form and the configuration are converted into each other.
LEMMA Conversions ==
  /\ \A f \in Form : Get(f) \in Config
  /\ \A c \in Config : Load(c) \in Form
  /\ \A a \in Accel : LoadAccel(a) \in Form
BY IntervalAssumption DEF Get, Load, LoadAccel, Form, Config, Accel

LEMMA UnknownApart == Unknown \notin Config
BY IntervalAssumption DEF Unknown, Config
-----------------------------------------------------------------------------
(* The type invariant. *)

LEMMA TInvInit == Init => TInv
<1> SUFFICES ASSUME Init PROVE TInv
  OBVIOUS
<1>1. TypeOK
  <2>1. form \in Form /\ accel_form \in Form
    BY IntervalAssumption DEF Init, Form
  <2>2. jobs \in [Workers -> Job \cup {Idle}]
    BY DEF Init
  <2>3. cache \in Config \cup {Unknown} /\ ram \in Config
    BY DEF Init
  <2>4. /\ connected \in BOOLEAN /\ apply_on \in BOOLEAN /\ revert_on \in BOOLEAN
        /\ timer \in BOOLEAN /\ ble \in BOOLEAN /\ pending \in BOOLEAN
        /\ excused \in BOOLEAN /\ stored \in BOOLEAN
    BY DEF Init
  <2>5. accel \in Accel
    BY IntervalAssumption DEF Init, Accel
  <2> QED  BY <2>1, <2>2, <2>3, <2>4, <2>5 DEF TypeOK
<1>2. JobsOK
  BY IdleFields DEF Init, JobsOK
<1> QED  BY <1>1, <1>2 DEF TInv

\* One worker's record is replaced.
LEMMA ReplaceTyped ==
  ASSUME TInv, NEW j \in Workers, NEW job \in Job \cup {Idle},
         jobs' = [jobs EXCEPT ![j] = job], Fine(job)
  PROVE  jobs' \in [Workers -> Job \cup {Idle}] /\ JobsOK'
<1>1. jobs \in [Workers -> Job \cup {Idle}]
  BY DEF TInv, TypeOK
<1>2. ASSUME NEW k \in Workers PROVE Fine(jobs'[k])
  BY <1>1 DEF TInv, JobsOK
<1> QED  BY <1>1, <1>2 DEF JobsOK, Fine

\* A worker starts.
LEMMA StartTyped ==
  ASSUME TInv, NEW j \in Workers, NEW kind \in Kinds, NEW at \in {"write", "read"},
         NEW blob \in Config \cup {Unknown}, NEW row \in Form \cup {NoRow},
         Start(j, kind, at, blob, row),
         at = "write" => blob \in Config, at = "read" => kind \in {"reload", "init"}
  PROVE  jobs' \in [Workers -> Job \cup {Idle}] /\ JobsOK'
<1>1. NewJob(kind, at, blob, row) \in Job /\ Fine(NewJob(kind, at, blob, row))
  BY NewJobTyped DEF Places, Fine
<1> QED  BY <1>1, ReplaceTyped DEF Start

\* A worker goes on.
LEMMA GotoTyped ==
  ASSUME TInv, NEW j \in Workers, NEW at \in Places \ {"write", "read", "list"},
         jobs[j] \in Job, Goto(j, at)
  PROVE  jobs' \in [Workers -> Job \cup {Idle}] /\ JobsOK'
<1> DEFINE job == [jobs[j] EXCEPT !.at = at]
<1>1. job \in Job /\ job.at = at
  BY DEF Job, Places
<1>2. jobs' = [jobs EXCEPT ![j] = job]
  BY DEF Goto, TInv, TypeOK
<1>3. Fine(job)
  BY <1>1 DEF Fine, Places
<1> HIDE DEF job
<1> QED  BY <1>1, <1>2, <1>3, ReplaceTyped

\* A worker's record is replaced and the others' are marked.
LEMMA MarkTyped ==
  ASSUME TInv, NEW j \in Workers, jobs' = [k \in Workers |-> jobs'[k]],
         jobs'[j] \in Job \cup {Idle}, Fine(jobs'[j]),
         \A k \in Workers \ {j} :
             \/ jobs'[k] = jobs[k]
             \/ jobs[k].kind = "apply" /\ jobs'[k] = [jobs[k] EXCEPT !.loose = TRUE]
             \/ jobs[k].kind = "apply" /\ jobs'[k] = [jobs[k] EXCEPT !.raced = TRUE, !.loose = TRUE]
  PROVE  jobs' \in [Workers -> Job \cup {Idle}] /\ JobsOK'
<1>1. ASSUME NEW k \in Workers, k # j
      PROVE  jobs'[k] \in Job \cup {Idle} /\ Fine(jobs'[k])
  <2>1. Fine(jobs[k])
    BY DEF TInv, JobsOK
  <2>2. CASE jobs'[k] = jobs[k]
    BY <2>1, <2>2 DEF TInv, TypeOK
  <2>3. CASE jobs[k].kind = "apply"
    <3>1. jobs[k] \in Job
      BY <2>3, JobFields DEF TInv
    <3>2. CASE jobs'[k] = [jobs[k] EXCEPT !.loose = TRUE]
      <4>1. jobs'[k] \in Job
        BY <3>1, <3>2 DEF Job
      <4>2. /\ jobs'[k].at = jobs[k].at /\ jobs'[k].blob = jobs[k].blob
            /\ jobs'[k].kind = jobs[k].kind
        BY <3>1, <3>2 DEF Job
      <4> QED  BY <2>1, <4>1, <4>2 DEF Fine
    <3>3. CASE jobs'[k] = [jobs[k] EXCEPT !.raced = TRUE, !.loose = TRUE]
      <4>1. jobs'[k] \in Job
        BY <3>1, <3>3 DEF Job
      <4>2. /\ jobs'[k].at = jobs[k].at /\ jobs'[k].blob = jobs[k].blob
            /\ jobs'[k].kind = jobs[k].kind
        BY <3>1, <3>3 DEF Job
      <4> QED  BY <2>1, <4>1, <4>2 DEF Fine
    <3> QED  BY <1>1, <2>2, <3>2, <3>3
  <2> QED  BY <1>1, <2>2, <2>3
<1>2. \A k \in Workers : jobs'[k] \in Job \cup {Idle} /\ Fine(jobs'[k])
  BY <1>1
<1> QED  BY <1>2 DEF JobsOK, Fine

\* A write is done, well or not.
LEMMA WriteTyped ==
  ASSUME TInv, NEW j \in Workers, Writes(j), NEW next \in Job, Fine(next), WriteDone(j, next)
  PROVE  jobs' \in [Workers -> Job \cup {Idle}] /\ JobsOK'
<1>1. jobs' = [k \in Workers |-> jobs'[k]]
  BY DEF WriteDone
<1>2. jobs'[j] \in Job \cup {Idle} /\ Fine(jobs'[j])
  BY IdleFields DEF WriteDone
<1>3. \A k \in Workers \ {j} :
             \/ jobs'[k] = jobs[k]
             \/ jobs[k].kind = "apply" /\ jobs'[k] = [jobs[k] EXCEPT !.raced = TRUE, !.loose = TRUE]
  BY DEF WriteDone
<1> QED  BY <1>1, <1>2, <1>3, MarkTyped

\* What follows a write that was done.
LEMMA WrittenTyped ==
  ASSUME TInv, NEW j \in Workers, Writes(j)
  PROVE  /\ [jobs[j] EXCEPT !.at = "verify"] \in Job /\ Fine([jobs[j] EXCEPT !.at = "verify"])
         /\ jobs[j].blob \in Config
BY JobFields DEF Writes, TInv, Job, Fine, JobsOK

\* The steps of the beacon.
LEMMA StoresTyped ==
  ASSUME TypeOK, NEW blob \in Config, Stores(blob)
  PROVE  ram' \in Config /\ accel' \in Accel /\ stored' \in BOOLEAN
BY DEF Stores, TypeOK, Accel

LEMMA KeepsTyped ==
  ASSUME TypeOK, Keeps
  PROVE  stored' \in BOOLEAN /\ pending' \in BOOLEAN /\ (stored' \/ pending')
BY DEF Keeps, TypeOK

\* An accelerometer command is done, well or not.
LEMMA AccelTyped ==
  ASSUME TInv, NEW j \in Workers, jobs[j] \in Job, NEW at \in {"interval", "done"},
         NEW ok \in BOOLEAN, AccelDone(j, at, ok)
  PROVE  jobs' \in [Workers -> Job \cup {Idle}] /\ JobsOK'
<1> DEFINE moved == [jobs[j] EXCEPT !.at = at, !.loose = @ \/ ~ok]
<1>1. PICK next \in {moved, Failed} :
        jobs' = [k \in Workers |->
                   IF k = j THEN next
                   ELSE IF jobs[k].kind = "apply" /\ jobs[k].at # "failed"
                     THEN [jobs[k] EXCEPT !.loose = TRUE]
                   ELSE jobs[k]]
  BY DEF AccelDone
<1>2. moved \in Job /\ Fine(moved)
  BY DEF Job, Fine
<1>3. next \in Job /\ Fine(next)
  BY <1>2, FailedTyped
<1> HIDE DEF moved
<1>4. jobs' = [k \in Workers |-> jobs'[k]]
  BY <1>1
<1>5. jobs'[j] = next
  BY <1>1
<1>6. \A k \in Workers \ {j} :
             \/ jobs'[k] = jobs[k]
             \/ jobs[k].kind = "apply" /\ jobs'[k] = [jobs[k] EXCEPT !.loose = TRUE]
  BY <1>1
<1> QED  BY <1>3, <1>4, <1>5, <1>6, MarkTyped

LEMMA TInvNext == TInv /\ [Next]_vars => TInv'
<1> SUFFICES ASSUME TInv, [Next]_vars PROVE TypeOK' /\ JobsOK'
  BY DEF TInv
<1> USE DEF gui, beacon
<1>1. CASE UNCHANGED vars
  BY <1>1 DEF vars, TInv, TypeOK, JobsOK
<1>2. ASSUME NEW f \in Form, NEW a \in Form, Edit(f, a) PROVE TypeOK' /\ JobsOK'
  BY <1>2 DEF Edit, TInv, TypeOK, JobsOK
<1>3. CASE Revert
  <2>1. form' \in Form
    BY <1>3, Conversions DEF Revert, TInv, TypeOK
  <2> QED  BY <1>3, <2>1 DEF Revert, TInv, TypeOK, JobsOK
<1>4. CASE TabChanged
  <2>1. form' \in Form
    BY <1>4, Conversions DEF TabChanged, TInv, TypeOK
  <2>2. apply_on' \in BOOLEAN /\ revert_on' \in BOOLEAN
    BY <1>4 DEF TabChanged, TInv, TypeOK
  <2> QED  BY <1>4, <2>1, <2>2 DEF TabChanged, TInv, TypeOK, JobsOK
<1>5. CASE Apply
  <2>1. Get(form) \in Config /\ accel_form \in Form
    BY Conversions DEF TInv, TypeOK
  <2>2. jobs' \in [Workers -> Job \cup {Idle}] /\ JobsOK'
    BY <1>5, <2>1, StartTyped DEF Apply, Kinds
  <2> QED  BY <1>5, <2>2 DEF Apply, TInv, TypeOK
<1>6. CASE AutoApply
  <2>1. Get(form) \in Config /\ accel_form \in Form
    BY Conversions DEF TInv, TypeOK
  <2>2. jobs' \in [Workers -> Job \cup {Idle}] /\ JobsOK'
    BY <1>6, <2>1, StartTyped DEF AutoApply, Kinds
  <2> QED  BY <1>6, <2>2 DEF AutoApply, TInv, TypeOK
<1>7. CASE Connect
  <2>1. jobs' \in [Workers -> Job \cup {Idle}] /\ JobsOK'
    BY <1>7, StartTyped DEF Connect, Kinds
  <2> QED  BY <1>7, <2>1 DEF Connect, TInv, TypeOK
<1>8. CASE Disconnect
  BY <1>8 DEF Disconnect, TInv, TypeOK, JobsOK
<1>9. CASE DeferredSave
  BY <1>9 DEF DeferredSave, TInv, TypeOK, JobsOK
<1>10. ASSUME NEW j \in Workers, Write(j) PROVE TypeOK' /\ JobsOK'
  <2>1. jobs' \in [Workers -> Job \cup {Idle}] /\ JobsOK'
    BY <1>10, WriteTyped, WrittenTyped DEF Write
  <2>2. ram' \in Config /\ accel' \in Accel /\ stored' \in BOOLEAN
    BY <1>10, WrittenTyped, StoresTyped DEF Write, TInv
  <2> QED  BY <1>10, <2>1, <2>2 DEF Write, TInv, TypeOK
<1>11. ASSUME NEW j \in Workers, WriteFails(j) PROVE TypeOK' /\ JobsOK'
  <2>1. jobs' \in [Workers -> Job \cup {Idle}] /\ JobsOK'
    BY <1>11, WriteTyped, FailedTyped DEF WriteFails
  <2>2. ram' \in Config /\ accel' \in Accel /\ stored' \in BOOLEAN
    <3>1. CASE Stores(jobs[j].blob)
      BY <1>11, <3>1, WrittenTyped, StoresTyped DEF WriteFails, TInv
    <3>2. CASE UNCHANGED <<ram, accel, stored>>
      BY <3>2 DEF TInv, TypeOK
    <3> QED  BY <1>11, <3>1, <3>2 DEF WriteFails
  <2> QED  BY <1>11, <2>1, <2>2 DEF WriteFails, TInv, TypeOK
<1>12. ASSUME NEW j \in Workers, Verify(j) PROVE TypeOK' /\ JobsOK'
  <2>1. jobs[j] \in Job
    BY <1>12, JobFields DEF Verify, TInv
  <2>2. Goto(j, "save") \/ jobs' = [jobs EXCEPT ![j] = Failed]
    BY <1>12 DEF Verify
  <2>3. jobs' \in [Workers -> Job \cup {Idle}] /\ JobsOK'
    BY <2>1, <2>2, GotoTyped, ReplaceTyped, FailedTyped DEF Places
  <2> QED  BY <1>12, <2>3 DEF Verify, TInv, TypeOK
<1>13. ASSUME NEW j \in Workers, Save(j) PROVE TypeOK' /\ JobsOK'
  <2>1. jobs[j] \in Job
    BY <1>13, JobFields DEF Save, TInv
  <2>2. jobs' \in [Workers -> Job \cup {Idle}] /\ JobsOK'
    BY <1>13, <2>1, GotoTyped DEF Save, Places
  <2>3. stored' \in BOOLEAN /\ pending' \in BOOLEAN
    BY <1>13, KeepsTyped DEF Save, TInv
  <2> QED  BY <1>13, <2>2, <2>3 DEF Save, TInv, TypeOK
<1>14. ASSUME NEW j \in Workers, SaveFails(j) PROVE TypeOK' /\ JobsOK'
  <2>1. jobs' \in [Workers -> Job \cup {Idle}] /\ JobsOK'
    BY <1>14, ReplaceTyped, FailedTyped DEF SaveFails
  <2> QED  BY <1>14, <2>1 DEF SaveFails, TInv, TypeOK
<1>19. ASSUME NEW j \in Workers, NEW ok \in BOOLEAN, NEW at \in {"interval", "done"},
              jobs[j] \in Job, AccelDone(j, at, ok), accel' \in Accel, UNCHANGED ram,
              Keeps \/ UNCHANGED beacon, UNCHANGED <<gui, ble, excused>>
       PROVE  TypeOK' /\ JobsOK'
  <2>1. jobs' \in [Workers -> Job \cup {Idle}] /\ JobsOK'
    BY <1>19, AccelTyped
  <2>2. stored' \in BOOLEAN /\ pending' \in BOOLEAN
    BY <1>19, KeepsTyped DEF TInv, TypeOK
  <2> QED  BY <1>19, <2>1, <2>2 DEF TInv, TypeOK
<1>20. ASSUME NEW j \in Workers, Enable(j) PROVE TypeOK' /\ JobsOK'
  <2>0. jobs[j].row \in Form \cup {NoRow} /\ jobs[j].at = "enable" /\ jobs[j] \in Job
    BY <1>20, JobFields DEF Enable, TInv
  <2>1. jobs[j].row.tog \in BOOLEAN
    BY <2>0, RowSwitch
  <2>2. [accel EXCEPT !.on = jobs[j].row.tog] \in Accel
    BY <2>1 DEF TInv, TypeOK, Accel
  <2>3. accel' \in Accel /\ UNCHANGED ram /\ (Keeps \/ UNCHANGED beacon)
    BY <1>20, <2>2 DEF Enable, TInv, TypeOK
  <2>4. PICK ok \in BOOLEAN : AccelDone(j, IF jobs[j].row.tog THEN "interval" ELSE "done", ok)
    BY <1>20 DEF Enable
  <2> QED  BY <1>19, <1>20, <2>0, <2>3, <2>4 DEF Enable
<1>21. ASSUME NEW j \in Workers, Interval(j) PROVE TypeOK' /\ JobsOK'
  <2>1. jobs[j] \in Job /\ jobs[j].row.spin \in 0..MaxInterval
    BY <1>21, JobFields, IntervalAssumption DEF Interval, TInv, Form, NoRow
  <2>2. [accel EXCEPT !.iv = jobs[j].row.spin] \in Accel
    BY <2>1 DEF TInv, TypeOK, Accel
  <2>3. accel' \in Accel /\ UNCHANGED ram /\ (Keeps \/ UNCHANGED beacon)
    BY <1>21, <2>2 DEF Interval, TInv, TypeOK
  <2>4. PICK ok \in BOOLEAN : AccelDone(j, "done", ok)
    BY <1>21 DEF Interval
  <2> QED  BY <1>19, <1>21, <2>1, <2>3, <2>4 DEF Interval
<1>15. ASSUME NEW j \in Workers, Read(j) PROVE TypeOK' /\ JobsOK'
  <2>1. jobs[j] \in Job /\ jobs[j].kind \in {"reload", "init"}
    BY <1>15, JobFields DEF Read, TInv, JobsOK, Fine
  <2>2. PICK read \in Config \cup {Unknown} :
            jobs' = [jobs EXCEPT ![j].at = IF jobs[j].kind = "init" THEN "list" ELSE "done",
                                 ![j].blob = read]
    BY <1>15 DEF Read, TInv, TypeOK
  <2> DEFINE job == [jobs[j] EXCEPT !.at = IF jobs[j].kind = "init" THEN "list" ELSE "done",
                                    !.blob = read]
  <2>3. job \in Job /\ job.kind \in {"reload", "init"} /\ job.at \in {"list", "done"}
    BY <2>1 DEF Job
  <2>4. jobs' = [jobs EXCEPT ![j] = job]
    BY <2>2 DEF TInv, TypeOK
  <2> HIDE DEF job
  <2>5. jobs' \in [Workers -> Job \cup {Idle}] /\ JobsOK'
    BY <2>3, <2>4, ReplaceTyped DEF Fine
  <2> QED  BY <1>15, <2>5 DEF Read, TInv, TypeOK
<1>22. ASSUME NEW j \in Workers, List(j) PROVE TypeOK' /\ JobsOK'
  <2>1. jobs[j] \in Job /\ jobs[j].kind \in {"reload", "init"}
    BY <1>22, JobFields DEF List, TInv, JobsOK, Fine
  <2>2. PICK row \in Form \cup {NoRow} :
            jobs' = [jobs EXCEPT ![j].at = "done", ![j].row = row]
    BY <1>22, Conversions DEF List, TInv, TypeOK
  <2> DEFINE job == [jobs[j] EXCEPT !.at = "done", !.row = row]
  <2>3. job \in Job /\ job.at = "done"
    BY <2>1 DEF Job
  <2>4. jobs' = [jobs EXCEPT ![j] = job]
    BY <2>2 DEF TInv, TypeOK
  <2> HIDE DEF job
  <2>5. jobs' \in [Workers -> Job \cup {Idle}] /\ JobsOK'
    BY <2>3, <2>4, ReplaceTyped DEF Fine
  <2> QED  BY <1>22, <2>5 DEF List, TInv, TypeOK
<1>16. ASSUME NEW j \in Workers, ApplyDone(j) PROVE TypeOK' /\ JobsOK'
  <2>1. LET job == NewJob("reload", "read", Unknown, NoRow) IN job \in Job /\ Fine(job)
    BY NewJobTyped DEF Kinds, Places, Fine
  <2>2. jobs' \in [Workers -> Job \cup {Idle}] /\ JobsOK'
    BY <1>16, <2>1, ReplaceTyped DEF ApplyDone
  <2> QED  BY <1>16, <2>2 DEF ApplyDone, TInv, TypeOK
<1>17. ASSUME NEW j \in Workers, ApplyFailed(j) PROVE TypeOK' /\ JobsOK'
  <2>1. jobs' \in [Workers -> Job \cup {Idle}] /\ JobsOK'
    BY <1>17, ReplaceTyped, IdleFields DEF ApplyFailed
  <2> QED  BY <1>17, <2>1 DEF ApplyFailed, TInv, TypeOK
<1>18. ASSUME NEW j \in Workers, Loaded(j) PROVE TypeOK' /\ JobsOK'
  <2>1. jobs' \in [Workers -> Job \cup {Idle}] /\ JobsOK'
    BY <1>18, ReplaceTyped, IdleFields DEF Loaded
  <2>2. cache' \in Config \cup {Unknown}
    BY <1>18, JobFields DEF Loaded, TInv, TypeOK
  <2>3. form' \in Form /\ accel_form' \in Form
    BY <1>18, JobFields, Conversions DEF Loaded, TInv, TypeOK
  <2>4. apply_on' \in BOOLEAN /\ revert_on' \in BOOLEAN
    BY <1>18 DEF Loaded, TInv, TypeOK
  <2> QED  BY <1>18, <2>1, <2>2, <2>3, <2>4 DEF Loaded, TInv, TypeOK
<1> QED
  BY <1>1, <1>2, <1>3, <1>4, <1>5, <1>6, <1>7, <1>8, <1>9, <1>10, <1>11, <1>12, <1>13,
     <1>14, <1>15, <1>16, <1>17, <1>18, <1>20, <1>21, <1>22 DEF Next

\* The types of every reachable state of the editor.
THEOREM TypeCorrect == Spec => []TypeOK
<1>1. TInv => TypeOK
  BY DEF TInv
<1> QED  BY <1>1, TInvInit, TInvNext, PTL DEF Spec
-----------------------------------------------------------------------------
(* What an Apply reports. *)

\* A step that leaves the beacon and the other workers alone, and after which this
\* worker has made no write of an Apply, breaks nothing.
LEMMA OthersKeep ==
  ASSUME HoldsApplied, NEW j \in Workers,
         ram' = ram, accel' = accel, stored' = stored, pending' = pending,
         \A k \in Workers \ {j} : jobs'[k] = jobs[k],
         jobs'[j].kind # "apply" \/ jobs'[j].at \in {"write", "failed"}
  PROVE  HoldsApplied'
<1>1. ASSUME NEW k \in Workers PROVE Right(jobs[k])'
  <2>1. CASE k = j
    BY <2>1 DEF Right
  <2>2. CASE k # j
    <3>1. jobs'[k] = jobs[k] /\ Right(jobs[k])
      BY <2>2 DEF HoldsApplied
    <3> QED  BY <3>1 DEF Right, Obeys
  <2> QED  BY <2>1, <2>2
<1> QED  BY <1>1 DEF HoldsApplied

\* So does a step that changes none of them.
LEMMA NothingChanges ==
  ASSUME HoldsApplied,
         ram' = ram, accel' = accel, stored' = stored, pending' = pending, jobs' = jobs
  PROVE  HoldsApplied'
BY DEF HoldsApplied, Right, Obeys

\* Nor does a worker whose record is replaced.
LEMMA ReplaceKeeps ==
  ASSUME TInv, HoldsApplied, NEW j \in Workers, NEW job,
         jobs' = [jobs EXCEPT ![j] = job],
         job.kind # "apply" \/ job.at \in {"write", "failed"},
         ram' = ram, accel' = accel, stored' = stored, pending' = pending
  PROVE  HoldsApplied'
<1>1. jobs'[j] = job /\ \A k \in Workers \ {j} : jobs'[k] = jobs[k]
  BY DEF TInv, TypeOK
<1> QED  BY <1>1, OthersKeep

LEMMA StartKeeps ==
  ASSUME TInv, HoldsApplied, NEW j \in Workers, NEW kind, NEW at, NEW blob, NEW row,
         Start(j, kind, at, blob, row), kind # "apply" \/ at = "write",
         ram' = ram, accel' = accel, stored' = stored, pending' = pending
  PROVE  HoldsApplied'
<1>1. NewJob(kind, at, blob, row).kind = kind /\ NewJob(kind, at, blob, row).at = at
  BY DEF NewJob
<1> QED  BY <1>1, ReplaceKeeps DEF Start

\* After a write, done well or not, every other Apply that has made its own is marked.
LEMMA WriteKeeps ==
  ASSUME TInv, HoldsApplied, NEW j \in Workers, Writes(j), NEW next, WriteDone(j, next),
         next.kind = "apply" => next.at = "failed" \/ (next.at = "verify" /\ ram' = next.blob)
  PROVE  HoldsApplied'
<1>1. ASSUME NEW k \in Workers PROVE Right(jobs[k])'
  <2>1. CASE k = j
    <3>1. jobs'[k] = Idle \/ jobs'[k] = next
      BY <2>1 DEF WriteDone
    <3>2. CASE jobs'[k] = Idle
      BY <3>2, IdleFields DEF Right
    <3>3. CASE jobs'[k] = next
      BY <3>3 DEF Right
    <3> QED  BY <3>1, <3>2, <3>3
  <2>2. CASE k # j
    <3>1. CASE jobs[k].kind = "apply" /\ jobs[k].at \notin {"write", "failed"}
      <4>1. jobs[k] \in Job /\ jobs'[k] = [jobs[k] EXCEPT !.raced = TRUE, !.loose = TRUE]
        BY <2>2, <3>1, JobFields DEF WriteDone, TInv
      <4>2. jobs'[k].raced = TRUE
        BY <4>1 DEF Job
      <4> QED  BY <4>2 DEF Right
    <3>2. CASE ~(jobs[k].kind = "apply" /\ jobs[k].at \notin {"write", "failed"})
      <4>1. jobs'[k] = jobs[k]
        BY <2>2, <3>2 DEF WriteDone
      <4> QED  BY <3>2, <4>1 DEF Right
    <3> QED  BY <3>1, <3>2
  <2> QED  BY <2>1, <2>2
<1> QED  BY <1>1 DEF HoldsApplied

\* After an accelerometer command of another Apply, nothing is claimed of the
\* accelerometer, and the configuration is kept.
LEMMA AccelKeepsOther ==
  ASSUME TInv, HoldsApplied, NEW j \in Workers, NEW at, NEW ok \in BOOLEAN,
         AccelDone(j, at, ok), UNCHANGED ram, (stored \/ pending) => (stored' \/ pending'),
         NEW k \in Workers, k # j
  PROVE  Right(jobs[k])'
<1>1. Right(jobs[k])
  BY DEF HoldsApplied
<1>2. CASE jobs[k].kind = "apply" /\ jobs[k].at # "failed"
  <2>1. jobs[k] \in Job /\ jobs'[k] = [jobs[k] EXCEPT !.loose = TRUE]
    BY <1>2, JobFields DEF AccelDone, TInv
  <2>2. /\ jobs'[k].loose = TRUE /\ jobs'[k].kind = jobs[k].kind /\ jobs'[k].at = jobs[k].at
        /\ jobs'[k].raced = jobs[k].raced /\ jobs'[k].blob = jobs[k].blob
    BY <2>1 DEF Job
  <2> QED  BY <1>1, <2>2 DEF Right
<1>3. CASE ~(jobs[k].kind = "apply" /\ jobs[k].at # "failed")
  <2>1. jobs'[k] = jobs[k]
    BY <1>3 DEF AccelDone
  <2> QED  BY <1>3, <2>1 DEF Right
<1> QED  BY <1>2, <1>3

\* What becomes of the worker that gives an accelerometer command.
LEMMA AccelOwn ==
  ASSUME TInv, NEW j \in Workers, jobs[j] \in Job, NEW at, NEW ok \in BOOLEAN,
         AccelDone(j, at, ok)
  PROVE  \/ jobs'[j] = Failed
         \/ /\ jobs'[j].at = at /\ jobs'[j].kind = jobs[j].kind /\ jobs'[j].blob = jobs[j].blob
            /\ jobs'[j].row = jobs[j].row /\ jobs'[j].raced = jobs[j].raced
            /\ ~jobs'[j].loose => ok /\ ~jobs[j].loose
<1> DEFINE moved == [jobs[j] EXCEPT !.at = at, !.loose = @ \/ ~ok]
<1>1. PICK next \in {moved, Failed} :
        jobs' = [k \in Workers |->
                   IF k = j THEN next
                   ELSE IF jobs[k].kind = "apply" /\ jobs[k].at # "failed"
                     THEN [jobs[k] EXCEPT !.loose = TRUE]
                   ELSE jobs[k]]
  BY DEF AccelDone
<1>2. jobs'[j] = next
  BY <1>1
<1>3. CASE next = Failed
  BY <1>2, <1>3
<1>4. CASE next = moved
  BY <1>2, <1>4 DEF Job
<1> QED  BY <1>1, <1>3, <1>4

LEMMA InvInit == Init => Inv
<1> SUFFICES ASSUME Init PROVE Inv
  OBVIOUS
<1>1. HoldsApplied
  BY IdleFields DEF Init, HoldsApplied, Right
<1> QED  BY <1>1, TInvInit DEF Inv

LEMMA InvNext == Inv /\ [Next]_vars => Inv'
<1> SUFFICES ASSUME Inv, [Next]_vars PROVE HoldsApplied'
  BY TInvNext DEF Inv
<1>0. TInv /\ TypeOK /\ HoldsApplied
  BY DEF Inv, TInv
<1> USE DEF gui, beacon
<1>1. CASE UNCHANGED vars
  BY <1>0, <1>1, NothingChanges DEF vars
<1>2. ASSUME NEW f \in Form, NEW a \in Form, Edit(f, a) PROVE HoldsApplied'
  BY <1>0, <1>2, NothingChanges DEF Edit
<1>3. CASE Revert
  BY <1>0, <1>3, NothingChanges DEF Revert
<1>4. CASE TabChanged
  BY <1>0, <1>4, NothingChanges DEF TabChanged
<1>5. CASE Apply
  BY <1>0, <1>5, StartKeeps DEF Apply
<1>6. CASE AutoApply
  BY <1>0, <1>6, StartKeeps DEF AutoApply
<1>7. CASE Connect
  BY <1>0, <1>7, StartKeeps DEF Connect
<1>8. CASE Disconnect
  BY <1>0, <1>8, NothingChanges DEF Disconnect
<1>9. CASE DeferredSave
  BY <1>0, <1>9 DEF DeferredSave, HoldsApplied, Right, Obeys
<1>10. ASSUME NEW j \in Workers, Write(j) PROVE HoldsApplied'
  <2> DEFINE next == [jobs[j] EXCEPT !.at = "verify"]
  <2>1. next.at = "verify" /\ next.blob = jobs[j].blob
    BY <1>0, <1>10, JobFields DEF Write, Writes, Job
  <2>2. ram' = next.blob /\ Writes(j) /\ WriteDone(j, next)
    BY <1>10, <2>1 DEF Write, Stores
  <2> HIDE DEF next
  <2> QED  BY <1>0, <2>1, <2>2, WriteKeeps
<1>11. ASSUME NEW j \in Workers, WriteFails(j) PROVE HoldsApplied'
  <2>1. Writes(j) /\ WriteDone(j, Failed)
    BY <1>11 DEF WriteFails
  <2>2. Failed.at = "failed"
    BY FailedTyped
  <2> QED  BY <1>0, <2>1, <2>2, WriteKeeps
<1>12. ASSUME NEW j \in Workers, Verify(j) PROVE HoldsApplied'
  <2>1. CASE jobs' = [jobs EXCEPT ![j] = Failed]
    BY <1>0, <1>12, <2>1, ReplaceKeeps, FailedTyped DEF Verify
  <2>2. CASE Goto(j, "save")
    <3>1. /\ jobs'[j].kind = jobs[j].kind /\ jobs'[j].blob = jobs[j].blob
          /\ jobs'[j].raced = jobs[j].raced /\ jobs'[j].at = "save"
      BY <1>0, <1>12, <2>2, JobFields DEF Verify, Goto, TypeOK, Job
    <3>2. \A k \in Workers \ {j} : jobs'[k] = jobs[k]
      BY <1>0, <2>2 DEF Goto, TypeOK
    <3>3. ASSUME NEW k \in Workers PROVE Right(jobs[k])'
      <4>1. Right(jobs[k])
        BY <1>0 DEF HoldsApplied
      <4>2. CASE k = j
        BY <1>12, <3>1, <4>1, <4>2 DEF Right, Verify
      <4>3. CASE k # j
        BY <1>12, <3>2, <4>1, <4>3 DEF Right, Obeys, Verify
      <4> QED  BY <4>2, <4>3
    <3> QED  BY <3>3 DEF HoldsApplied
  <2> QED  BY <1>12, <2>1, <2>2 DEF Verify
<1>13. ASSUME NEW j \in Workers, Save(j) PROVE HoldsApplied'
  <2>1. /\ jobs'[j].kind = jobs[j].kind /\ jobs'[j].blob = jobs[j].blob
        /\ jobs'[j].raced = jobs[j].raced /\ jobs'[j].at = "enable"
    BY <1>0, <1>13, JobFields DEF Save, Goto, TypeOK, Job
  <2>2. \A k \in Workers \ {j} : jobs'[k] = jobs[k]
    BY <1>0, <1>13 DEF Save, Goto, TypeOK
  <2>3. stored' \/ pending'
    BY <1>0, <1>13, KeepsTyped DEF Save
  <2>4. ASSUME NEW k \in Workers PROVE Right(jobs[k])'
    <3>1. Right(jobs[k])
      BY <1>0 DEF HoldsApplied
    <3>2. CASE k = j
      BY <1>13, <2>1, <2>3, <3>1, <3>2 DEF Right, Save
    <3>3. CASE k # j
      BY <1>13, <2>2, <2>3, <3>1, <3>3 DEF Right, Obeys, Save
    <3> QED  BY <3>2, <3>3
  <2> QED  BY <2>4 DEF HoldsApplied
<1>14. ASSUME NEW j \in Workers, SaveFails(j) PROVE HoldsApplied'
  BY <1>0, <1>14, ReplaceKeeps, FailedTyped DEF SaveFails
<1>19. ASSUME NEW j \in Workers, Enable(j) PROVE HoldsApplied'
  <2>1. PICK ok \in BOOLEAN :
          /\ \/ /\ accel' = [accel EXCEPT !.on = jobs[j].row.tog]
                /\ UNCHANGED ram /\ Keeps
             \/ ~ok /\ UNCHANGED beacon
          /\ AccelDone(j, IF jobs[j].row.tog THEN "interval" ELSE "done", ok)
    BY <1>19 DEF Enable
  <2>2. UNCHANGED ram /\ ((stored \/ pending) => (stored' \/ pending'))
    BY <1>0, <2>1, KeepsTyped
  <2>3. jobs[j] \in Job /\ jobs[j].at = "enable" /\ jobs[j].row \in Form \cup {NoRow}
    BY <1>0, <1>19, JobFields DEF Enable
  <2>4. jobs[j].row.tog \in BOOLEAN
    BY <2>3, RowSwitch
  <2>5. Right(jobs[j])
    BY <1>0 DEF HoldsApplied
  <2>6. Right(jobs[j])'
    <3>1. CASE jobs'[j] = Failed
      BY <3>1, FailedTyped DEF Right
    <3>2. CASE jobs'[j] # Failed
      <4>1. /\ jobs'[j].at = IF jobs[j].row.tog THEN "interval" ELSE "done"
            /\ jobs'[j].kind = jobs[j].kind /\ jobs'[j].blob = jobs[j].blob
            /\ jobs'[j].row = jobs[j].row /\ jobs'[j].raced = jobs[j].raced
            /\ ~jobs'[j].loose => ok
        BY <1>0, <2>1, <2>3, <3>2, AccelOwn
      <4>2. ~jobs'[j].loose => accel'.on = jobs[j].row.tog
        BY <1>0, <2>1, <4>1 DEF TypeOK, Accel
      <4> QED  BY <2>2, <2>3, <2>4, <2>5, <4>1, <4>2 DEF Right, Obeys
    <3> QED  BY <3>1, <3>2
  <2>7. \A k \in Workers : k # j => Right(jobs[k])'
    BY <1>0, <2>1, <2>2, AccelKeepsOther
  <2> QED  BY <2>6, <2>7 DEF HoldsApplied, Right, Obeys
<1>20. ASSUME NEW j \in Workers, Interval(j) PROVE HoldsApplied'
  <2>1. PICK ok \in BOOLEAN :
          /\ \/ /\ accel' = [accel EXCEPT !.iv = jobs[j].row.spin]
                /\ UNCHANGED ram /\ Keeps
             \/ ~ok /\ UNCHANGED beacon
          /\ AccelDone(j, "done", ok)
    BY <1>20 DEF Interval
  <2>2. UNCHANGED ram /\ ((stored \/ pending) => (stored' \/ pending'))
    BY <1>0, <2>1, KeepsTyped
  <2>3. jobs[j] \in Job /\ jobs[j].at = "interval"
    BY <1>0, <1>20, JobFields DEF Interval
  <2>5. Right(jobs[j])
    BY <1>0 DEF HoldsApplied
  <2>6. Right(jobs[j])'
    <3>1. CASE jobs'[j] = Failed
      BY <3>1, FailedTyped DEF Right
    <3>2. CASE jobs'[j] # Failed
      <4>1. /\ jobs'[j].at = "done"
            /\ jobs'[j].kind = jobs[j].kind /\ jobs'[j].blob = jobs[j].blob
            /\ jobs'[j].row = jobs[j].row /\ jobs'[j].raced = jobs[j].raced
            /\ ~jobs'[j].loose => ok /\ ~jobs[j].loose
        BY <1>0, <2>1, <2>3, <3>2, AccelOwn
      <4>2. ~jobs'[j].loose => accel'.on = accel.on /\ accel'.iv = jobs[j].row.spin
        BY <1>0, <2>1, <4>1 DEF TypeOK, Accel
      <4> QED  BY <2>2, <2>3, <2>5, <4>1, <4>2 DEF Right, Obeys
    <3> QED  BY <3>1, <3>2
  <2>7. \A k \in Workers : k # j => Right(jobs[k])'
    BY <1>0, <2>1, <2>2, AccelKeepsOther
  <2> QED  BY <2>6, <2>7 DEF HoldsApplied, Right, Obeys
<1>15. ASSUME NEW j \in Workers, Read(j) \/ List(j) PROVE HoldsApplied'
  <2>1. jobs[j] \in Job /\ jobs[j].kind # "apply"
    BY <1>0, <1>15, JobFields DEF Read, List, TInv, JobsOK, Fine
  <2>2. jobs'[j].kind = jobs[j].kind /\ \A k \in Workers \ {j} : jobs'[k] = jobs[k]
    BY <1>0, <1>15, <2>1 DEF Read, List, TypeOK, Job
  <2> QED  BY <1>0, <1>15, <2>1, <2>2, OthersKeep DEF Read, List
<1>16. ASSUME NEW j \in Workers, ApplyDone(j) PROVE HoldsApplied'
  <2>1. NewJob("reload", "read", Unknown, NoRow).kind # "apply"
    BY DEF NewJob
  <2> QED  BY <1>0, <1>16, <2>1, ReplaceKeeps DEF ApplyDone
<1>17. ASSUME NEW j \in Workers, ApplyFailed(j) PROVE HoldsApplied'
  BY <1>0, <1>17, ReplaceKeeps, IdleFields DEF ApplyFailed
<1>18. ASSUME NEW j \in Workers, Loaded(j) PROVE HoldsApplied'
  BY <1>0, <1>18, ReplaceKeeps, IdleFields DEF Loaded
<1> QED
  BY <1>1, <1>2, <1>3, <1>4, <1>5, <1>6, <1>7, <1>8, <1>9, <1>10, <1>11, <1>12, <1>13,
     <1>14, <1>15, <1>16, <1>17, <1>18, <1>19, <1>20 DEF Next

\* "Settings applied and saved to flash" is true of the configuration unless another
\* write came after the Apply's own, and of the accelerometer unless moreover a command
\* for it failed or another Apply gave one, for any number of workers in any order.
THEOREM AppliedSaved == Spec => []AppliedIsSaved
<1>1. Inv => AppliedIsSaved
  BY DEF Inv, HoldsApplied, AppliedIsSaved, Right
<1> QED  BY <1>1, InvInit, InvNext, PTL DEF Spec
-----------------------------------------------------------------------------
(* What the form shows.  As long as no write meets another request, one     *)
(* request is under way at a time, and what a write carries is what the    *)
(* form says, or a write of something newer is due.                        *)

Shows      == FormShows(ram)
OneAtATime == \A j, k \in Active : j = k
InTouch    == /\ timer \/ Active # {} => connected
              /\ ~connected => cache = Unknown
WritesForm == \A j \in Workers : Writes(j) /\ ~timer => jobs[j].blob = Get(form)
IdleShows  == connected /\ ~timer /\ cache # Unknown /\ (\A j \in Workers : ~Writes(j)) => Shows
ReadIsRam  == \A j \in Workers : jobs[j].kind \in {"reload", "init"} =>
                  \/ jobs[j].at = "read"
                  \/ jobs[j].at \in {"list", "done"} /\ jobs[j].blob \in {Unknown, ram}
Follows    == OneAtATime /\ InTouch /\ WritesForm /\ IdleShows /\ ReadIsRam
FormInv    == ~excused => Follows

\* The form shows what it says itself, and what was loaded into it.
LEMMA SaidIsShown ==
  ASSUME form' \in Form, ram' = Get(form') PROVE Shows'
<1>1. \A f \in Form : Get(f).mask = 1 <=> Get(f).iv > 0
  BY IntervalAssumption DEF Get, Form
<1> QED  BY <1>1 DEF Shows, FormShows

LEMMA LoadedIsShown ==
  ASSUME ram' \in Config, form' = Load(ram') PROVE Shows'
<1>1. \A c \in Config : (c.mask = 1 <=> c.iv > 0) => Get(Load(c)) = c
  <2> SUFFICES ASSUME NEW c \in Config, c.mask = 1 <=> c.iv > 0 PROVE Get(Load(c)) = c
    OBVIOUS
  <2>1. c = [mask |-> c.mask, iv |-> c.iv] /\ c.mask \in {0, 1} /\ c.iv \in Nat
    BY IntervalAssumption DEF Config
  <2>2. CASE c.mask = 1
    <3>1. (IF c.iv > 1 THEN c.iv ELSE 1) = c.iv
      BY <2>1, <2>2
    <3>2. Load(c) = [tog |-> TRUE, spin |-> c.iv]
      BY <2>2, <3>1 DEF Load
    <3> QED  BY <2>1, <2>2, <3>2 DEF Get
  <2>3. CASE c.mask = 0
    <3>1. c.iv = 0
      BY <2>1, <2>3
    <3> QED  BY <2>1, <2>3, <3>1 DEF Get, Load
  <2> QED  BY <2>1, <2>2, <2>3
<1> QED  BY <1>1 DEF Shows, FormShows

\* Nobody else is at work.
LEMMA OthersIdle ==
  ASSUME OneAtATime, NEW j \in Workers, jobs[j] # Idle, NEW k \in Workers, k # j
  PROVE  jobs[k] = Idle
BY DEF OneAtATime, Active

LEMMA IdleNeither ==
  ASSUME NEW j \in Workers, jobs[j] = Idle
  PROVE  ~Writes(j) /\ jobs[j].kind \notin {"reload", "init"}
BY IdleFields DEF Writes

\* A request starts where there is none.
LEMMA BeginFollows ==
  ASSUME TInv, Follows, Active = {}, NEW j \in Workers, NEW kind, NEW at, NEW blob, NEW row,
         Start(j, kind, at, blob, row), connected', at \in {"write", "read"},
         kind \in {"auto", "apply"} => at = "write" /\ blob = Get(form),
         cache' = cache, form' = form, ram' = ram,
         timer' => timer,
         kind \in {"auto", "apply"} \/ (cache = Unknown /\ at = "read")
  PROVE  Follows'
<1>1. /\ \A k \in Workers : jobs[k] = Idle
      /\ \A k \in Workers \ {j} : jobs'[k] = Idle
      /\ jobs'[j] = NewJob(kind, at, blob, row)
  BY DEF Start, Active, TInv, TypeOK
<1>a. jobs'[j].kind = kind /\ jobs'[j].at = at /\ jobs'[j].blob = blob
  BY <1>1 DEF NewJob
<1>2. OneAtATime'
  BY <1>1 DEF OneAtATime, Active
<1>3. InTouch'
  BY DEF InTouch
<1>4. /\ Writes(j)' <=> kind \in {"auto", "apply"}
      /\ \A k \in Workers \ {j} : jobs'[k].kind \notin {"auto", "apply", "reload", "init"}
  BY <1>1, <1>a, IdleFields DEF Writes
<1>5. WritesForm'
  BY <1>1, <1>a, <1>4 DEF WritesForm, Writes
<1>6. IdleShows'
  BY <1>4 DEF IdleShows
<1>7. ReadIsRam'
  BY <1>1, <1>a, <1>4 DEF ReadIsRam
<1> QED  BY <1>2, <1>3, <1>5, <1>6, <1>7 DEF Follows

\* The one request goes on, or ends.
LEMMA WorkFollows ==
  ASSUME TInv, Follows, NEW j \in Workers, jobs[j] # Idle,
         \A k \in Workers \ {j} : jobs'[k] = jobs[k], ~Writes(j)',
         connected' = connected, timer' = timer,
         timer \/ cache' = Unknown \/ Shows',
         jobs'[j].kind \in {"reload", "init"} =>
             \/ jobs'[j].at = "read"
             \/ jobs'[j].at \in {"list", "done"} /\ jobs'[j].blob \in {Unknown, ram'}
  PROVE  Follows'
<1>1. \A k \in Workers \ {j} : jobs[k] = Idle /\ jobs'[k] = Idle
  BY OthersIdle DEF Follows
<1>2. connected'
  BY DEF Follows, InTouch, Active
<1>3. OneAtATime'
  BY <1>1 DEF OneAtATime, Active
<1>4. InTouch'
  BY <1>2 DEF InTouch
<1>5. \A k \in Workers : ~Writes(k)'
  BY <1>1, IdleFields DEF Writes
<1>6. \A k \in Workers \ {j} : jobs'[k].kind \notin {"reload", "init"}
  BY <1>1, IdleFields
<1>7. WritesForm'
  BY <1>5 DEF WritesForm
<1>8. IdleShows'
  BY DEF IdleShows
<1>9. ReadIsRam'
  BY <1>6 DEF ReadIsRam
<1> QED  BY <1>3, <1>4, <1>7, <1>8, <1>9 DEF Follows

\* While the one request is not a write, the form shows what RAM holds.
LEMMA ReadsShow ==
  ASSUME Follows, NEW j \in Workers, jobs[j] # Idle, ~Writes(j)
  PROVE  connected /\ (timer \/ cache = Unknown \/ Shows)
<1>1. \A k \in Workers : ~Writes(k)
  BY OthersIdle, IdleNeither DEF Follows
<1> QED  BY <1>1 DEF Follows, InTouch, Active, IdleShows

\* A step of the main thread or of the beacon that touches no worker.
LEMMA GuiFollows ==
  ASSUME TInv, Follows, jobs' = jobs, ram' = ram,
         timer' => connected', Active # {} => connected', ~connected' => cache' = Unknown,
         timer' \/ (form' = form /\ ~timer) \/ Active = {},
         timer' \/ ~connected' \/ cache' = Unknown \/ Shows'
             \/ (form' = form /\ ~timer /\ connected /\ cache' = cache)
  PROVE  Follows'
<1>1. Active' = Active /\ \A j \in Workers : Writes(j)' <=> Writes(j)
  BY DEF Active, Writes
<1>2. OneAtATime' /\ InTouch' /\ ReadIsRam'
  BY <1>1 DEF Follows, OneAtATime, InTouch, ReadIsRam
<1>3. WritesForm'
  BY <1>1, IdleNeither DEF Follows, WritesForm, Active
<1>4. IdleShows'
  BY <1>1 DEF Follows, IdleShows, Shows, FormShows
<1> QED  BY <1>2, <1>3, <1>4 DEF Follows

LEMMA FollowsStep ==
  ASSUME TInv, TInv', Follows, [Next]_vars, ~excused, ~excused'
  PROVE  Follows'
<1>0. /\ OneAtATime /\ InTouch /\ WritesForm /\ IdleShows /\ ReadIsRam /\ TypeOK /\ TypeOK'
      /\ cache # ram => cache = Unknown \/ cache \in Config
  BY DEF Follows, TInv, TypeOK
<1>a. ram # Unknown /\ form \in Form /\ ram \in Config
  BY UnknownApart DEF TInv, TypeOK
<1> USE DEF gui, beacon
<1>1. CASE UNCHANGED vars
  BY <1>0, <1>1 DEF vars, Follows, OneAtATime, InTouch, WritesForm, IdleShows, ReadIsRam,
                    Active, Writes, Shows, FormShows
<1>2. ASSUME NEW f \in Form, NEW a \in Form, Edit(f, a) PROVE Follows'
  BY <1>0, <1>2, GuiFollows DEF Edit, InTouch
<1>3. CASE Revert
  <2>1. cache = ram /\ Active = {} /\ form' = Load(ram)
    BY <1>3, <1>a DEF Revert
  <2>2. Shows'
    BY <1>a, <1>3, <2>1, LoadedIsShown DEF Revert
  <2> QED  BY <1>0, <1>3, <2>1, <2>2, GuiFollows DEF Revert, InTouch
<1>4. CASE TabChanged
  <2>1. cache = ram /\ Active = {} /\ form' = Load(ram)
    BY <1>4 DEF TabChanged
  <2>2. Shows'
    BY <1>a, <1>4, <2>1, LoadedIsShown DEF TabChanged
  <2> QED  BY <1>0, <1>4, <2>1, <2>2, GuiFollows DEF TabChanged, InTouch
<1>5. CASE Apply
  <2>1. Active = {}
    BY <1>5 DEF Apply, Meets
  <2> QED  BY <1>5, <2>1, BeginFollows DEF Apply
<1>6. CASE AutoApply
  <2>1. Active = {} /\ connected
    BY <1>0, <1>6 DEF AutoApply, Meets, InTouch
  <2> QED  BY <1>6, <2>1, BeginFollows DEF AutoApply
<1>7. CASE Connect
  <2>1. Active = {} /\ cache = Unknown
    BY <1>0, <1>7 DEF Connect, InTouch
  <2> QED  BY <1>7, <2>1, BeginFollows DEF Connect
<1>8. CASE Disconnect
  <2>1. Active = {}
    BY <1>8 DEF Disconnect
  <2> QED  BY <1>8, <2>1, GuiFollows DEF Disconnect
<1>9. CASE DeferredSave
  BY <1>0, <1>9, GuiFollows DEF DeferredSave, InTouch, Follows, IdleShows, Shows, FormShows
<1>10. ASSUME NEW j \in Workers, Write(j) PROVE Follows'
  <2>1. /\ jobs[j] # Idle /\ jobs[j] \in Job /\ ram' = jobs[j].blob
        /\ UNCHANGED <<connected, cache, form, timer>>
    BY <1>0, <1>10, IdleNeither, JobFields DEF Write, Writes, Stores
  <2>2. \A k \in Workers \ {j} : jobs[k] = Idle
    BY <1>0, <2>1, OthersIdle
  <2>3. \A k \in Workers \ {j} : jobs'[k] = jobs[k]
    BY <1>10, <2>2, IdleFields DEF Write, WriteDone
  <2>4. jobs'[j] = Idle \/ jobs'[j] = [jobs[j] EXCEPT !.at = "verify"]
    BY <1>10 DEF Write, WriteDone
  <2>5. jobs'[j].at \in {"idle", "verify"}
    BY <2>1, <2>4, IdleFields DEF Job
  <2>7. jobs'[j].kind \notin {"reload", "init"}
    BY <1>10, <2>1, <2>4, IdleFields DEF Write, Writes, Job
  <2>6. timer \/ Shows'
    <3>1. SUFFICES ASSUME ~timer PROVE Shows'
      OBVIOUS
    <3>2. ram' = Get(form)
      BY <1>0, <1>10, <2>1, <3>1 DEF WritesForm, Write
    <3> QED  BY <1>a, <2>1, <3>2, SaidIsShown
  <2> QED  BY <2>1, <2>3, <2>5, <2>6, <2>7, WorkFollows DEF Writes
<1>11. ASSUME NEW j \in Workers, WriteFails(j) PROVE Follows'
  BY <1>11 DEF WriteFails
<1>12. ASSUME NEW j \in Workers, jobs[j].at \in {"verify", "save", "enable", "interval"},
              jobs'[j].kind \notin {"reload", "init"}, jobs'[j].at # "write",
              \A k \in Workers \ {j} : jobs[k] = Idle => jobs'[k] = Idle,
              UNCHANGED <<gui, ram>>
       PROVE  Follows'
  <2>1. jobs[j] # Idle /\ ~Writes(j)
    BY <1>12, IdleFields DEF Writes
  <2>2. \A k \in Workers \ {j} : jobs'[k] = jobs[k]
    BY <1>0, <1>12, <2>1, OthersIdle
  <2>3. connected /\ (timer \/ cache = Unknown \/ Shows)
    BY <2>1, ReadsShow
  <2> QED  BY <1>12, <2>1, <2>2, <2>3, WorkFollows DEF Writes, Shows, FormShows
<1>13. ASSUME NEW j \in Workers, Verify(j) \/ Save(j) \/ SaveFails(j) PROVE Follows'
  <2>1. jobs[j].at \in {"verify", "save"} /\ UNCHANGED <<gui, ram>>
    BY <1>13 DEF Verify, Save, SaveFails
  <2>2. jobs[j] \in Job /\ jobs[j].kind \notin {"reload", "init"}
    BY <1>0, <2>1, JobFields DEF ReadIsRam, TInv, JobsOK, Fine
  <2>3. \/ jobs' = [jobs EXCEPT ![j] = Failed]
        \/ \E at \in {"save", "enable"} : Goto(j, at)
    BY <1>13 DEF Verify, Save, SaveFails
  <2>4. jobs'[j].kind \notin {"reload", "init"} /\ jobs'[j].at # "write"
    BY <1>0, <2>2, <2>3, FailedTyped DEF Goto, TypeOK, Job
  <2>5. \A k \in Workers \ {j} : jobs'[k] = jobs[k]
    BY <1>0, <2>3 DEF Goto, TypeOK
  <2> QED  BY <1>12, <2>1, <2>4, <2>5
<1>17. ASSUME NEW j \in Workers, Enable(j) \/ Interval(j) PROVE Follows'
  <2>1. jobs[j].at \in {"enable", "interval"} /\ UNCHANGED <<gui, ram>>
    BY <1>17 DEF Enable, Interval
  <2>2. jobs[j] \in Job /\ jobs[j].kind \notin {"reload", "init"}
    BY <1>0, <2>1, JobFields DEF ReadIsRam, TInv, JobsOK, Fine
  <2>3. PICK at \in {"interval", "done"}, ok \in BOOLEAN : AccelDone(j, at, ok)
    BY <1>17 DEF Enable, Interval
  <2>4. jobs'[j].kind \notin {"reload", "init"} /\ jobs'[j].at # "write"
    BY <2>2, <2>3, AccelOwn, FailedTyped
  <2>5. \A k \in Workers \ {j} : jobs[k] = Idle => jobs'[k] = Idle
    BY <2>3, IdleFields DEF AccelDone
  <2> QED  BY <1>12, <2>1, <2>4, <2>5
<1>14. ASSUME NEW j \in Workers, Read(j) \/ List(j) PROVE Follows'
  <2>1. jobs[j].at \in {"read", "list"} /\ UNCHANGED <<gui, ram>>
    BY <1>14 DEF Read, List
  <2>2. jobs[j] \in Job /\ jobs[j] # Idle /\ ~Writes(j)
    BY <1>0, <2>1, JobFields, IdleFields DEF Writes
  <2>3. connected /\ (timer \/ cache = Unknown \/ Shows)
    BY <2>2, ReadsShow
  <2>4. \A k \in Workers \ {j} : jobs'[k] = jobs[k]
    BY <1>0, <1>14 DEF Read, List, TypeOK
  <2>5. jobs'[j].at \in {"list", "done"} /\ jobs'[j].blob \in {Unknown, ram}
    <3>1. CASE Read(j)
      BY <1>0, <2>2, <3>1 DEF Read, TypeOK, Job
    <3>2. CASE List(j)
      <4>1. jobs[j].kind \in {"reload", "init"} /\ jobs[j].at = "list"
        BY <3>2 DEF List, TInv, JobsOK, Fine
      <4>2. jobs[j].blob \in {Unknown, ram}
        BY <1>0, <4>1 DEF ReadIsRam
      <4> QED  BY <1>0, <2>2, <3>2, <4>2 DEF List, TypeOK, Job
    <3> QED  BY <1>14, <3>1, <3>2
  <2> QED  BY <2>1, <2>2, <2>3, <2>4, <2>5, WorkFollows DEF Writes, Shows, FormShows
<1>15. ASSUME NEW j \in Workers, ApplyDone(j) \/ ApplyFailed(j) PROVE Follows'
  <2>1. jobs[j] # Idle /\ ~Writes(j) /\ UNCHANGED <<connected, cache, form, timer, ram>>
    BY <1>15, IdleFields DEF Writes, ApplyDone, ApplyFailed
  <2>2. connected /\ (timer \/ cache = Unknown \/ Shows)
    BY <2>1, ReadsShow
  <2> DEFINE next == NewJob("reload", "read", Unknown, NoRow)
  <2>3. PICK job \in {Idle, next} : jobs' = [jobs EXCEPT ![j] = job]
    BY <1>15 DEF ApplyDone, ApplyFailed
  <2>5. job.at \in {"idle", "read"} /\ (job.kind \in {"reload", "init"} => job.at = "read")
    BY IdleFields DEF NewJob
  <2> HIDE DEF next
  <2>4. jobs'[j] = job /\ \A k \in Workers \ {j} : jobs'[k] = jobs[k]
    BY <1>0, <2>3 DEF TypeOK
  <2> QED  BY <2>1, <2>2, <2>4, <2>5, WorkFollows DEF Writes, Shows, FormShows
<1>16. ASSUME NEW j \in Workers, Loaded(j) PROVE Follows'
  <2>1. jobs[j] # Idle /\ ~Writes(j) /\ UNCHANGED <<connected, timer, ram>>
    BY <1>16, IdleFields DEF Writes, Loaded
  <2>2. connected /\ (timer \/ cache = Unknown \/ Shows)
    BY <2>1, ReadsShow
  <2>3. jobs'[j] = Idle /\ \A k \in Workers \ {j} : jobs'[k] = jobs[k]
    BY <1>0, <1>16 DEF Loaded, TypeOK
  <2>4. jobs[j].blob \in {Unknown, ram}
    BY <1>0, <1>16 DEF Loaded, ReadIsRam
  <2>5. timer \/ cache' = Unknown \/ Shows'
    <3>1. CASE jobs[j].blob = Unknown
      BY <1>16, <2>1, <2>2, <3>1 DEF Loaded, Shows, FormShows
    <3>2. CASE jobs[j].blob = ram
      BY <1>a, <1>16, <2>1, <3>2, LoadedIsShown DEF Loaded
    <3> QED  BY <2>4, <3>1, <3>2
  <2>6. jobs'[j].at = "idle" /\ jobs'[j].kind = "none"
    BY <2>3, IdleFields
  <2> QED  BY <1>0, <2>1, <2>3, <2>5, <2>6, WorkFollows DEF Writes
<1> QED
  BY <1>1, <1>2, <1>3, <1>4, <1>5, <1>6, <1>7, <1>8, <1>9, <1>10, <1>11, <1>13, <1>14,
     <1>15, <1>16, <1>17 DEF Next

\* What is excused stays so.
LEMMA ExcusedStays == ASSUME TInv, [Next]_vars PROVE excused => excused'
BY DEF TInv, TypeOK, Next, vars, gui, beacon, Edit, Revert, TabChanged, Apply, AutoApply,
       Connect, Disconnect, DeferredSave, Write, WriteFails, Verify, Save, SaveFails, Enable,
       Interval, Read, List, ApplyDone, ApplyFailed, Loaded

LEMMA FollowsInit == Init => Follows
BY IdleFields DEF Init, Follows, OneAtATime, InTouch, WritesForm, IdleShows, ReadIsRam, Active, Writes

\* With nothing under way the form shows what the beacon runs, the accelerometer's row
\* left aside, for any number of workers and any intervals, unless writes met other
\* requests or failed or an older reading was brought back.
THEOREM SettledShows == Spec => []SettledShowsBeacon
<1>1. Init => FormInv
  BY FollowsInit DEF FormInv
<1>2. TInv /\ FormInv /\ [Next]_vars => FormInv'
  BY TInvNext, FollowsStep, ExcusedStays DEF FormInv
<1>3. FormInv => SettledShowsBeacon
  <2>1. SUFFICES ASSUME FormInv, Settled, ~excused PROVE FormShows(ram)
    BY DEF SettledShowsBeacon
  <2>2. \A j \in Workers : jobs[j] = Idle
    BY <2>1 DEF Settled, Active
  <2> QED  BY <2>1, <2>2, IdleNeither DEF FormInv, Follows, IdleShows, Settled, Shows
<1> QED  BY <1>1, <1>2, <1>3, TInvInit, TInvNext, PTL DEF Spec
=============================================================================

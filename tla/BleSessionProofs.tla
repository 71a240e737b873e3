-------------------------- MODULE BleSessionProofs --------------------------
(***************************************************************************)
(* Theorems about BleSession for every set of operating modes and faults   *)
(* and every bound: the types, and that the program's belief about the     *)
(* link is right up to the events it has not taken yet.                    *)
(*                                                                         *)
(* A belief survives the taking of an event because of the order of the    *)
(* queue: a connection that is over is followed by the disconnection.      *)
(***************************************************************************)
EXTENDS BleSession, TLAPS

Has(s, e) == \E i \in 1 .. Len(s) : s[i] = e

\* Each connection in the queue is followed by a disconnection.
Over(s) ==
  \A i \in 1 .. Len(s) : s[i] = "conn" => \E j \in i + 1 .. Len(s) : s[j] = "disc"

\* A queued connection stands unless it is over.
OverUnlessLinked == link = "conn" \/ Over(events)

\* The radio is used only when the stack is up.
RadioNeedsStack == link # "off" => cpu2_up

Inv == TypeOK /\ RadioNeedsStack /\ OverUnlessLinked /\ BelievesRight

-----------------------------------------------------------------------------
(* Queues.                                                                 *)

LEMMA AppendFacts ==
  ASSUME NEW s \in Seq(Events), NEW e \in Events
  PROVE  /\ Append(s, e) \in Seq(Events)
         /\ Append(s, e) # <<>>
         /\ Len(Append(s, e)) = Len(s) + 1
         /\ \A i \in 1 .. Len(s) : Append(s, e)[i] = s[i]
         /\ Append(s, e)[Len(s) + 1] = e
  OBVIOUS

LEMMA TailFacts ==
  ASSUME NEW s \in Seq(Events), s # <<>>
  PROVE  /\ Tail(s) \in Seq(Events)
         /\ Len(s) \in Nat \ {0} /\ Len(Tail(s)) = Len(s) - 1
         /\ \A i \in 1 .. Len(s) - 1 : Tail(s)[i] = s[i + 1]
         /\ Head(s) = s[1] /\ Head(s) \in Events
  OBVIOUS

LEMMA HasAppend ==
  ASSUME NEW s \in Seq(Events), NEW e \in Events, NEW x
  PROVE  /\ Has(Append(s, e), e)
         /\ Has(s, x) => Has(Append(s, e), x)
  <1> USE AppendFacts
  <1>0. Len(s) \in Nat
    OBVIOUS
  <1>1. Has(Append(s, e), e)
    BY <1>0 DEF Has
  <1>2. ASSUME Has(s, x) PROVE Has(Append(s, e), x)
    BY <1>0, <1>2 DEF Has
  <1> QED BY <1>1, <1>2

LEMMA OverAppendDisc ==
  ASSUME NEW s \in Seq(Events)
  PROVE  Over(Append(s, "disc"))
  <1> DEFINE t == Append(s, "disc")
  <1>1. Len(s) \in Nat /\ Len(t) = Len(s) + 1 /\ t[Len(s) + 1] = "disc"
    BY AppendFacts DEF Events
  <1>2. SUFFICES ASSUME NEW i \in 1 .. Len(t), t[i] = "conn"
                 PROVE  \E j \in i + 1 .. Len(t) : t[j] = "disc"
    BY DEF Over
  <1>3. i # Len(s) + 1
    BY <1>1, <1>2
  <1>4. Len(s) + 1 \in i + 1 .. Len(t)
    BY <1>1, <1>2, <1>3
  <1> QED BY <1>1, <1>4

LEMMA OverAppendWrite ==
  ASSUME NEW s \in Seq(Events), Over(s)
  PROVE  Over(Append(s, "write"))
  <1> DEFINE t == Append(s, "write")
  <1>1. /\ Len(s) \in Nat /\ Len(t) = Len(s) + 1 /\ t[Len(s) + 1] = "write"
        /\ \A k \in 1 .. Len(s) : t[k] = s[k]
    BY AppendFacts DEF Events
  <1>2. SUFFICES ASSUME NEW i \in 1 .. Len(t), t[i] = "conn"
                 PROVE  \E j \in i + 1 .. Len(t) : t[j] = "disc"
    BY DEF Over
  <1>3. i \in 1 .. Len(s) /\ s[i] = "conn"
    BY <1>1, <1>2
  <1>4. PICK j \in i + 1 .. Len(s) : s[j] = "disc"
    BY <1>3 DEF Over
  <1>5. j \in i + 1 .. Len(t) /\ j \in 1 .. Len(s)
    BY <1>1, <1>3, <1>4
  <1> QED BY <1>1, <1>4, <1>5

LEMMA OverTail ==
  ASSUME NEW s \in Seq(Events), s # <<>>, Over(s)
  PROVE  /\ Over(Tail(s))
         /\ Head(s) = "conn" => Has(Tail(s), "disc")
  <1> DEFINE t == Tail(s)
  <1>1. /\ Len(s) \in Nat \ {0} /\ Len(t) = Len(s) - 1 /\ Head(s) = s[1]
        /\ \A k \in 1 .. Len(s) - 1 : t[k] = s[k + 1]
    BY TailFacts
  <1>2. Over(t)
    <2>1. SUFFICES ASSUME NEW i \in 1 .. Len(t), t[i] = "conn"
                   PROVE  \E j \in i + 1 .. Len(t) : t[j] = "disc"
      BY DEF Over
    <2>2. i + 1 \in 1 .. Len(s) /\ s[i + 1] = "conn"
      BY <1>1, <2>1
    <2>3. PICK j \in (i + 1) + 1 .. Len(s) : s[j] = "disc"
      BY <2>2 DEF Over
    <2>4. j - 1 \in i + 1 .. Len(t) /\ j - 1 \in 1 .. Len(s) - 1 /\ (j - 1) + 1 = j
      BY <1>1, <2>1, <2>3
    <2>5. t[j - 1] = "disc"
      BY <1>1, <2>3, <2>4
    <2> QED BY <2>4, <2>5
  <1>3. ASSUME Head(s) = "conn" PROVE Has(t, "disc")
    <2>1. PICK j \in 1 + 1 .. Len(s) : s[j] = "disc"
      BY <1>1, <1>3 DEF Over
    <2>2. j - 1 \in 1 .. Len(t) /\ j - 1 \in 1 .. Len(s) - 1 /\ (j - 1) + 1 = j
      BY <1>1, <2>1
    <2>3. t[j - 1] = "disc"
      BY <1>1, <2>1, <2>2
    <2> QED BY <2>2, <2>3 DEF Has
  <1> QED BY <1>2, <1>3

LEMMA HasTail ==
  ASSUME NEW s \in Seq(Events), s # <<>>, NEW x, Has(s, x), Head(s) # x
  PROVE  Has(Tail(s), x)
  <1>1. /\ Len(s) \in Nat \ {0} /\ Len(Tail(s)) = Len(s) - 1 /\ Head(s) = s[1]
        /\ \A k \in 1 .. Len(s) - 1 : Tail(s)[k] = s[k + 1]
    BY TailFacts
  <1>2. PICK i \in 1 .. Len(s) : s[i] = x
    BY DEF Has
  <1>3. i # 1
    BY <1>1, <1>2
  <1>4. i - 1 \in 1 .. Len(s) - 1 /\ (i - 1) + 1 = i
    BY <1>1, <1>2, <1>3
  <1>5. Tail(s)[i - 1] = x
    BY <1>1, <1>2, <1>4
  <1> QED BY <1>1, <1>4, <1>5 DEF Has

LEMMA EmptyIsOver == Over(<<>>)
  BY DEF Over

-----------------------------------------------------------------------------
(* Parts of steps.                                                         *)

\* Advertising is counted as running only when it runs, and leaves a client's
\* link as it is.
LEMMA StartAdvertisingFacts ==
  ASSUME TypeOK, StartAdvertising
  PROVE  /\ ble_state' \in {"IDLE", "ADV"} /\ link' \in {"off", "adv", "conn"}
         /\ ble_state' = "ADV" => link' = "adv"
         /\ link = "conn" => link' = "conn"
  BY DEF StartAdvertising, TypeOK

LEMMA StartSessionFacts ==
  ASSUME TypeOK, RadioNeedsStack, Idle, NEW kind, StartSession(kind)
  PROVE  /\ ble_state' \in {"IDLE", "ADV"} /\ link' \in {"off", "adv", "conn"}
         /\ ble_state' = "ADV" => link' = "adv"
         /\ link = "conn" => link' = "conn"
         /\ session' = kind /\ expired' = FALSE
         /\ cpu2_up' \in BOOLEAN /\ c2boot' \in BOOLEAN
         /\ cpu2_up => cpu2_up'
         /\ link' # "off" => cpu2_up'
  <1>0. session' = kind /\ expired' = FALSE
    BY DEF StartSession
  <1>1. CASE cpu2_up
    <2>1. StartAdvertising /\ cpu2_up' = cpu2_up /\ c2boot' = c2boot
      BY <1>1 DEF StartSession
    <2> QED BY <1>0, <1>1, <2>1, StartAdvertisingFacts DEF TypeOK
  <1>2. CASE ~cpu2_up
    <2>1. AppInit
      BY <1>2 DEF StartSession
    <2>2. CASE c2boot' = TRUE /\ cpu2_up' = TRUE /\ StartAdvertising
      BY <1>0, <2>2, StartAdvertisingFacts
    <2>3. CASE c2boot' = TRUE /\ UNCHANGED <<cpu2_up, link, ble_state>>
      BY <1>0, <2>3 DEF TypeOK, RadioNeedsStack, Idle
    <2> QED BY <2>1, <2>2, <2>3 DEF AppInit
  <1> QED BY <1>1, <1>2

\* The queue of a step that takes nothing out of it.
LEMMA SameQueue ==
  ASSUME TypeOK, OverUnlessLinked, events' = events, link = "conn" => link' = "conn"
  PROVE  OverUnlessLinked'
  BY DEF OverUnlessLinked

-----------------------------------------------------------------------------
(* The invariant.                                                          *)

LEMMA InitInv == Init => Inv
  <1> SUFFICES ASSUME Init PROVE Inv
    OBVIOUS
  <1>1. TypeOK
    <2>1. op_mode \in SUBSET ModeBits
      BY ModeAssumption DEF Init
    <2>2. events \in Seq(Events)
      BY DEF Init
    <2> QED BY <2>1, <2>2 DEF Init, TypeOK, Places
  <1>2. RadioNeedsStack /\ BelievesRight
    BY DEF Init, RadioNeedsStack, BelievesRight
  <1>3. OverUnlessLinked
    BY EmptyIsOver DEF Init, OverUnlessLinked
  <1> QED BY <1>1, <1>2, <1>3 DEF Inv

\* Steps that change neither the link, the queue nor the belief, and do not
\* end the stopping of a session.
LEMMA QuietStep ==
  ASSUME Inv, TypeOK',
         UNCHANGED <<link, events, ble_state, cpu2_up>>,
         pc = "stopping" => pc' = "stopping"
  PROVE  Inv'
  BY DEF Inv, RadioNeedsStack, OverUnlessLinked, BelievesRight, Queued

LEMMA TakeInv == Inv /\ HandleEvent => Inv'
  <1> SUFFICES ASSUME Inv, HandleEvent PROVE Inv'
    OBVIOUS
  <1> DEFINE t == Tail(events)
  <1>0. /\ TypeOK /\ RadioNeedsStack /\ OverUnlessLinked /\ BelievesRight
        /\ events \in Seq(Events) /\ events # <<>> /\ cpu2_up
        /\ events' = t /\ hci_pending' = (t # <<>>)
        /\ UNCHANGED <<pc, cont, expired, cpu2_up, c2boot, prev_idle, sched, resets>>
    BY DEF Inv, HandleEvent, TypeOK
  <1>1. t \in Seq(Events) /\ Head(events) \in Events
    BY <1>0, TailFacts
  <1>2. \A x : Has(events, x) /\ Head(events) # x => Has(t, x)
    BY <1>0, HasTail
  <1>3. Over(events) => Over(t) /\ (Head(events) = "conn" => Has(t, "disc"))
    BY <1>0, OverTail
  <1>4. /\ link \in {"off", "adv", "conn"}
        /\ link = "conn" \/ Over(events)
        /\ ble_state = "CONN" => link = "conn" \/ Has(events, "disc")
        /\ ble_state = "ADV" /\ pc # "stopping" =>
             link = "adv" \/ Has(events, "conn") \/ Has(events, "disc")
    BY <1>0 DEF TypeOK, OverUnlessLinked, BelievesRight, Queued, Has
  <1>5. CASE Head(events) = "disc"
    <2>1. Disconnected /\ UNCHANGED <<quiet, op_mode>>
      BY <1>5 DEF HandleEvent
    <2>2. /\ ble_state' \in {"IDLE", "ADV"} /\ link' \in {"off", "adv", "conn"}
          /\ ble_state' = "ADV" => link' = "adv"
          /\ link = "conn" => link' = "conn"
          /\ session' \in {"none", "timed", "untimed"}
      <3>1. CASE "CONT" \in op_mode
        <4>1. StartAdvertising /\ session' = session
          BY <2>1, <3>1 DEF Disconnected
        <4> QED BY <1>0, <4>1, StartAdvertisingFacts DEF TypeOK
      <3>2. CASE "CONT" \notin op_mode
        <4>1. ble_state' = "IDLE" /\ session' = "none" /\ link' = link
          BY <2>1, <3>2 DEF Disconnected
        <4> QED BY <1>4, <4>1
      <3> QED BY <3>1, <3>2
    <2>3. TypeOK'
      BY <1>0, <1>1, <2>1, <2>2 DEF TypeOK
    <2>4. RadioNeedsStack'
      BY <1>0 DEF RadioNeedsStack
    <2>5. OverUnlessLinked'
      BY <1>0, <1>3, <1>4, <2>2 DEF OverUnlessLinked
    <2>6. BelievesRight'
      BY <2>2 DEF BelievesRight
    <2> QED BY <2>3, <2>4, <2>5, <2>6 DEF Inv
  <1>6. CASE Head(events) = "conn"
    <2>1. /\ ble_state' = "CONN" /\ quiet' = FALSE
          /\ UNCHANGED <<session, op_mode, link>>
      BY <1>6 DEF HandleEvent
    <2>2. TypeOK'
      BY <1>0, <1>1, <2>1 DEF TypeOK
    <2>3. RadioNeedsStack'
      BY <1>0 DEF RadioNeedsStack
    <2>4. OverUnlessLinked'
      BY <1>0, <1>3, <1>4, <2>1 DEF OverUnlessLinked
    <2>5. link' = "conn" \/ Has(events', "disc")
      BY <1>0, <1>3, <1>4, <1>6, <2>1
    <2>6. BelievesRight'
      BY <2>1, <2>5 DEF BelievesRight, Queued, Has
    <2> QED BY <2>2, <2>3, <2>4, <2>6 DEF Inv
  <1>7. CASE Head(events) = "write"
    <2>1. /\ quiet' = FALSE /\ op_mode' \in OpModes \union {op_mode}
          /\ UNCHANGED <<ble_state, session, link>>
      BY <1>7 DEF HandleEvent
    <2>2. op_mode' \in SUBSET ModeBits
      BY <1>0, <2>1, ModeAssumption DEF TypeOK
    <2>3. TypeOK'
      BY <1>0, <1>1, <2>1, <2>2 DEF TypeOK
    <2>4. RadioNeedsStack'
      BY <1>0 DEF RadioNeedsStack
    <2>5. OverUnlessLinked'
      BY <1>0, <1>3, <1>4, <2>1 DEF OverUnlessLinked
    <2>6. /\ ble_state' = "CONN" => link' = "conn" \/ Has(events', "disc")
          /\ ble_state' = "ADV" /\ pc' # "stopping" =>
               link' = "adv" \/ Has(events', "conn") \/ Has(events', "disc")
      BY <1>0, <1>2, <1>4, <1>7, <2>1
    <2>7. BelievesRight'
      BY <2>6 DEF BelievesRight, Queued, Has
    <2> QED BY <2>3, <2>4, <2>5, <2>7 DEF Inv
  <1> QED BY <1>1, <1>5, <1>6, <1>7 DEF Events

\* A session is stopped: only advertising ends at once, and what is believed of
\* it is put right by the end of the stopping.
LEMMA StopInv == Inv /\ (StopBegin \/ StopEnd) => Inv'
  <1>1. ASSUME Inv, StopBegin PROVE Inv'
    <2>1. /\ pc' = "stopping" /\ link' = IF link = "adv" THEN "off" ELSE link
          /\ UNCHANGED <<cont, ble_state, session, expired, quiet, op_mode, cpu2_up, c2boot,
                         hci_pending, prev_idle, sched, events, resets>>
      BY <1>1 DEF StopBegin
    <2>2. TypeOK'
      BY <1>1, <2>1 DEF Inv, TypeOK, Places
    <2>3. RadioNeedsStack' /\ OverUnlessLinked' /\ BelievesRight'
      BY <1>1, <2>1 DEF Inv, RadioNeedsStack, OverUnlessLinked, BelievesRight, Queued
    <2> QED BY <2>2, <2>3 DEF Inv
  <1>2. ASSUME Inv, StopEnd PROVE Inv'
    <2>1. /\ pc' = "guard" /\ ble_state' = "IDLE" /\ session' = "none" /\ hci_pending' = FALSE
          /\ UNCHANGED <<cont, expired, quiet, op_mode, cpu2_up, c2boot, prev_idle, sched, link,
                         events, resets>>
      BY <1>2 DEF StopEnd, SessionEnded
    <2>2. TypeOK'
      BY <1>2, <2>1 DEF Inv, TypeOK, Places
    <2>3. RadioNeedsStack' /\ OverUnlessLinked' /\ BelievesRight'
      BY <1>2, <2>1 DEF Inv, RadioNeedsStack, OverUnlessLinked, BelievesRight
    <2> QED BY <2>2, <2>3 DEF Inv
  <1> QED BY <1>1, <1>2

\* The link ends and its end is queued.
LEMMA LeaveInv ==
  ASSUME Inv, TypeOK', link = "conn", link' = "off", events' = Append(events, "disc"),
         ble_state' = ble_state
  PROVE  Inv'
  <1>1. events \in Seq(Events) /\ "disc" \in Events
    BY DEF Inv, TypeOK, Events
  <1>2. Over(events') /\ Has(events', "disc")
    BY <1>1, OverAppendDisc, HasAppend
  <1>3. RadioNeedsStack'
    BY DEF RadioNeedsStack
  <1>4. OverUnlessLinked' /\ BelievesRight'
    BY <1>2 DEF OverUnlessLinked, BelievesRight, Queued, Has
  <1> QED BY <1>3, <1>4 DEF Inv

\* A part of the types that every event sent to CPU1 keeps.
LEMMA SendType ==
  ASSUME Inv, link # "off", link' \in {"off", "adv", "conn"},
         NEW e \in Events, events' = Append(events, e), hci_pending' = TRUE,
         quiet' \in BOOLEAN, pc' \in Places,
         UNCHANGED <<cont, ble_state, session, expired, op_mode, cpu2_up, c2boot,
                     prev_idle, sched, resets>>
  PROVE  TypeOK'
  <1>1. events' \in Seq(Events) /\ events' # <<>>
    BY AppendFacts DEF Inv, TypeOK
  <1>2. cpu2_up' = TRUE
    BY DEF Inv, RadioNeedsStack, TypeOK
  <1> QED BY <1>1, <1>2 DEF Inv, TypeOK

LEMMA GuardInv == Inv /\ GuardQuiet => Inv'
  <1> SUFFICES ASSUME Inv, GuardQuiet PROVE Inv'
    OBVIOUS
  <1>1. /\ pc = "guard" /\ pc' = "loop"
        /\ UNCHANGED <<cont, ble_state, session, expired, op_mode, cpu2_up, c2boot, prev_idle,
                       sched, resets>>
    BY DEF GuardQuiet
  <1>2. CASE ble_state = "CONN" /\ quiet /\ link = "conn"
    <2>1. quiet' = FALSE /\ link' = "off" /\ events' = Append(events, "disc") /\ hci_pending' = TRUE
      BY <1>2 DEF GuardQuiet
    <2>2. TypeOK'
      <3>1. "disc" \in Events /\ pc' \in Places
        BY <1>1 DEF Events, Places
      <3> QED BY <1>1, <1>2, <2>1, <3>1, SendType
    <2> QED BY <1>1, <1>2, <2>1, <2>2, LeaveInv
  <1>3. CASE ~(ble_state = "CONN" /\ quiet /\ link = "conn")
    <2>1. quiet' \in {quiet, FALSE} /\ UNCHANGED <<link, events, hci_pending>>
      BY <1>3 DEF GuardQuiet
    <2>0. TypeOK /\ quiet' \in BOOLEAN /\ pc' \in Places
      BY <1>1, <2>1 DEF Inv, TypeOK, Places
    <2>2. TypeOK'
      BY <1>1, <2>0, <2>1 DEF TypeOK
    <2> QED BY <1>1, <2>1, <2>2, QuietStep
  <1> QED BY <1>2, <1>3

\* A session opened from IDLE.
LEMMA StartInv ==
  ASSUME Inv, Idle, StartSession("timed"), pc' \in Places, prev_idle' \in BOOLEAN,
         sched' \in {"first", "pause", "due"},
         UNCHANGED <<cont, quiet, op_mode, hci_pending, events, resets>>
  PROVE  Inv'
  <1>1. TypeOK /\ RadioNeedsStack /\ OverUnlessLinked
    BY DEF Inv
  <1>2. /\ ble_state' \in {"IDLE", "ADV"} /\ link' \in {"off", "adv", "conn"}
        /\ ble_state' = "ADV" => link' = "adv"
        /\ link = "conn" => link' = "conn"
        /\ session' = "timed" /\ expired' = FALSE
        /\ cpu2_up' \in BOOLEAN /\ c2boot' \in BOOLEAN
        /\ cpu2_up => cpu2_up'
        /\ link' # "off" => cpu2_up'
    BY <1>1, StartSessionFacts
  <1>3. TypeOK'
    BY <1>1, <1>2 DEF TypeOK
  <1>4. RadioNeedsStack' /\ BelievesRight'
    BY <1>2 DEF RadioNeedsStack, BelievesRight
  <1>5. OverUnlessLinked'
    BY <1>1, <1>2, SameQueue
  <1> QED BY <1>3, <1>4, <1>5 DEF Inv

LEMMA LoopInv == Inv /\ (Schedule \/ Gekon) => Inv'
  <1>1. ASSUME Inv, Schedule PROVE Inv'
    <2>0. pc = "loop" /\ pc' = "rest" /\ UNCHANGED <<cont, quiet, op_mode, hci_pending, events, resets>>
      BY <1>1 DEF Schedule
    <2>1. CASE /\ prev_idle' = Idle
               /\ UNCHANGED <<sched, ble_state, session, expired, cpu2_up, c2boot, link>>
      <3>1. TypeOK'
        BY <1>1, <2>0, <2>1 DEF Inv, TypeOK, Places, Idle
      <3> QED BY <1>1, <2>0, <2>1, <3>1, QuietStep
    <2>2. CASE /\ prev_idle' = TRUE /\ sched' = "pause"
               /\ UNCHANGED <<ble_state, session, expired, cpu2_up, c2boot, link>>
      <3>1. TypeOK'
        BY <1>1, <2>0, <2>2 DEF Inv, TypeOK, Places
      <3> QED BY <1>1, <2>0, <2>2, <3>1, QuietStep
    <2>3. CASE Idle /\ StartSession("timed") /\ sched' = "pause" /\ prev_idle' = FALSE
      <3>1. pc' \in Places /\ prev_idle' \in BOOLEAN /\ sched' \in {"first", "pause", "due"}
        BY <2>0, <2>3 DEF Places
      <3> QED BY <1>1, <2>0, <2>3, <3>1, StartInv
    <2> QED BY <1>1, <2>1, <2>2, <2>3 DEF Schedule
  <1>2. ASSUME Inv, Gekon PROVE Inv'
    <2>1. /\ Idle /\ StartSession("timed")
          /\ UNCHANGED <<pc, cont, quiet, op_mode, hci_pending, prev_idle, sched, events, resets>>
      BY <1>2 DEF Gekon
    <2>2. pc' \in Places /\ prev_idle' \in BOOLEAN /\ sched' \in {"first", "pause", "due"}
      BY <1>2, <2>1 DEF Inv, TypeOK
    <2> QED BY <1>2, <2>1, <2>2, StartInv
  <1> QED BY <1>1, <1>2

LEMMA RestartInv == Inv /\ (NoShutdown \/ Reset) => Inv'
  <1>1. ASSUME Inv, NoShutdown PROVE Inv'
    <2>1. /\ ble_state' = "IDLE" /\ session' \in {session, "none"}
          /\ link' = "off" /\ events' = <<>> /\ cpu2_up' = FALSE /\ hci_pending' = FALSE
          /\ UNCHANGED <<pc, cont, expired, quiet, op_mode, c2boot, prev_idle, sched, resets>>
      BY <1>1 DEF NoShutdown
    <2>2. TypeOK'
      <3>1. events' \in Seq(Events)
        BY <2>1
      <3> QED BY <1>1, <2>1, <3>1 DEF Inv, TypeOK
    <2>3. RadioNeedsStack' /\ BelievesRight'
      BY <2>1 DEF RadioNeedsStack, BelievesRight
    <2>4. OverUnlessLinked'
      BY <2>1, EmptyIsOver DEF OverUnlessLinked
    <2> QED BY <2>2, <2>3, <2>4 DEF Inv
  <1>2. ASSUME Inv, Reset PROVE Inv'
    <2>1. PICK m \in OpModes : Started(m)
      BY <1>2 DEF Reset
    <2>2. /\ pc' = "events" /\ cont' = FALSE /\ op_mode' = m /\ quiet' = FALSE /\ hci_pending' = FALSE
          /\ prev_idle' = TRUE /\ sched' = "first" /\ expired' = FALSE /\ events' = <<>>
          /\ session' \in {"none", "untimed"} /\ c2boot' \in BOOLEAN /\ cpu2_up' \in BOOLEAN
          /\ ble_state' \in {"IDLE", "ADV"} /\ link' \in {"off", "adv"}
          /\ ble_state' = "ADV" => link' = "adv"
          /\ link' = "adv" => cpu2_up'
      BY <2>1 DEF Started
    <2>3. resets' \in Nat
      BY <1>2 DEF Reset, Inv, TypeOK
    <2>4. TypeOK'
      <3>1. op_mode' \in SUBSET ModeBits
        BY <2>1, <2>2, ModeAssumption
      <3>2. events' \in Seq(Events)
        BY <2>2
      <3> QED BY <2>2, <2>3, <3>1, <3>2 DEF TypeOK, Places
    <2>5. RadioNeedsStack' /\ BelievesRight'
      BY <2>2 DEF RadioNeedsStack, BelievesRight
    <2>6. OverUnlessLinked'
      BY <2>2, EmptyIsOver DEF OverUnlessLinked
    <2> QED BY <2>4, <2>5, <2>6 DEF Inv
  <1> QED BY <1>1, <1>2

\* What the client does.
LEMMA ClientInv == Inv /\ Client => Inv'
  <1>0. "conn" \in Events /\ "disc" \in Events /\ "write" \in Events
    BY DEF Events
  <1>1. ASSUME Inv, ClientConnects PROVE Inv'
    <2>1. /\ link = "adv" /\ link' = "conn" /\ events' = Append(events, "conn") /\ hci_pending' = TRUE
          /\ UNCHANGED <<pc, cont, ble_state, session, expired, quiet, op_mode, cpu2_up, c2boot,
                         prev_idle, sched, resets>>
      BY <1>1 DEF ClientConnects, Send
    <2>2. quiet' \in BOOLEAN /\ pc' \in Places
      BY <1>1, <2>1 DEF Inv, TypeOK
    <2>3. TypeOK'
      BY <1>0, <1>1, <2>1, <2>2, SendType
    <2>4. Has(events', "conn")
      BY <1>0, <1>1, <2>1, HasAppend DEF Inv, TypeOK
    <2>5. RadioNeedsStack' /\ OverUnlessLinked'
      BY <1>1, <2>1 DEF Inv, RadioNeedsStack, OverUnlessLinked
    <2>6. BelievesRight'
      BY <2>1, <2>4 DEF BelievesRight, Queued, Has
    <2> QED BY <2>3, <2>5, <2>6 DEF Inv
  <1>2. ASSUME Inv, ClientLeaves PROVE Inv'
    <2>1. /\ link = "conn" /\ link' = "off" /\ events' = Append(events, "disc") /\ hci_pending' = TRUE
          /\ UNCHANGED <<pc, cont, ble_state, session, expired, quiet, op_mode, cpu2_up, c2boot,
                         prev_idle, sched, resets>>
      BY <1>2 DEF ClientLeaves, Send
    <2>2. quiet' \in BOOLEAN /\ pc' \in Places
      BY <1>2, <2>1 DEF Inv, TypeOK
    <2>3. TypeOK'
      BY <1>0, <1>2, <2>1, <2>2, SendType
    <2> QED BY <1>2, <2>1, <2>3, LeaveInv
  <1>3. ASSUME Inv, ClientWrites PROVE Inv'
    <2>1. /\ link = "conn" /\ link' = link /\ events' = Append(events, "write") /\ hci_pending' = TRUE
          /\ UNCHANGED <<pc, cont, ble_state, session, expired, quiet, op_mode, cpu2_up, c2boot,
                         prev_idle, sched, resets>>
      BY <1>3 DEF ClientWrites, Send
    <2>2. quiet' \in BOOLEAN /\ pc' \in Places /\ events \in Seq(Events)
      BY <1>3, <2>1 DEF Inv, TypeOK
    <2>3. TypeOK'
      BY <1>0, <1>3, <2>1, <2>2, SendType
    <2>4. \A x : Has(events, x) => Has(events', x)
      BY <1>0, <2>1, <2>2, HasAppend
    <2>5. RadioNeedsStack' /\ OverUnlessLinked'
      BY <1>3, <2>1 DEF Inv, RadioNeedsStack, OverUnlessLinked
    <2>6. /\ ble_state = "CONN" => link = "conn" \/ Has(events, "disc")
          /\ ble_state = "ADV" /\ pc # "stopping" =>
               link = "adv" \/ Has(events, "conn") \/ Has(events, "disc")
      BY <1>3 DEF Inv, BelievesRight, Queued, Has
    <2>7. /\ ble_state' = "CONN" => link' = "conn" \/ Has(events', "disc")
          /\ ble_state' = "ADV" /\ pc' # "stopping" =>
               link' = "adv" \/ Has(events', "conn") \/ Has(events', "disc")
      BY <2>1, <2>4, <2>6
    <2>8. BelievesRight'
      BY <2>7 DEF BelievesRight, Queued, Has
    <2> QED BY <2>3, <2>5, <2>8 DEF Inv
  <1> QED BY <1>1, <1>2, <1>3 DEF Client

\* The other steps move the program or the clock.
LEMMA PassInv ==
  Inv /\ (CheckWindow \/ Wait \/ EnterCont \/ LeaveCont \/ EndLoop \/ UartBleSet \/ Time) => Inv'
  <1>1. ASSUME Inv, CheckWindow \/ Wait \/ EnterCont \/ LeaveCont \/ EndLoop PROVE Inv'
    <2>1. /\ pc # "stopping" /\ pc' \in Places /\ cont' \in {cont, TRUE, FALSE}
          /\ UNCHANGED <<ble_state, session, expired, quiet, op_mode, cpu2_up, c2boot,
                         hci_pending, prev_idle, sched, link, events, resets>>
      BY <1>1 DEF CheckWindow, Wait, EnterCont, LeaveCont, EndLoop, Places
    <2>2. TypeOK
      BY <1>1 DEF Inv
    <2>3. pc' \in Places /\ cont' \in BOOLEAN
      BY <2>1, <2>2 DEF TypeOK
    <2>4. TypeOK'
      BY <2>1, <2>2, <2>3 DEF TypeOK
    <2> QED BY <1>1, <2>1, <2>4, QuietStep
  <1>2. ASSUME Inv, UartBleSet PROVE Inv'
    <2>1. /\ op_mode' \in OpModes
          /\ UNCHANGED <<pc, cont, ble_state, session, expired, quiet, cpu2_up, c2boot, hci_pending,
                         prev_idle, sched, link, events, resets>>
      BY <1>2 DEF UartBleSet
    <2>2. TypeOK /\ op_mode' \in SUBSET ModeBits
      BY <1>2, <2>1, ModeAssumption DEF Inv
    <2>3. TypeOK'
      BY <2>1, <2>2 DEF TypeOK
    <2> QED BY <1>2, <2>1, <2>3, QuietStep
  <1>3. ASSUME Inv, Time PROVE Inv'
    <2>1. /\ UNCHANGED <<pc, cont, ble_state, session, op_mode, cpu2_up, c2boot, hci_pending, prev_idle,
                         link, events, resets>>
          /\ expired' = expired \/ expired' = TRUE
          /\ quiet' = quiet \/ quiet' = TRUE
          /\ sched' = sched \/ sched' = "due"
      BY <1>3 DEF Time, Expire, Silence, PauseOver, Clock
    <2>2. TypeOK
      BY <1>3 DEF Inv
    <2>3. /\ expired' \in BOOLEAN /\ quiet' \in BOOLEAN
          /\ sched' \in {"first", "pause", "due"}
      BY <2>1, <2>2 DEF TypeOK
    <2>4. TypeOK'
      BY <2>1, <2>2, <2>3 DEF TypeOK
    <2> QED BY <1>3, <2>1, <2>4, QuietStep
  <1> QED BY <1>1, <1>2, <1>3

LEMMA NextInv == Inv /\ [Next]_vars => Inv'
  <1> SUFFICES ASSUME Inv, [Next]_vars PROVE Inv'
    OBVIOUS
  <1>1. CASE Next
    BY <1>1, TakeInv, StopInv, GuardInv, LoopInv, RestartInv, ClientInv, PassInv
    DEF Next, Cpu1
  <1>2. CASE UNCHANGED vars
    BY <1>2 DEF vars, cpu1, Inv, TypeOK, RadioNeedsStack, OverUnlessLinked, BelievesRight, Queued
  <1> QED BY <1>1, <1>2

-----------------------------------------------------------------------------
(* The theorems.                                                           *)

LEMMA SpecInv == Spec => []Inv
  BY InitInv, NextInv, PTL DEF Spec

\* Every variable has a value of its type, and the flag that calls for the
\* queue to be read (s_hci_evt_pending) is up only with an event in it and a
\* stack to ask.
THEOREM TypeCorrect == Spec => []TypeOK
  <1>1. Inv => TypeOK
    BY DEF Inv
  <1> QED BY <1>1, SpecInv, PTL

\* s_ble_state agrees with the link up to the events that are still queued, for
\* every set of modes, every failure and a queue of any length.
THEOREM BeliefRight == Spec => []BelievesRight
  <1>1. Inv => BelievesRight
    BY DEF Inv
  <1> QED BY <1>1, SpecInv, PTL
=============================================================================

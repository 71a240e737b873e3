--------------------------- MODULE PcSessionProofs ---------------------------
(***************************************************************************)
(* Proofs about PcSession, for any number of transport objects, scans and  *)
(* events waiting: as long as attempts to connect do not cross, no link is *)
(* lost, the screen is right and the Connect button comes back.            *)
(***************************************************************************)
EXTENDS PcSession, SequenceTheorems, TLAPS

-----------------------------------------------------------------------------
(* Events, workers and the types.                                          *)

LEMMA EventFields ==
    /\ \A e, t : Event(e, t).ev = e /\ Event(e, t).t = t
    /\ \A e, f, t, u : Event(e, t) = Event(f, u) <=> e = f /\ t = u
    /\ \A j, t : Job(j, t).job = j /\ Job(j, t).t = t
    /\ \A j, k, t, u : Job(j, t) = Job(k, u) <=> j = k /\ t = u
BY DEF Event, Job

LEMMA EventTypes ==
    /\ \A t \in T : \A e \in {"up", "down", "ok", "fail", "auto_ok", "auto_fail"} : Event(e, t) \in Events
    /\ \A e \in {"init", "found", "none", "scan_error"} : Event(e, None) \in Events
    /\ \A t \in T : \A j \in {"connect", "auto", "cleanup", "stop"} : Job(j, t) \in Jobs
    /\ Job("init", None) \in Jobs
BY DEF Event, Events, Job, Jobs

\* What the main thread has handled is gone, what waited waits on.
LEMMA Handled ==
    ASSUME inbox \in Seq(Events), NEW e, Handle(e)
    PROVE  /\ inbox' \in Seq(Events)
           /\ e \in Posted /\ Posted' \subseteq Posted /\ Posted \subseteq Posted' \cup {e}
           /\ Len(inbox') + 1 = Len(inbox)
           /\ \A i \in 1..Len(inbox') : inbox'[i] = inbox[i + 1] /\ i + 1 \in 1..Len(inbox)
           /\ 1 \in 1..Len(inbox) /\ inbox[1] = e
<1>1. inbox # <<>> /\ inbox[1] = e /\ inbox' = Tail(inbox)
  BY DEF Handle
<1>2. inbox' \in Seq(Events) /\ Len(inbox) \in Nat /\ Len(inbox) >= 1 /\ Len(inbox') = Len(inbox) - 1
  BY <1>1, HeadTailProperties, EmptySeq
<1>3. \A i \in 1..Len(inbox') : inbox'[i] = inbox[i + 1]
  BY <1>1, HeadTailProperties
<1>4. \A i \in 1..Len(inbox') : i + 1 \in 1..Len(inbox)
  BY <1>2
<1>5. \A i \in 1..Len(inbox) : i = 1 \/ i - 1 \in 1..Len(inbox')
  BY <1>2
<1>6. \A i \in 1..Len(inbox) : i # 1 => inbox[i] = inbox'[i - 1]
  BY <1>2, <1>3, <1>5
<1>7. Posted' \subseteq Posted
  BY <1>3, <1>4 DEF Posted
<1>8. Posted \subseteq Posted' \cup {e}
  BY <1>1, <1>5, <1>6 DEF Posted
<1>9. 1 \in 1..Len(inbox) /\ Len(inbox') + 1 = Len(inbox)
  BY <1>2
<1>10. e \in Posted
  BY <1>1, <1>9 DEF Posted
<1> QED  BY <1>1, <1>2, <1>3, <1>4, <1>7, <1>8, <1>9, <1>10

LEMMA Appended ==
    ASSUME inbox \in Seq(Events), NEW evs \in Seq(Events), Post(evs)
    PROVE  /\ inbox' \in Seq(Events) /\ Len(inbox) \in Nat /\ Len(evs) \in Nat
           /\ Len(inbox') = Len(inbox) + Len(evs)
           /\ \A i \in 1..Len(inbox') : /\ i <= Len(inbox) => inbox'[i] = inbox[i]
                                        /\ i > Len(inbox) => inbox'[i] = evs[i - Len(inbox)]
           /\ Posted' = Posted \cup {evs[i] : i \in 1..Len(evs)}
<1>1. inbox' = inbox \o evs
  BY DEF Post
<1>2. /\ inbox' \in Seq(Events) /\ Len(inbox) \in Nat /\ Len(evs) \in Nat
      /\ Len(inbox') = Len(inbox) + Len(evs)
  BY <1>1, ConcatProperties, LenProperties
<1>3. \A i \in 1..Len(inbox') : /\ i <= Len(inbox) => inbox'[i] = inbox[i]
                                /\ i > Len(inbox) => inbox'[i] = evs[i - Len(inbox)]
  BY <1>1, <1>2, ConcatProperties
<1>4. \A x \in Posted' : x \in Posted \cup {evs[i] : i \in 1..Len(evs)}
  <2>1. SUFFICES ASSUME NEW k \in 1..Len(inbox')
                 PROVE  inbox'[k] \in Posted \cup {evs[i] : i \in 1..Len(evs)}
    BY DEF Posted
  <2>2. CASE k <= Len(inbox)
    BY <1>2, <1>3, <2>2 DEF Posted
  <2>3. CASE k > Len(inbox)
    <3>1. k - Len(inbox) \in 1..Len(evs)
      BY <1>2, <2>3
    <3> QED  BY <1>3, <2>3, <3>1
  <2> QED  BY <1>2, <2>2, <2>3
<1>5. Posted \subseteq Posted'
  BY <1>2, <1>3 DEF Posted
<1>6. \A k \in 1..Len(evs) : evs[k] \in Posted'
  <2>1. SUFFICES ASSUME NEW k \in 1..Len(evs) PROVE evs[k] \in Posted'
    OBVIOUS
  <2>2. k + Len(inbox) \in 1..Len(inbox') /\ k + Len(inbox) > Len(inbox)
        /\ (k + Len(inbox)) - Len(inbox) = k
    BY <1>2
  <2> QED  BY <1>3, <2>2 DEF Posted
<1> QED  BY <1>2, <1>3, <1>4, <1>5, <1>6

LEMMA PostOne ==
    ASSUME inbox \in Seq(Events), NEW e \in Events, Post(<<e>>)
    PROVE  inbox' \in Seq(Events) /\ Posted' = Posted \cup {e}
<1> DEFINE evs == <<e>>
<1>1. evs \in Seq(Events) /\ Len(evs) = 1 /\ evs[1] = e
  OBVIOUS
<1> HIDE DEF evs
<1>2. inbox' \in Seq(Events) /\ Posted' = Posted \cup {evs[i] : i \in 1..Len(evs)}
  <2>1. Post(evs)
    BY DEF evs
  <2> QED  BY <1>1, <2>1, Appended
<1> QED  BY <1>1, <1>2

LEMMA PostTwo ==
    ASSUME inbox \in Seq(Events), NEW e \in Events, NEW f \in Events, Post(<<e, f>>)
    PROVE  inbox' \in Seq(Events) /\ Posted' = Posted \cup {e, f}
<1> DEFINE evs == <<e, f>>
<1>1. evs \in Seq(Events) /\ Len(evs) = 2 /\ evs[1] = e /\ evs[2] = f
  OBVIOUS
<1> HIDE DEF evs
<1>2. inbox' \in Seq(Events) /\ Posted' = Posted \cup {evs[i] : i \in 1..Len(evs)}
  <2>1. Post(evs)
    BY DEF evs
  <2> QED  BY <1>1, <2>1, Appended
<1>3. \A i \in 1..2 : i = 1 \/ i = 2
  OBVIOUS
<1> QED  BY <1>1, <1>2, <1>3

\* A worker that may have one thing more to say says it first.
LEMMA Reports ==
    ASSUME NEW e \in Events, NEW f \in Events
    PROVE  /\ <<>> \o <<f>> = <<f>> /\ <<e>> \o <<f>> = <<e, f>>
<1>1. <<>> \o <<f>> = <<f>>
  BY ConcatEmptySeq
<1> DEFINE s == <<e>> \o <<f>>
<1>2. <<e>> \in Seq(Events) /\ <<f>> \in Seq(Events) /\ Len(<<e>>) = 1 /\ Len(<<f>>) = 1
      /\ <<e>>[1] = e /\ <<f>>[1] = f
  OBVIOUS
<1>3. s \in Seq(Events) /\ Len(s) = 2 /\ s[1] = e /\ s[2] = f
  BY <1>2, ConcatProperties
<1>4. s = <<e, f>>
  <2> HIDE DEF s
  <2>1. \A i \in 1..Len(s) : i = 1 \/ i = 2
    BY <1>3
  <2>2. \A i \in 1..Len(s) : s[i] = <<e, f>>[i]
    BY <1>3, <2>1
  <2>3. <<e, f>> \in Seq(Events) /\ Len(<<e, f>>) = 2
    OBVIOUS
  <2> QED  BY <1>3, <2>2, <2>3, SeqEqual
<1> QED  BY <1>1, <1>4

LEMMA PostNone ==
    ASSUME inbox \in Seq(Events), Post(<<>>)
    PROVE  inbox' = inbox
BY ConcatEmptySeq DEF Post

-----------------------------------------------------------------------------
(* Type correctness.                                                       *)

LEMMA TypeStep == ASSUME TypeOK, [Next]_vars PROVE TypeOK'
<1> USE PcSessionAssumption DEF TypeOK
<1>0. Ble \subseteq T /\ Serial \subseteq T
  BY DEF T
<1>1. ASSUME UNCHANGED vars PROVE TypeOK'
  BY <1>1 DEF vars, main, timers
<1>2. ASSUME NEW t \in T, ConnectBle(t) PROVE /\ transport' \in T /\ link' \in [T -> LinkStates]
                                               /\ work' \subseteq Jobs /\ lastBle' \in BOOLEAN
                                               /\ btn' \in BOOLEAN /\ crossed' \in BOOLEAN
  BY <1>2, EventTypes DEF ConnectBle, LinkStates
<1>3. ASSUME DoDisconnect
      PROVE  /\ transport' = None /\ work' \subseteq Jobs /\ crossed' \in BOOLEAN
             /\ conn' \in BOOLEAN /\ ui' \in BOOLEAN /\ autodisc' \in BOOLEAN
             /\ polling' \in BOOLEAN /\ scanning' \in BOOLEAN
             /\ UNCHANGED <<btn, lastBle, link, inbox, scans>>
  BY <1>3, EventTypes DEF DoDisconnect, CleanUp, SessionEnds
<1>4. EndShots \subseteq {"scan", "off"} /\ RetryAfterEnd \subseteq {"scan", "off"}
      /\ RetryAfterFail \subseteq {"scan", "off"}
  BY DEF EndShots, RetryAfterEnd, RetryAfterFail
<1>5. CASE User
  <2>1. ASSUME NEW t \in Ble, ClickBle(t) PROVE TypeOK'
    BY <1>0, <1>2, <2>1 DEF ClickBle, timers
  <2>2. ASSUME NEW t \in Serial, ClickSerial(t) PROVE TypeOK'
    BY <1>0, <2>2, EventTypes DEF ClickSerial, SessionBegins, LinkStates
  <2>3. CASE ClickDisconnect
    BY <1>3, <1>4, <2>3 DEF ClickDisconnect
  <2>4. CASE ClickRestart
    BY <2>4 DEF ClickRestart, main
  <2>5. CASE ClickRefresh
    BY <2>5, EventTypes DEF ClickRefresh, main
  <2>6. CASE DialogExtend
    BY <2>6 DEF DialogExtend, main
  <2>7. CASE DialogDisconnect
    BY <1>3, <1>4, <2>7 DEF DialogDisconnect
  <2> QED  BY <1>5, <2>1, <2>2, <2>3, <2>4, <2>5, <2>6, <2>7 DEF User
<1>6. CASE Timer
  <2>1. CASE RestartShot
    BY <1>3, <1>4, <2>1 DEF RestartShot
  <2>2. CASE AutodiscTimeout
    BY <2>2 DEF AutodiscTimeout, main
  <2>3. CASE ScanShot
    <3>1. scans \in 0..MaxScans /\ scans < MaxScans => scans + 1 \in 0..MaxScans
      OBVIOUS
    <3> QED  BY <2>3, <3>1 DEF ScanShot, main
  <2> QED  BY <1>6, <2>1, <2>2, <2>3 DEF Timer
<1>7. CASE Workers
  <2>1. ASSUME NEW w, NEW evs, WorkerEnds(w, evs), inbox' \in Seq(Events),
               link' \in [T -> LinkStates]
        PROVE  TypeOK'
    BY <2>1 DEF WorkerEnds, main, timers
  <2>2. ASSUME NEW t \in T, Connects(t) PROVE TypeOK'
    <3>1. inbox' \in Seq(Events)
      BY <2>2, EventTypes, PostTwo DEF Connects, WorkerEnds
    <3> QED  BY <2>1, <2>2, <3>1 DEF Connects, LinkStates
  <2>3. ASSUME NEW t \in T, ConnectFails(t) PROVE TypeOK'
    <3>1. PICK stood \in BOOLEAN :
             WorkerEnds(Job("connect", t), (IF stood THEN <<Event("down", t)>> ELSE <<>>)
                                              \o <<Event("fail", t)>>)
      BY <2>3 DEF ConnectFails
    <3>2. CASE stood
      <4>1. Post(<<Event("down", t), Event("fail", t)>>)
        BY ZenonT(40), <3>1, <3>2, EventTypes, Reports DEF WorkerEnds
      <4> QED  BY <2>1, <2>3, <3>1, <4>1, EventTypes, PostTwo DEF ConnectFails, LinkStates
    <3>3. CASE ~stood
      <4>1. Post(<<Event("fail", t)>>)
        BY <3>1, <3>3, EventTypes, Reports DEF WorkerEnds
      <4> QED  BY <2>1, <2>3, <3>1, <4>1, EventTypes, PostOne DEF ConnectFails, LinkStates
    <3> QED  BY <3>2, <3>3
  <2>4. ASSUME NEW t \in T, ConnectTimesOut(t) PROVE TypeOK'
    <3>1. inbox' \in Seq(Events)
      BY <2>4, EventTypes, PostOne DEF ConnectTimesOut, WorkerEnds
    <3> QED  BY <2>1, <2>4, <3>1 DEF ConnectTimesOut, LinkStates
  <2>5. ASSUME NEW t \in T, LateResult(t) PROVE TypeOK'
    BY <2>5 DEF LateResult, LinkStates, main, timers
  <2>6. ASSUME NEW t \in T, AutoConnects(t) PROVE TypeOK'
    <3>1. inbox' \in Seq(Events)
      BY <2>6, EventTypes, PostOne DEF AutoConnects, WorkerEnds
    <3> QED  BY <2>1, <2>6, <3>1 DEF AutoConnects, LinkStates
  <2>7. ASSUME NEW t \in T, CleanUpEnds(t) PROVE TypeOK'
    <3>1. CASE t \in Ble /\ link[t] = "open"
      <4>1. Post(<<Event("down", t), Event("down", t)>>)
        BY <2>7, <3>1, EventTypes, Reports DEF CleanUpEnds, WorkerEnds
      <4> QED  BY <2>1, <2>7, <4>1, EventTypes, PostTwo DEF CleanUpEnds, LinkStates
    <3>2. CASE ~(t \in Ble /\ link[t] = "open")
      <4>1. Post(<<Event("down", t)>>)
        BY <2>7, <3>2, EventTypes, Reports DEF CleanUpEnds, WorkerEnds
      <4> QED  BY <2>1, <2>7, <4>1, EventTypes, PostOne DEF CleanUpEnds, LinkStates
    <3> QED  BY <3>1, <3>2
  <2>8. ASSUME NEW t \in T, StopEnds(t) PROVE TypeOK'
    <3>1. inbox' = inbox
      BY <2>8, PostNone DEF StopEnds, WorkerEnds
    <3>2. link' \in [T -> LinkStates]
      BY <2>8 DEF StopEnds, LinkStates
    <3> QED  BY <2>1, <2>8, <3>1, <3>2 DEF StopEnds
  <2>9. CASE InitEnds
    <3>1. CASE transport = None
      <4>1. inbox' = inbox
        BY <2>9, <3>1, PostNone DEF InitEnds, WorkerEnds
      <4> QED  BY <2>1, <2>9, <4>1 DEF InitEnds
    <3>2. CASE transport # None
      <4>1. Post(<<Event("init", None)>>)
        BY <2>9, <3>2 DEF InitEnds, WorkerEnds
      <4> QED  BY <2>1, <2>9, <4>1, EventTypes, PostOne DEF InitEnds
    <3> QED  BY <3>1, <3>2
  <2>10. CASE ScanEnds
    <3>1. PICK e \in {"found", "none", "scan_error"} : Post(<<Event(e, None)>>)
      BY <2>10 DEF ScanEnds
    <3>2. inbox' \in Seq(Events)
      BY <3>1, EventTypes, PostOne
    <3> QED  BY <2>10, <3>2 DEF ScanEnds, main, timers
  <2> QED  BY <1>7, <2>2, <2>3, <2>4, <2>5, <2>6, <2>7, <2>8, <2>9, <2>10 DEF Workers
<1>8. CASE Main
  <2>0. ASSUME NEW e, Handle(e) PROVE inbox' \in Seq(Events)
    BY <2>0, Handled
  <2>1. ASSUME NEW t \in T, OnUp(t) PROVE TypeOK'
    BY <2>0, <2>1, EventTypes DEF OnUp, SessionBegins
  <2>2. ASSUME NEW t \in T, OnDown(t) PROVE TypeOK'
    <3>1. StopLoop(transport) \subseteq Jobs
      BY <1>0, EventTypes DEF StopLoop
    <3> QED  BY <1>4, <2>0, <2>2, <3>1 DEF OnDown, SessionEnds
  <2>3. ASSUME NEW t \in T, OnConnected(t) PROVE TypeOK'
    BY <2>0, <2>3 DEF OnConnected, timers
  <2>4. ASSUME NEW t \in T, OnConnectFailed(t) PROVE TypeOK'
    BY <1>4, <2>0, <2>4 DEF OnConnectFailed
  <2>5. ASSUME NEW t \in T, OnAutoConnected(t) PROVE TypeOK'
    BY <2>0, <2>5, EventTypes DEF OnAutoConnected, SessionBegins
  <2>6. ASSUME NEW t \in T, OnAutoFailed(t) PROVE TypeOK'
    BY <2>0, <2>6 DEF OnAutoFailed, timers
  <2>7. CASE OnInitDone
    BY <2>0, <2>7 DEF OnInitDone, main
  <2>8. CASE OnScanIgnored
    BY <2>0, <2>8 DEF OnScanIgnored, main, timers
  <2>9. CASE OnScanEmpty
    BY <1>4, <2>0, <2>9 DEF OnScanEmpty, main
  <2>10. CASE OnScanError
    BY <2>0, <2>10 DEF OnScanError, main, timers
  <2>11. ASSUME NEW t \in Ble, OnScanFound(t) PROVE TypeOK'
    BY <1>0, <1>2, <2>0, <2>11 DEF OnScanFound, timers
  <2> QED  BY <1>8, <2>1, <2>2, <2>3, <2>4, <2>5, <2>6, <2>7, <2>8, <2>9, <2>10, <2>11 DEF Main
<1>9. ASSUME NEW t \in T, Drop(t) PROVE TypeOK'
  <2>1. CASE t \in Ble /\ link[t] # "orphan"
    <3>1. inbox' \in Seq(Events)
      BY <1>9, <2>1, EventTypes, PostOne DEF Drop
    <3> QED  BY <1>9, <3>1 DEF Drop, LinkStates, main, timers
  <2>2. CASE ~(t \in Ble /\ link[t] # "orphan")
    BY <1>9, <2>2 DEF Drop, Post, LinkStates, main, timers
  <2> QED  BY <2>1, <2>2
<1> QED  BY <1>1, <1>5, <1>6, <1>7, <1>8, <1>9 DEF Next

LEMMA InitTypes == Init => TypeOK
<1> SUFFICES ASSUME Init PROVE TypeOK
  OBVIOUS
<1>1. link \in [T -> LinkStates]
  BY DEF Init, LinkStates
<1>2. work \subseteq Jobs
  BY EventTypes DEF Init, T
<1>3. inbox \in Seq(Events) /\ scans \in 0..MaxScans
  BY PcSessionAssumption, EmptySeq DEF Init
<1>4. btn \in BOOLEAN /\ lastBle \in BOOLEAN /\ shots \subseteq {"scan", "off"}
  BY DEF Init
<1> QED  BY <1>1, <1>2, <1>3, <1>4 DEF Init, TypeOK

\* The state of the program is what its variables can hold, with any number of
\* transport objects.
THEOREM TypeCorrect == Spec => []TypeOK
<1>1. TypeOK /\ [Next]_vars => TypeOK'
  BY TypeStep
<1> QED  BY <1>1, InitTypes, PTL DEF Spec

-----------------------------------------------------------------------------
(* The inductive invariant.  One connection is under way at a time.        *)

\* What is left of the connection of t: a worker, a signal or the link.
Reported(t) == \E e \in Posted : e.t = t
Works(t)    == \E w \in work : w.t = t /\ w.job # "stop"
Left(t)     == transport = t \/ link[t] \notin Forgotten \/ Reported(t) \/ Works(t)
OneLeft     == \A t, u \in T : Left(t) /\ Left(u) => t = u

InSession == conn => transport \in T /\ link[transport] \in {"open", "closed"}

\* Where the program is while a worker of t runs.
WorkersOf(t) ==
    /\ Job("connect", t) \in work =>
           transport = t /\ ~conn /\ link[t] = "opening" /\ ~Reported(t)
    /\ Job("auto", t) \in work =>
           transport = None /\ ~conn /\ link[t] = "opening" /\ ~Reported(t)
    /\ Job("cleanup", t) \in work =>
           transport = None /\ ~conn /\ link[t] \in {"open", "closed"}
    /\ Job("stop", t) \in work => link[t] = "closed"
    /\ link[t] # "orphan"

\* Where it is while an event of t waits.
EventsOf(t) ==
    /\ Event("up", t) \in Posted =>
           /\ transport = t /\ ~conn /\ link[t] \in {"open", "closed"}
           /\ Event("fail", t) \notin Posted /\ Event("auto_fail", t) \notin Posted
    /\ Event("auto_ok", t) \in Posted =>
           /\ transport = None /\ ~conn /\ link[t] \in {"open", "closed"}
           /\ Event("fail", t) \notin Posted /\ Event("auto_fail", t) \notin Posted
           /\ Job("cleanup", t) \notin work
    /\ Event("fail", t) \in Posted => ~conn /\ link[t] \in {"closed", "late", "late_open"}
    /\ Event("auto_fail", t) \in Posted => ~conn
    /\ Event("down", t) \in Posted => link[t] = "closed"

\* A connection is reported once.
Once == \A i, j \in 1..Len(inbox) :
            inbox[i] = inbox[j] /\ inbox[i].ev \in {"up", "auto_ok"} => i = j

Orderly == /\ OneLeft /\ InSession /\ Once /\ LinksOwned /\ UiShows
           /\ \A t \in T : WorkersOf(t) /\ EventsOf(t)
SessionInv == ~crossed => Orderly
-----------------------------------------------------------------------------
(* Steps of the invariant.                                                 *)

LEMMA OnceHandled ==
    ASSUME inbox \in Seq(Events), Once, NEW e, Handle(e)
    PROVE  Once' /\ (e.ev \in {"up", "auto_ok"} => e \notin Posted')
<1>1. /\ \A i \in 1..Len(inbox') : inbox'[i] = inbox[i + 1] /\ i + 1 \in 1..Len(inbox)
      /\ 1 \in 1..Len(inbox) /\ inbox[1] = e
  BY Handled
<1>2. Once'
  <2>1. SUFFICES ASSUME NEW i \in 1..Len(inbox'), NEW j \in 1..Len(inbox'),
                        inbox'[i] = inbox'[j], inbox'[i].ev \in {"up", "auto_ok"}
                 PROVE  i = j
    BY DEF Once
  <2>2. i + 1 = j + 1
    BY <1>1, <2>1 DEF Once
  <2> QED  BY <2>2
<1>3. ASSUME e.ev \in {"up", "auto_ok"}, NEW i \in 1..Len(inbox'), inbox'[i] = e PROVE FALSE
  <2>1. i + 1 = 1
    BY <1>1, <1>3 DEF Once
  <2> QED  BY <2>1
<1> QED  BY <1>2, <1>3 DEF Posted

LEMMA OncePosted ==
    ASSUME inbox \in Seq(Events), Once, NEW evs \in Seq(Events), Post(evs),
           \A k \in 1..Len(evs) : evs[k].ev \in {"up", "auto_ok"} => k = 1 /\ evs[k] \notin Posted
    PROVE  Once'
<1>1. /\ Len(inbox) \in Nat /\ Len(evs) \in Nat /\ Len(inbox') = Len(inbox) + Len(evs)
      /\ \A i \in 1..Len(inbox') : /\ i <= Len(inbox) => inbox'[i] = inbox[i]
                                   /\ i > Len(inbox) => inbox'[i] = evs[i - Len(inbox)]
  BY Appended
<1>2. \A k \in 1..Len(inbox) : inbox[k] \in Posted
  BY DEF Posted
<1>3. \A i \in 1..Len(inbox') : /\ i <= Len(inbox) => i \in 1..Len(inbox)
                                /\ i > Len(inbox) => i - Len(inbox) \in 1..Len(evs)
  BY <1>1
<1>4. ASSUME NEW i \in 1..Len(inbox'), i > Len(inbox), inbox'[i].ev \in {"up", "auto_ok"}
      PROVE  i = Len(inbox) + 1 /\ inbox'[i] \notin Posted
  <2>1. i - Len(inbox) = 1 /\ inbox'[i] \notin Posted
    BY <1>1, <1>3, <1>4
  <2> QED  BY <1>1, <2>1
<1>5. SUFFICES ASSUME NEW i \in 1..Len(inbox'), NEW j \in 1..Len(inbox'),
                      inbox'[i] = inbox'[j], inbox'[i].ev \in {"up", "auto_ok"}
               PROVE  i = j
  BY DEF Once
<1>6. CASE i <= Len(inbox) /\ j <= Len(inbox)
  BY <1>1, <1>3, <1>5, <1>6 DEF Once
<1>7. CASE i > Len(inbox) /\ j > Len(inbox)
  BY <1>4, <1>5, <1>7
<1>8. CASE i <= Len(inbox) /\ j > Len(inbox)
  BY <1>1, <1>2, <1>3, <1>4, <1>5, <1>8
<1>9. CASE i > Len(inbox) /\ j <= Len(inbox)
  BY <1>1, <1>2, <1>3, <1>4, <1>5, <1>9
<1> QED  BY <1>1, <1>6, <1>7, <1>8, <1>9

\* A step about the object t leaves nothing of another one.
LEMMA Others ==
    ASSUME NEW t \in T, \A u \in T : WorkersOf(u), \A u \in T : Left(u) => u = t,
           \A u \in T : u # t =>
              /\ link'[u] = link[u] /\ transport' # u
              /\ \A e \in Posted' : e.t = u => e \in Posted
              /\ \A w \in work' : w.t = u => w \in work
    PROVE  /\ OneLeft'
           /\ \A u \in T : u # t => WorkersOf(u)' /\ EventsOf(u)' /\ link'[u] # "open"
<1>1. ASSUME NEW u \in T, u # t
      PROVE  ~Left(u)' /\ WorkersOf(u)' /\ EventsOf(u)' /\ link'[u] # "open"
  <2>1. ~Left(u)
    BY <1>1
  <2>2. ~Reported(u)' /\ ~Works(u)'
    BY <1>1, <2>1 DEF Left, Reported, Works
  <2>3. transport' # u /\ link'[u] \in Forgotten
    BY <1>1, <2>1 DEF Left
  <2>4. \A k : Event(k, u) \notin Posted'
    BY <2>2, EventFields DEF Reported
  <2>5. \A k : k # "stop" => Job(k, u) \notin work'
    BY <2>2, EventFields DEF Works
  <2>6. link'[u] # "orphan" /\ (Job("stop", u) \in work' => link'[u] = "closed")
    BY <1>1, EventFields DEF WorkersOf
  <2> QED  BY <2>2, <2>3, <2>4, <2>5, <2>6 DEF Left, WorkersOf, EventsOf, Forgotten
<1> QED  BY <1>1 DEF OneLeft

\* A step that is about no object.
LEMMA Keeps ==
    ASSUME Orderly, None \notin T, UNCHANGED <<conn, transport, link>>, ui' = conn', Once',
           \A e \in Posted' : e.t \in T => e \in Posted,
           \A e \in Posted  : e.ev = "auto_ok" => e \in Posted',
           \A w \in work'   : w.t \in T => w \in work,
           \A w \in work    : w.job = "cleanup" => w \in work'
    PROVE  Orderly'
<1>1. \A u \in T : Left(u)' => Left(u)
  BY DEF Left, Reported, Works
<1>2. OneLeft'
  BY <1>1 DEF Orderly, OneLeft
<1>3. ASSUME NEW u \in T PROVE WorkersOf(u)' /\ EventsOf(u)'
  <2>1. \A k : Job(k, u) \in work' => Job(k, u) \in work
    BY EventFields
  <2>2. \A k : Event(k, u) \in Posted' => Event(k, u) \in Posted
    BY EventFields
  <2>3. Reported(u)' => Reported(u)
    BY DEF Reported
  <2> QED  BY <2>1, <2>2, <2>3 DEF Orderly, WorkersOf, EventsOf
<1>4. LinksOwned'
  <2>1. \A u \in T : /\ Job("cleanup", u) \in work => Job("cleanup", u) \in work'
                     /\ Event("auto_ok", u) \in Posted => Event("auto_ok", u) \in Posted'
    BY EventFields
  <2> QED  BY <2>1 DEF Orderly, LinksOwned
<1>5. InSession' /\ UiShows'
  BY DEF Orderly, InSession, UiShows
<1> QED  BY <1>2, <1>3, <1>4, <1>5 DEF Orderly
\* A step about the object t, the only one of which something was left.
LEMMA About ==
    ASSUME NEW t \in T, \A u \in T : WorkersOf(u), \A u \in T : Left(u) => u = t,
           \A u \in T : u # t =>
              /\ link'[u] = link[u] /\ transport' # u
              /\ \A e \in Posted' : e.t = u => e \in Posted
              /\ \A w \in work' : w.t = u => w \in work,
           WorkersOf(t)', EventsOf(t)', InSession', Once', UiShows',
           link'[t] = "open" =>
              t = transport' \/ Job("cleanup", t) \in work' \/ Event("auto_ok", t) \in Posted'
    PROVE  Orderly'
<1>1. /\ OneLeft'
      /\ \A u \in T : u # t => WorkersOf(u)' /\ EventsOf(u)' /\ link'[u] # "open"
  BY Others
<1>2. LinksOwned'
  BY <1>1 DEF LinksOwned
<1> QED  BY <1>1, <1>2 DEF Orderly

\* An attempt over Bluetooth begins where nothing is under way.
LEMMA BeginsAlone ==
    ASSUME TypeOK, Orderly, NEW t \in T, Unused(t), Quiet,
           transport' = t, UNCHANGED inbox \/ Posted' \subseteq Posted, Once'
    PROVE  /\ \A u \in T : ~Left(u)
           /\ \A k : Job(k, t) \notin work /\ Event(k, t) \notin Posted'
           /\ ~Reported(t)' /\ Posted' \subseteq Posted
<1>1. Posted' \subseteq Posted
  BY DEF Posted
<1>2. ASSUME NEW w \in work, w.job # "stop" PROVE w.t = None
  <2>1. w \in Jobs /\ w.job = "init"
    BY <1>2 DEF TypeOK, Quiet
  <2> QED  BY <2>1 DEF Jobs
<1>3. \A u \in T : ~Left(u)
  BY <1>2, PcSessionAssumption DEF Quiet, Left, Reported, Works
<1>4. \A k : Job(k, t) \notin work /\ Event(k, t) \notin Posted
  BY EventFields DEF Unused
<1>5. ~Reported(t)
  BY <1>3 DEF Left
<1> QED  BY <1>1, <1>3, <1>4, <1>5 DEF Reported

LEMMA ConnectStep ==
    ASSUME TypeOK, Orderly, NEW t \in T, ConnectBle(t), ~crossed', ~conn,
           UNCHANGED <<conn, ui>>, UNCHANGED inbox \/ Posted' \subseteq Posted, Once'
    PROVE  Orderly'
<1>1. Quiet /\ Unused(t) /\ transport' = t
  BY DEF ConnectBle
<1>2. /\ \A u \in T : ~Left(u)
      /\ \A k : Job(k, t) \notin work /\ Event(k, t) \notin Posted'
      /\ ~Reported(t)' /\ Posted' \subseteq Posted
  BY <1>1, BeginsAlone
<1>3. link'[t] = "opening" /\ \A u \in T : u # t => link'[u] = link[u]
  BY DEF ConnectBle, TypeOK
<1>4. work' = work \cup {Job("connect", t)}
  BY DEF ConnectBle
<1>5. \A k : Job(k, t) \in work' => k = "connect"
  BY <1>2, <1>4, EventFields
<1>6. \A u \in T : u # t => \A w \in work' : w.t = u => w \in work
  BY <1>4, EventFields
<1>7. WorkersOf(t)' /\ EventsOf(t)' /\ InSession' /\ UiShows'
  BY <1>1, <1>2, <1>3, <1>5 DEF WorkersOf, EventsOf, InSession, UiShows, Orderly
<1> QED  BY <1>1, <1>2, <1>3, <1>6, <1>7, About DEF Orderly

LEMMA SerialStep ==
    ASSUME TypeOK, Orderly, NEW t \in Serial, ClickSerial(t), ~crossed'
    PROVE  Orderly'
<1>0. t \in T /\ None \notin T
  BY PcSessionAssumption DEF T
<1>1. Quiet /\ Unused(t) /\ transport' = t /\ UNCHANGED inbox /\ conn' /\ ui' = conn'
  BY DEF ClickSerial, SessionBegins
<1>1a. Once'
  BY <1>1 DEF Orderly, Once
<1>2. /\ \A u \in T : ~Left(u)
      /\ \A k : Job(k, t) \notin work /\ Event(k, t) \notin Posted'
      /\ ~Reported(t)' /\ Posted' \subseteq Posted
  BY <1>0, <1>1, <1>1a, BeginsAlone
<1>3. link'[t] = "open" /\ \A u \in T : u # t => link'[u] = link[u]
  BY <1>0 DEF ClickSerial, TypeOK
<1>4. work' = work \cup {Job("init", None)}
  BY DEF ClickSerial
<1>5. \A k : Job(k, t) \notin work'
  BY <1>0, <1>2, <1>4, EventFields
<1>6. \A u \in T : u # t => \A w \in work' : w.t = u => w \in work
  BY <1>0, <1>4, EventFields
<1>7. WorkersOf(t)' /\ EventsOf(t)' /\ InSession' /\ UiShows'
  BY <1>0, <1>1, <1>2, <1>3, <1>5 DEF WorkersOf, EventsOf, InSession, UiShows
<1> QED  BY <1>0, <1>1, <1>1a, <1>2, <1>3, <1>6, <1>7, About DEF Orderly

LEMMA DisconnectStep ==
    ASSUME TypeOK, Orderly, DoDisconnect, ~crossed'
    PROVE  Orderly'
<1>0. None \notin T /\ UNCHANGED inbox /\ Once' /\ Posted' = Posted
  BY PcSessionAssumption DEF DoDisconnect, Orderly, Once, Posted
<1>1. CASE ~conn
  <2>1. UNCHANGED <<conn, transport, link, work>> /\ ui' = conn'
    BY <1>1 DEF DoDisconnect, CleanUp, Orderly, UiShows
  <2> QED  BY <1>0, <2>1, Keeps
<1>2. CASE conn
  <2> DEFINE t == transport
  <2>1. t \in T /\ link[t] \in {"open", "closed"} /\ Left(t)
    BY <1>2 DEF Orderly, InSession, Left
  <2>2. PICK u \in T : u = transport
    BY <2>1
  <2>3. /\ transport' = None /\ work' = work \cup {Job("cleanup", u)}
        /\ UNCHANGED link /\ conn' = FALSE /\ ui' = FALSE
    BY <1>0, <1>2, <2>1, <2>2 DEF DoDisconnect, CleanUp, SessionEnds
  <2>4. \A v \in T : Left(v) => v = u
    BY <2>1, <2>2 DEF Orderly, OneLeft
  <2>5. \A v \in T : v # u => \A w \in work' : w.t = v => w \in work
    BY <2>3, EventFields
  <2>6. \A k : k # "cleanup" => (Job(k, u) \in work' <=> Job(k, u) \in work)
    BY <2>3, EventFields
  <2>7. WorkersOf(u)' /\ EventsOf(u)'
    <3>1. WorkersOf(u) /\ EventsOf(u)
      BY DEF Orderly
    <3> QED  BY <1>0, <1>2, <2>1, <2>2, <2>3, <2>6, <3>1 DEF WorkersOf, EventsOf
  <2>8. InSession' /\ UiShows' /\ Job("cleanup", u) \in work'
    BY <2>3 DEF InSession, UiShows
  <2> QED  BY <1>0, <2>3, <2>4, <2>5, <2>7, <2>8, About DEF Orderly
<1> QED  BY <1>1, <1>2

-----------------------------------------------------------------------------
(* The steps of the worker threads and of the air.                         *)

\* A worker about t ends with at most two events of t.
LEMMA WorkerStep ==
    ASSUME TypeOK, Orderly, NEW t \in T, NEW w, w.t = t, NEW evs, WorkerEnds(w, evs),
           Left(t), \A u \in T : u # t => link'[u] = link[u],
           \A e \in Posted' : e \in Posted \/ e.t = t,
           WorkersOf(t)', EventsOf(t)', Once',
           link'[t] = "open" =>
              t = transport \/ Job("cleanup", t) \in work' \/ Event("auto_ok", t) \in Posted',
           transport # t => transport = None, transport = t => ~conn
    PROVE  Orderly'
<1>1. /\ work' \subseteq work /\ transport' = transport /\ conn' = conn /\ ui' = ui
  BY DEF WorkerEnds, main
<1>2. \A u \in T : Left(u) => u = t
  BY DEF Orderly, OneLeft
<1>3. InSession' /\ UiShows'
  BY <1>1, PcSessionAssumption DEF Orderly, InSession, UiShows
<1>4. \A u \in T : u # t => /\ link'[u] = link[u] /\ transport' # u
                            /\ \A e \in Posted' : e.t = u => e \in Posted
                            /\ \A x \in work' : x.t = u => x \in work
  BY <1>1, PcSessionAssumption
<1> QED  BY <1>1, <1>2, <1>3, <1>4, About DEF Orderly

LEMMA ConnectsStep ==
    ASSUME TypeOK, Orderly, NEW t \in T, Connects(t)
    PROVE  Orderly'
<1> DEFINE w == Job("connect", t)
<1>1. /\ link[t] = "opening" /\ link'[t] = "open" /\ \A u \in T : u # t => link'[u] = link[u]
      /\ w \in work /\ work' = work \ {w} /\ UNCHANGED <<conn, transport>>
      /\ WorkerEnds(w, <<Event("up", t), Event("ok", t)>>)
      /\ Post(<<Event("up", t), Event("ok", t)>>)
  BY DEF Connects, TypeOK, WorkerEnds, main
<1>2. transport = t /\ ~conn /\ ~Reported(t)
  BY <1>1 DEF Orderly, WorkersOf
<1>3. Posted' = Posted \cup {Event("up", t), Event("ok", t)}
  BY <1>1, EventTypes, PostTwo DEF TypeOK
<1>4. \A k : Event(k, t) \in Posted' => k \in {"up", "ok"}
  BY <1>2, <1>3, EventFields DEF Reported
<1>5. Job("connect", t) \notin work' /\ \A k : Job(k, t) \in work' => Job(k, t) \in work
  BY <1>1
<1>6. WorkersOf(t)
  BY DEF Orderly
<1>7. WorkersOf(t)' /\ EventsOf(t)'
  BY <1>1, <1>2, <1>4, <1>5, <1>6, PcSessionAssumption DEF WorkersOf, EventsOf
<1>8. Once'
  <2> DEFINE evs == <<Event("up", t), Event("ok", t)>>
  <2>1. /\ evs \in Seq(Events) /\ Len(evs) = 2
        /\ evs[1] = Event("up", t) /\ evs[2] = Event("ok", t)
    BY EventTypes
  <2>2. evs[1].ev = "up" /\ evs[2].ev = "ok"
    BY <2>1, EventFields
  <2>3. evs[1] \notin Posted
    BY <1>2, <2>1, EventFields DEF Reported
  <2>4. Post(evs)
    BY <1>1
  <2>5. \A k \in 1..2 : k = 1 \/ k = 2
    OBVIOUS
  <2> HIDE DEF evs
  <2>6. \A k \in 1..Len(evs) : evs[k].ev \in {"up", "auto_ok"} => k = 1 /\ evs[k] \notin Posted
    BY <2>1, <2>2, <2>3, <2>5
  <2> QED  BY <2>1, <2>4, <2>6, OncePosted DEF Orderly, TypeOK
<1>9. Left(t) /\ w.t = t
  BY <1>2, EventFields DEF Left
<1>10. \A e \in Posted' : e \in Posted \/ e.t = t
  BY <1>3, EventFields
<1> HIDE DEF w
<1> QED  BY <1>1, <1>2, <1>7, <1>8, <1>9, <1>10, WorkerStep

\* One event that reports the end of something.
LEMMA OnceEnded ==
    ASSUME TypeOK, Orderly, NEW e \in Events, Post(<<e>>), e.ev \notin {"up", "auto_ok"}
    PROVE  Once'
<1> DEFINE evs == <<e>>
<1>1. evs \in Seq(Events) /\ Len(evs) = 1 /\ evs[1] = e /\ Post(evs)
  OBVIOUS
<1> HIDE DEF evs
<1>2. \A k \in 1..Len(evs) : evs[k].ev \in {"up", "auto_ok"} => k = 1 /\ evs[k] \notin Posted
  BY <1>1
<1> QED  BY <1>1, <1>2, OncePosted DEF Orderly, TypeOK

LEMMA OnceEndedTwice ==
    ASSUME TypeOK, Orderly, NEW e \in Events, NEW f \in Events, Post(<<e, f>>),
           e.ev \notin {"up", "auto_ok"}, f.ev \notin {"up", "auto_ok"}
    PROVE  Once'
<1> DEFINE evs == <<e, f>>
<1>1. evs \in Seq(Events) /\ Len(evs) = 2 /\ evs[1] = e /\ evs[2] = f /\ Post(evs)
  OBVIOUS
<1> HIDE DEF evs
<1>2. \A k \in 1..2 : k = 1 \/ k = 2
  OBVIOUS
<1>3. \A k \in 1..Len(evs) : evs[k].ev \in {"up", "auto_ok"} => k = 1 /\ evs[k] \notin Posted
  BY <1>1, <1>2
<1> QED  BY <1>1, <1>3, OncePosted DEF Orderly, TypeOK

LEMMA FailsStep ==
    ASSUME TypeOK, Orderly, NEW t \in T, ConnectFails(t) \/ ConnectTimesOut(t)
    PROVE  Orderly'
<1> DEFINE w == Job("connect", t)
<1>1. /\ w \in work /\ work' = work \ {w} /\ UNCHANGED <<conn, transport>>
      /\ \A u \in T : u # t => link'[u] = link[u]
      /\ link'[t] \in {"late", "closed"} /\ (ConnectTimesOut(t) \/ link'[t] = "closed")
  BY DEF ConnectFails, ConnectTimesOut, TypeOK, WorkerEnds, main
<1>2. transport = t /\ ~conn /\ ~Reported(t) /\ link[t] = "opening"
  BY <1>1 DEF Orderly, WorkersOf
<1>3. PICK evs : WorkerEnds(w, evs) /\ (\/ evs = <<Event("fail", t)>>
                                        \/ /\ evs = <<Event("down", t), Event("fail", t)>>
                                           /\ link'[t] = "closed")
  <2>1. CASE ConnectTimesOut(t)
    BY <2>1 DEF ConnectTimesOut
  <2>2. CASE ConnectFails(t)
    <3>1. PICK stood \in BOOLEAN :
             WorkerEnds(w, (IF stood THEN <<Event("down", t)>> ELSE <<>>)
                              \o <<Event("fail", t)>>)
      BY <2>2 DEF ConnectFails
    <3>2. link'[t] = "closed"
      BY <2>2 DEF ConnectFails, TypeOK
    <3>3. CASE stood
      <4>1. WorkerEnds(w, <<Event("down", t), Event("fail", t)>>)
        BY <3>1, <3>3, EventTypes, Reports
      <4> QED  BY <3>2, <4>1
    <3>4. CASE ~stood
      <4>1. WorkerEnds(w, <<Event("fail", t)>>)
        BY <3>1, <3>4, EventTypes, Reports
      <4> QED  BY <4>1
    <3> QED  BY <3>3, <3>4
  <2> QED  BY <2>1, <2>2
<1>4. /\ Once' /\ Posted' \subseteq Posted \cup {Event("down", t), Event("fail", t)}
      /\ Event("down", t) \in Posted' => link'[t] = "closed" \/ Event("down", t) \in Posted
  <2>0. Event("down", t) # Event("fail", t) /\ Event("down", t).ev = "down"
        /\ Event("fail", t).ev = "fail"
    BY EventFields
  <2>1. CASE evs = <<Event("fail", t)>>
    <3>1. Post(<<Event("fail", t)>>)
      BY <1>3, <2>1 DEF WorkerEnds
    <3> QED  BY <2>0, <3>1, EventTypes, PostOne, OnceEnded DEF TypeOK
  <2>2. CASE evs = <<Event("down", t), Event("fail", t)>> /\ link'[t] = "closed"
    <3>1. Post(<<Event("down", t), Event("fail", t)>>)
      BY <1>3, <2>2 DEF WorkerEnds
    <3> QED  BY <2>0, <2>2, <3>1, EventTypes, PostTwo, OnceEndedTwice DEF TypeOK
  <2> QED  BY <1>3, <2>1, <2>2
<1>5. /\ \A k : Event(k, t) \in Posted' => k \in {"down", "fail"}
      /\ Event("down", t) \in Posted' => link'[t] = "closed"
  BY <1>2, <1>4, EventFields DEF Reported
<1>6. WorkersOf(t)
  BY DEF Orderly
<1>7. WorkersOf(t)' /\ EventsOf(t)'
  BY <1>1, <1>2, <1>5, <1>6, PcSessionAssumption DEF WorkersOf, EventsOf
<1>8. Left(t) /\ w.t = t
  BY <1>2, EventFields DEF Left
<1>9. \A e \in Posted' : e \in Posted \/ e.t = t
  BY <1>4, EventFields
<1> HIDE DEF w
<1> QED  BY <1>1, <1>2, <1>3, <1>4, <1>7, <1>8, <1>9, WorkerStep

LEMMA LateStep ==
    ASSUME TypeOK, Orderly, NEW t \in T, LateResult(t)
    PROVE  Orderly'
<1>1. /\ link[t] = "late" /\ link'[t] \in {"late_open", "closed"}
      /\ \A u \in T : u # t => link'[u] = link[u]
      /\ UNCHANGED <<conn, transport, ui, work, inbox>>
  BY DEF LateResult, TypeOK, main
<1>2. Left(t) /\ WorkersOf(t) /\ EventsOf(t) /\ Posted' = Posted /\ Once'
  BY <1>1 DEF Orderly, Left, Forgotten, Posted, Once
<1>3. \A u \in T : Left(u) => u = t
  BY <1>2 DEF Orderly, OneLeft
<1>4. WorkersOf(t)' /\ EventsOf(t)'
  BY <1>1, <1>2 DEF WorkersOf, EventsOf
<1>5. InSession' /\ UiShows'
  BY <1>1 DEF Orderly, InSession, UiShows
<1>6. \A u \in T : u # t => transport' # u
  BY <1>1, <1>3 DEF Left
<1> QED  BY <1>1, <1>2, <1>3, <1>4, <1>5, <1>6, About DEF Orderly

LEMMA AutoStep ==
    ASSUME TypeOK, Orderly, NEW t \in T, AutoConnects(t)
    PROVE  Orderly'
<1> DEFINE w == Job("auto", t)
<1>1. PICK k \in {"auto_ok", "auto_fail"} :
         /\ WorkerEnds(w, <<Event(k, t)>>)
         /\ link' = [link EXCEPT ![t] = IF k = "auto_ok" THEN "open" ELSE "closed"]
  BY DEF AutoConnects
<1>2. /\ w \in work /\ work' = work \ {w} /\ UNCHANGED <<conn, transport>>
      /\ \A u \in T : u # t => link'[u] = link[u]
      /\ link'[t] \in {"open", "closed"} /\ (link'[t] = "open" => k = "auto_ok")
      /\ Post(<<Event(k, t)>>)
  BY <1>1 DEF WorkerEnds, main, TypeOK
<1>3. transport = None /\ ~conn /\ ~Reported(t) /\ link[t] = "opening"
  BY <1>2 DEF Orderly, WorkersOf
<1>4. Posted' = Posted \cup {Event(k, t)} /\ Event(k, t) \in Events /\ Event(k, t) \notin Posted
  BY <1>2, <1>3, EventTypes, EventFields, PostOne DEF TypeOK, Reported
<1>5. Once'
  <2> DEFINE evs == <<Event(k, t)>>
  <2>1. evs \in Seq(Events) /\ Len(evs) = 1 /\ evs[1] = Event(k, t) /\ Post(evs)
    BY <1>2, <1>4
  <2> HIDE DEF evs
  <2>2. \A i \in 1..Len(evs) : evs[i].ev \in {"up", "auto_ok"} => i = 1 /\ evs[i] \notin Posted
    BY <1>4, <2>1
  <2> QED  BY <2>1, <2>2, OncePosted DEF Orderly, TypeOK
<1>6. \A j : Event(j, t) \in Posted' => j = k
  BY <1>3, <1>4, EventFields DEF Reported
<1>7. Job("auto", t) \notin work' /\ \A j : Job(j, t) \in work' => Job(j, t) \in work
  BY <1>2
<1>8. WorkersOf(t)
  BY DEF Orderly
<1>9. WorkersOf(t)' /\ EventsOf(t)'
  BY <1>2, <1>3, <1>6, <1>7, <1>8, PcSessionAssumption DEF WorkersOf, EventsOf
<1>10. Left(t) /\ w.t = t
  BY <1>3, EventFields DEF Left, Forgotten
<1>11. /\ \A e \in Posted' : e \in Posted \/ e.t = t
       /\ link'[t] = "open" => Event("auto_ok", t) \in Posted'
  BY <1>2, <1>4, EventFields
<1>12. WorkerEnds(w, <<Event(k, t)>>)
  BY <1>1
<1> HIDE DEF w
<1> QED  BY <1>2, <1>3, <1>5, <1>9, <1>10, <1>11, <1>12, PcSessionAssumption, WorkerStep

LEMMA CleanUpStep ==
    ASSUME TypeOK, Orderly, NEW t \in T, CleanUpEnds(t)
    PROVE  Orderly'
<1> DEFINE w == Job("cleanup", t)
<1>1. /\ w \in work /\ work' = work \ {w} /\ UNCHANGED <<conn, transport>>
      /\ link'[t] = "closed" /\ \A u \in T : u # t => link'[u] = link[u]
  BY DEF CleanUpEnds, WorkerEnds, main, TypeOK
<1>2. transport = None /\ ~conn
  BY <1>1 DEF Orderly, WorkersOf
<1>3. PICK evs : /\ WorkerEnds(w, evs)
                 /\ evs = <<Event("down", t)>> \/ evs = <<Event("down", t), Event("down", t)>>
  BY EventTypes, Reports DEF CleanUpEnds
<1>4. Once' /\ Posted' = Posted \cup {Event("down", t)}
  <2>0. Event("down", t).ev = "down" /\ Event("down", t) \in Events
    BY EventFields, EventTypes
  <2>1. CASE evs = <<Event("down", t)>>
    <3>1. Post(<<Event("down", t)>>)
      BY <1>3, <2>1 DEF WorkerEnds
    <3> QED  BY <2>0, <3>1, PostOne, OnceEnded DEF TypeOK
  <2>2. CASE evs = <<Event("down", t), Event("down", t)>>
    <3>1. Post(<<Event("down", t), Event("down", t)>>)
      BY <1>3, <2>2 DEF WorkerEnds
    <3> QED  BY <2>0, <3>1, PostTwo, OnceEndedTwice DEF TypeOK
  <2> QED  BY <1>3, <2>1, <2>2
<1>5. \A k : Event(k, t) \in Posted' => k = "down" \/ Event(k, t) \in Posted
  BY <1>4, EventFields
<1>6. Job("cleanup", t) \notin work' /\ \A j : Job(j, t) \in work' => Job(j, t) \in work
  BY <1>1
<1>7. WorkersOf(t) /\ EventsOf(t)
  BY DEF Orderly
<1>8. WorkersOf(t)' /\ EventsOf(t)'
  BY <1>1, <1>2, <1>5, <1>6, <1>7, PcSessionAssumption DEF WorkersOf, EventsOf
<1>9. Left(t) /\ w.t = t
  BY <1>1, EventFields DEF Left, Works
<1>10. \A e \in Posted' : e \in Posted \/ e.t = t
  BY <1>4, EventFields
<1> HIDE DEF w
<1> QED  BY <1>1, <1>2, <1>3, <1>4, <1>8, <1>9, <1>10, PcSessionAssumption, WorkerStep

LEMMA StopStep ==
    ASSUME TypeOK, Orderly, NEW t \in T, StopEnds(t)
    PROVE  Orderly'
<1>1. /\ Job("stop", t) \in work /\ work' = work \ {Job("stop", t)}
      /\ UNCHANGED <<conn, transport, ui>> /\ Post(<<>>)
  BY DEF StopEnds, WorkerEnds, main
<1>2. link[t] = "closed"
  BY <1>1 DEF Orderly, WorkersOf
<1>3. link' = link
  BY <1>2 DEF StopEnds, TypeOK
<1>4. inbox' = inbox
  BY <1>1, PostNone DEF TypeOK
<1>5. Once' /\ Posted' = Posted
  BY <1>4 DEF Orderly, Once, Posted
<1>6. \A x \in work : x.job = "cleanup" => x \in work'
  BY <1>1, EventFields
<1> QED  BY <1>1, <1>3, <1>5, <1>6, PcSessionAssumption, Keeps DEF Orderly, UiShows

LEMMA DropStep ==
    ASSUME TypeOK, Orderly, NEW t \in T, Drop(t)
    PROVE  Orderly'
<1>1. /\ link[t] \in {"open", "late_open"} /\ link'[t] = "closed"
      /\ \A u \in T : u # t => link'[u] = link[u]
      /\ UNCHANGED <<conn, transport, ui, work>>
  BY DEF Drop, TypeOK, main, Orderly, WorkersOf
<1>2. Left(t) /\ WorkersOf(t) /\ EventsOf(t)
  BY <1>1 DEF Orderly, Left, Forgotten
<1>3. Once' /\ Posted' \subseteq Posted \cup {Event("down", t)}
  <2>1. CASE t \in Ble
    <3>1. Post(<<Event("down", t)>>)
      BY <1>1, <2>1 DEF Drop
    <3>2. Event("down", t).ev = "down" /\ Event("down", t) \in Events
      BY EventFields, EventTypes
    <3> QED  BY <3>1, <3>2, PostOne, OnceEnded DEF TypeOK
  <2>2. CASE t \notin Ble
    <3>1. inbox' = inbox
      BY <2>2, PostNone DEF Drop, TypeOK
    <3> QED  BY <3>1 DEF Posted, Once, Orderly
  <2> QED  BY <2>1, <2>2
<1>4. \A k : Event(k, t) \in Posted' => k = "down" \/ Event(k, t) \in Posted
  BY <1>3, EventFields
<1>5. WorkersOf(t)'
  <2>1. Job("connect", t) \notin work' /\ Job("auto", t) \notin work'
    BY <1>1, <1>2 DEF WorkersOf
  <2> QED  BY <1>1, <1>2, <2>1 DEF WorkersOf
<1>6. EventsOf(t)'
  BY <1>1, <1>2, <1>4 DEF EventsOf
<1>7. \A u \in T : Left(u) => u = t
  BY <1>2 DEF Orderly, OneLeft
<1>8. InSession' /\ UiShows' /\ \A u \in T : u # t => transport' # u
  BY <1>1, <1>7 DEF Orderly, InSession, UiShows, Left
<1>9. \A u \in T : u # t => \A e \in Posted' : e.t = u => e \in Posted
  BY <1>3, EventFields
<1> QED  BY <1>1, <1>3, <1>5, <1>6, <1>7, <1>8, <1>9, About DEF Orderly

\* The reading and the scan are about no object.
LEMMA ReportStep ==
    ASSUME TypeOK, Orderly, InitEnds \/ ScanEnds
    PROVE  Orderly'
<1>0. None \notin T
  BY PcSessionAssumption
<1>1. /\ UNCHANGED <<conn, transport, link, ui>> /\ work' \subseteq work
      /\ \A w \in work : w.job = "cleanup" => w \in work'
  BY EventFields DEF InitEnds, ScanEnds, WorkerEnds, main
<1>2. Post(<<>>) \/ \E k \in {"init", "found", "none", "scan_error"} : Post(<<Event(k, None)>>)
  <2>1. CASE ScanEnds
    BY <2>1 DEF ScanEnds
  <2>2. CASE InitEnds /\ transport = None
    BY <2>2 DEF InitEnds, WorkerEnds
  <2>3. CASE InitEnds /\ transport # None
    BY <2>3 DEF InitEnds, WorkerEnds
  <2> QED  BY <2>1, <2>2, <2>3
<1>3. /\ Once' /\ Posted \subseteq Posted'
      /\ \A e \in Posted' : e.t \in T => e \in Posted
  <2>1. CASE Post(<<>>)
    <3>1. inbox' = inbox
      BY <2>1, PostNone DEF TypeOK
    <3> QED  BY <3>1 DEF Once, Orderly, Posted
  <2>2. ASSUME NEW k \in {"init", "found", "none", "scan_error"}, Post(<<Event(k, None)>>)
        PROVE  /\ Once' /\ Posted \subseteq Posted'
               /\ \A e \in Posted' : e.t \in T => e \in Posted
    <3>1. Event(k, None) \in Events /\ Event(k, None).ev = k /\ Event(k, None).t = None
      BY EventTypes, EventFields
    <3> QED  BY <1>0, <2>2, <3>1, PostOne, OnceEnded DEF TypeOK
  <2> QED  BY <1>2, <2>1, <2>2
<1> QED  BY <1>0, <1>1, <1>3, Keeps DEF Orderly, UiShows
-----------------------------------------------------------------------------
(* The steps of the main thread.                                           *)

\* What holds when the first event is handled.
LEMMA HandledOrderly ==
    ASSUME TypeOK, Orderly, NEW e, Handle(e)
    PROVE  /\ Once' /\ e \in Posted /\ Posted' \subseteq Posted /\ Posted \subseteq Posted' \cup {e}
           /\ e.ev \in {"up", "auto_ok"} => e \notin Posted'
BY Handled, OnceHandled DEF TypeOK, Orderly

\* _on_conn_changed(True) and _done: the session of t begins.
LEMMA SessionStep ==
    ASSUME TypeOK, Orderly, NEW t \in T, NEW k \in {"up", "auto_ok"}, Handle(Event(k, t)),
           ~conn, transport' = t, SessionBegins(t), work' = work \cup {Job("init", None)},
           UNCHANGED link
    PROVE  Orderly'
<1>0. None \notin T
  BY PcSessionAssumption
<1>1. /\ Once' /\ Event(k, t) \in Posted /\ Posted' \subseteq Posted
      /\ Event(k, t) \notin Posted'
  BY HandledOrderly, EventFields
<1>2. Left(t) /\ Reported(t)
  BY <1>1, EventFields DEF Left, Reported
<1>3. WorkersOf(t) /\ EventsOf(t) /\ OneLeft
  BY DEF Orderly
<1>4. \A u \in T : Left(u) => u = t
  BY <1>2, <1>3 DEF OneLeft
<1>5. conn' = TRUE /\ ui' = TRUE
  BY DEF SessionBegins
<1>6. \A j : Job(j, t) \in work' <=> Job(j, t) \in work
  BY <1>0, EventFields
<1>7. \A w \in work' : w.t \in T => w \in work
  BY <1>0, EventFields
<1>8. link[t] \in {"open", "closed"}
  BY <1>1, <1>3 DEF EventsOf
<1>9. Job("connect", t) \notin work /\ Job("auto", t) \notin work
  BY <1>2, <1>3 DEF WorkersOf
<1>10. Job("cleanup", t) \notin work
  BY <1>0, <1>1, <1>3 DEF WorkersOf, EventsOf
<1>11. WorkersOf(t)'
  BY <1>3, <1>6, <1>9, <1>10 DEF WorkersOf
<1>12. /\ Event("up", t) \notin Posted' /\ Event("auto_ok", t) \notin Posted'
       /\ Event("fail", t) \notin Posted' /\ Event("auto_fail", t) \notin Posted'
  BY <1>0, <1>1, <1>3 DEF EventsOf
<1>13. EventsOf(t)'
  BY <1>1, <1>3, <1>12 DEF EventsOf
<1>14. InSession' /\ UiShows'
  BY <1>5, <1>8 DEF InSession, UiShows
<1> QED  BY <1>1, <1>3, <1>4, <1>7, <1>11, <1>13, <1>14, About DEF Orderly

LEMMA UpStep ==
    ASSUME TypeOK, Orderly, NEW t \in T, OnUp(t)
    PROVE  Orderly'
<1>1. Handle(Event("up", t)) /\ UNCHANGED <<transport, link>>
  BY DEF OnUp
<1>2. Event("up", t) \in Posted
  BY <1>1, HandledOrderly
<1>3. transport = t /\ ~conn
  BY <1>2 DEF Orderly, EventsOf
<1>4. SessionBegins(t) /\ work' = work \cup {Job("init", None)}
  BY <1>3 DEF OnUp
<1> QED  BY <1>1, <1>3, <1>4, SessionStep

LEMMA AutoConnectedStep ==
    ASSUME TypeOK, Orderly, NEW t \in T, OnAutoConnected(t)
    PROVE  Orderly'
<1>1. Handle(Event("auto_ok", t)) /\ transport' = t /\ UNCHANGED link
  BY DEF OnAutoConnected
<1>2. Event("auto_ok", t) \in Posted
  BY <1>1, HandledOrderly
<1>3. ~conn
  BY <1>2 DEF Orderly, EventsOf
<1>4. SessionBegins(t) /\ work' = work \cup {Job("init", None)}
  BY <1>3 DEF OnAutoConnected
<1> QED  BY <1>1, <1>3, <1>4, SessionStep

\* An event that changes nothing of a connection.
LEMMA ReadOnlyStep ==
    ASSUME TypeOK, Orderly, NEW e, Handle(e), e.ev # "auto_ok",
           UNCHANGED <<conn, transport, link, work>>, ui' = conn'
    PROVE  Orderly'
<1>1. Once' /\ Posted' \subseteq Posted /\ Posted \subseteq Posted' \cup {e}
  BY HandledOrderly
<1> QED  BY <1>1, Keeps, PcSessionAssumption

\* _on_conn_changed(False)
LEMMA DownStep ==
    ASSUME TypeOK, Orderly, NEW t \in T, OnDown(t)
    PROVE  Orderly'
<1>0. None \notin T /\ Event("down", t).ev = "down" /\ Event("down", t).t = t
  BY PcSessionAssumption, EventFields
<1>1. Handle(Event("down", t)) /\ UNCHANGED link
  BY DEF OnDown
<1>2. CASE ~conn
  BY <1>0, <1>1, <1>2, ReadOnlyStep DEF OnDown, Orderly, UiShows
<1>3. CASE conn
  <2>1. Once' /\ Event("down", t) \in Posted /\ Posted' \subseteq Posted
    BY <1>1, HandledOrderly
  <2>2. transport = t
    BY <1>0, <1>3, <2>1 DEF Orderly, InSession, OneLeft, Left, Reported
  <2>3. WorkersOf(t) /\ EventsOf(t) /\ link[t] = "closed"
    BY <2>1 DEF Orderly, EventsOf
  <2>4. /\ transport' = None /\ conn' = FALSE /\ ui' = FALSE
        /\ work' = work \cup StopLoop(t)
    BY <1>3, <2>2 DEF OnDown, SessionEnds
  <2>5. \A k : Job(k, t) \in work' => k = "stop" \/ Job(k, t) \in work
    BY <2>4, EventFields DEF StopLoop
  <2>6. \A w \in work' : w.t # t => w \in work
    BY <2>4, EventFields DEF StopLoop
  <2>7. WorkersOf(t)'
    BY <1>0, <1>1, <1>3, <2>2, <2>3, <2>5 DEF WorkersOf
  <2>8. EventsOf(t)'
    BY <1>1, <1>3, <2>1, <2>3 DEF EventsOf
  <2>9. InSession' /\ UiShows'
    BY <2>4 DEF InSession, UiShows
  <2>10. \A u \in T : Left(u) => u = t
    BY <2>2 DEF Orderly, OneLeft, Left
  <2>11. \A u \in T : u # t => \A w \in work' : w.t = u => w \in work
    BY <2>6
  <2> QED  BY <1>0, <1>1, <2>1, <2>3, <2>4, <2>7, <2>8, <2>9, <2>10, <2>11, About DEF Orderly
<1> QED  BY <1>2, <1>3

\* _ble_done of an attempt that failed
LEMMA ConnectFailedStep ==
    ASSUME TypeOK, Orderly, NEW t \in T, OnConnectFailed(t)
    PROVE  Orderly'
<1>0. None \notin T
  BY PcSessionAssumption
<1>1. /\ Handle(Event("fail", t)) /\ transport' = None /\ ui' = FALSE
      /\ UNCHANGED <<conn, link, work>>
  BY DEF OnConnectFailed
<1>2. Once' /\ Event("fail", t) \in Posted /\ Posted' \subseteq Posted
  BY <1>1, HandledOrderly
<1>3. WorkersOf(t) /\ EventsOf(t) /\ ~conn /\ link[t] \in {"closed", "late", "late_open"}
  BY <1>2 DEF Orderly, EventsOf
<1>4. Reported(t) /\ Left(t)
  BY <1>2, EventFields DEF Left, Reported
<1>5. \A u \in T : Left(u) => u = t
  BY <1>4 DEF Orderly, OneLeft
<1>6. WorkersOf(t)'
  <2>1. Job("connect", t) \notin work /\ Job("auto", t) \notin work
    BY <1>3, <1>4 DEF WorkersOf
  <2> QED  BY <1>1, <1>3, <2>1 DEF WorkersOf
<1>7. EventsOf(t)'
  <2>1. Event("up", t) \notin Posted /\ Event("auto_ok", t) \notin Posted
    BY <1>2, <1>3 DEF EventsOf
  <2> QED  BY <1>1, <1>2, <1>3, <2>1 DEF EventsOf
<1>8. InSession' /\ UiShows'
  BY <1>1, <1>3, PcSessionAssumption DEF InSession, UiShows, TypeOK
<1> QED  BY <1>0, <1>1, <1>2, <1>3, <1>5, <1>6, <1>7, <1>8, About DEF Orderly

-----------------------------------------------------------------------------
(* Every step keeps the connection in order.                               *)

LEMMA OrderlyStep ==
    ASSUME TypeOK, Orderly, [Next]_vars, ~crossed'
    PROVE  Orderly'
<1>0. None \notin T /\ Ble \subseteq T
  BY PcSessionAssumption DEF T
<1>1. ASSUME UNCHANGED <<conn, transport, link, ui, inbox>>,
             \A w \in work' : w.t \in T => w \in work, work \subseteq work'
      PROVE  Orderly'
  <2>1. Once' /\ Posted' = Posted
    BY <1>1 DEF Orderly, Once, Posted
  <2> QED  BY <1>0, <1>1, <2>1, Keeps DEF Orderly, UiShows
<1>2. CASE UNCHANGED vars
  BY <1>1, <1>2 DEF vars, main
<1>3. CASE User
  <2>1. ASSUME NEW t \in Ble, ClickBle(t) PROVE Orderly'
    <3>1. ConnectBle(t) /\ ~conn /\ UNCHANGED <<conn, ui, inbox>>
      BY <2>1 DEF ClickBle
    <3>2. Once'
      BY <3>1 DEF Orderly, Once
    <3> QED  BY <1>0, <3>1, <3>2, ConnectStep
  <2>2. ASSUME NEW t \in Serial, ClickSerial(t) PROVE Orderly'
    BY <2>2, SerialStep
  <2>3. CASE ClickDisconnect \/ DialogDisconnect
    BY <2>3, DisconnectStep DEF ClickDisconnect, DialogDisconnect
  <2>4. CASE ClickRestart \/ DialogExtend
    BY <1>1, <2>4 DEF ClickRestart, DialogExtend, main
  <2>5. CASE ClickRefresh
    BY <1>0, <1>1, <2>5, EventFields DEF ClickRefresh, main
  <2> QED  BY <1>3, <2>1, <2>2, <2>3, <2>4, <2>5 DEF User
<1>4. CASE Timer
  BY <1>1, <1>4, DisconnectStep DEF Timer, RestartShot, AutodiscTimeout, ScanShot, main
<1>5. CASE Workers
  BY <1>5, ConnectsStep, FailsStep, LateStep, AutoStep, CleanUpStep, StopStep, ReportStep
     DEF Workers
<1>6. CASE Main
  <2>1. ASSUME NEW t \in T,
               OnUp(t) \/ OnDown(t) \/ OnConnectFailed(t) \/ OnAutoConnected(t)
        PROVE  Orderly'
    BY <2>1, UpStep, DownStep, ConnectFailedStep, AutoConnectedStep
  <2>2. ASSUME NEW t \in T, OnConnected(t) PROVE Orderly'
    BY <2>2, EventFields, ReadOnlyStep DEF OnConnected, Orderly, UiShows
  <2>3. ASSUME NEW t \in T, OnAutoFailed(t) PROVE Orderly'
    <3>1. Handle(Event("auto_fail", t)) /\ UNCHANGED <<conn, transport, link, work>> /\ ui' = FALSE
      BY <2>3 DEF OnAutoFailed
    <3>2. conn = FALSE
      BY <3>1, HandledOrderly DEF Orderly, EventsOf, TypeOK
    <3>3. Event("auto_fail", t).ev = "auto_fail" /\ ui' = conn'
      BY <3>1, <3>2, EventFields
    <3> QED  BY <3>1, <3>3, ReadOnlyStep
  <2>4. ASSUME NEW k \in {"init", "none", "found", "scan_error"}, Handle(Event(k, None)),
               UNCHANGED <<conn, transport, link, work, ui>>
        PROVE  Orderly'
    BY <2>4, EventFields, ReadOnlyStep DEF Orderly, UiShows
  <2>5. CASE OnInitDone \/ OnScanIgnored \/ OnScanEmpty \/ OnScanError
    BY <2>4, <2>5 DEF OnInitDone, OnScanIgnored, OnScanEmpty, OnScanError, main
  <2>6. ASSUME NEW t \in Ble, OnScanFound(t) PROVE Orderly'
    <3>1. ConnectBle(t) /\ ~conn /\ UNCHANGED <<conn, ui>> /\ Handle(Event("found", None))
      BY <2>6 DEF OnScanFound
    <3>2. Once' /\ Posted' \subseteq Posted
      BY <3>1, HandledOrderly
    <3> QED  BY <1>0, <3>1, <3>2, ConnectStep
  <2> QED  BY <1>6, <2>1, <2>2, <2>3, <2>5, <2>6 DEF Main
<1>7. CASE \E t \in T : Drop(t)
  BY <1>7, DropStep
<1> QED  BY <1>2, <1>3, <1>4, <1>5, <1>6, <1>7 DEF Next

\* A crossing is remembered.
LEMMA CrossedStays == ASSUME TypeOK, [Next]_vars PROVE crossed => crossed'
BY DEF TypeOK, Next, vars, main, timers, User, Timer, Workers, Main, ClickBle, ClickSerial,
       ConnectBle, DoDisconnect, ClickDisconnect, ClickRestart, RestartShot, AutodiscTimeout,
       DialogExtend, DialogDisconnect, ClickRefresh, ScanShot, WorkerEnds, Connects,
       ConnectFails, ConnectTimesOut, LateResult, AutoConnects, CleanUpEnds, StopEnds,
       InitEnds, ScanEnds, Drop, OnUp, OnDown, OnConnected, OnConnectFailed,
       OnAutoConnected, OnAutoFailed, OnInitDone, OnScanIgnored, OnScanEmpty,
       OnScanFound, OnScanError

LEMMA InitOrderly == ASSUME Init PROVE Orderly
<1>1. Posted = {} /\ Len(inbox) = 0 /\ transport = None /\ ~conn /\ conn = ui /\ None \notin T
  <2>1. inbox = <<>> /\ Len(inbox) = 0
    BY DEF Init
  <2>2. Posted = {}
    BY <2>1 DEF Posted
  <2> QED  BY <2>1, <2>2, PcSessionAssumption DEF Init
<1>2. Once /\ InSession /\ UiShows
  BY <1>1 DEF Once, InSession, UiShows
<1>3. CASE work = {} /\ link = [t \in T |-> "idle"]
  <2>1. \A t \in T : ~Left(t) /\ link[t] = "idle"
    BY <1>1, <1>3 DEF Left, Reported, Works, Forgotten
  <2>2. \A t \in T : WorkersOf(t) /\ EventsOf(t)
    BY <1>1, <1>3, <2>1 DEF WorkersOf, EventsOf
  <2> QED  BY <1>2, <2>1, <2>2 DEF Orderly, OneLeft, LinksOwned
<1>4. ASSUME NEW s \in Serial, work = {Job("auto", s)},
             link = [t \in T |-> IF t = s THEN "opening" ELSE "idle"]
      PROVE  Orderly
  <2>1. \A t \in T : /\ link[t] \in {"opening", "idle"} /\ (t = s => link[t] = "opening")
                     /\ t # s => link[t] = "idle"
    BY <1>4 DEF T
  <2>2. \A t \in T : Left(t) => t = s
    BY <1>1, <1>4, <2>1, EventFields DEF Left, Reported, Works, Forgotten
  <2>3. \A t \in T : \A k : Job(k, t) \in work => k = "auto" /\ t = s
    BY <1>4, EventFields
  <2>4. \A t \in T : WorkersOf(t) /\ EventsOf(t)
    <3>1. SUFFICES ASSUME NEW t \in T PROVE WorkersOf(t) /\ EventsOf(t)
      OBVIOUS
    <3>2. ~Reported(t)
      BY <1>1 DEF Reported
    <3> QED  BY <1>1, <2>1, <2>3, <3>2 DEF WorkersOf, EventsOf
  <2> QED  BY <1>2, <2>1, <2>2, <2>4 DEF Orderly, OneLeft, LinksOwned
<1> QED  BY <1>3, <1>4 DEF Init

LEMMA SessionInvariant == Spec => [](TypeOK /\ SessionInv)
<1>1. Init => TypeOK /\ SessionInv
  BY InitTypes, InitOrderly DEF SessionInv
<1>2. TypeOK /\ SessionInv /\ [Next]_vars => (TypeOK /\ SessionInv)'
  BY TypeStep, OrderlyStep, CrossedStays DEF SessionInv
<1> QED  BY <1>1, <1>2, PTL DEF Spec
-----------------------------------------------------------------------------
(* The Connect button, crossed or not.                                     *)

Attempt(t) == \/ Job("connect", t) \in work \/ Job("auto", t) \in work
              \/ \E e \in {"ok", "fail", "auto_ok", "auto_fail"} : Event(e, t) \in Posted
Results    == {"ok", "fail", "auto_ok", "auto_fail"}

LEMMA ButtonStays ==
    ASSUME ButtonFollows, btn => btn',
           \A w \in work : w.job \in {"connect", "auto"} => w \in work',
           \A e \in Posted : e.ev \in Results => e \in Posted'
    PROVE  ButtonFollows'
<1>1. \A t \in T : Attempt(t) => Attempt(t)'
  BY EventFields DEF Attempt, Results
<1> QED  BY <1>1 DEF ButtonFollows, Attempt

\* The worker of an attempt reports its result.
LEMMA ButtonReported ==
    ASSUME TypeOK, ButtonFollows, NEW t \in T, NEW w, NEW evs, WorkerEnds(w, evs),
           Posted \subseteq Posted',
           w.job \in {"connect", "auto"} => \E k \in Results : Event(k, t) \in Posted'
    PROVE  ButtonFollows'
<1>1. CASE w.job \in {"connect", "auto"}
  BY <1>1 DEF ButtonFollows, Results
<1>2. CASE w.job \notin {"connect", "auto"}
  BY <1>2, ButtonStays DEF WorkerEnds, main
<1> QED  BY <1>1, <1>2

LEMMA ButtonStep == ASSUME TypeOK, ButtonFollows, [Next]_vars PROVE ButtonFollows'
<1>0. Ble \subseteq T /\ Serial \subseteq T
  BY DEF T
<1>1. ASSUME UNCHANGED inbox, btn => btn', work \subseteq work' PROVE ButtonFollows'
  <2>1. Posted' = Posted
    BY <1>1 DEF Posted
  <2> QED  BY <1>1, <2>1, ButtonStays
<1>2. ASSUME NEW t \in T, ConnectBle(t) PROVE ButtonFollows'
  BY <1>2 DEF ConnectBle, ButtonFollows
<1>3. ASSUME DoDisconnect PROVE ButtonFollows'
  BY <1>1, <1>3 DEF DoDisconnect
<1>4. CASE UNCHANGED vars
  BY <1>1, <1>4 DEF vars, main
<1>5. CASE User
  BY <1>0, <1>1, <1>2, <1>3, <1>5 DEF User, ClickBle, ClickSerial, ClickDisconnect, ClickRestart,
     ClickRefresh, DialogExtend, DialogDisconnect, main
<1>6. CASE Timer
  BY <1>1, <1>3, <1>6 DEF Timer, RestartShot, AutodiscTimeout, ScanShot, main
<1>7. CASE Workers
  <2>1. ASSUME NEW t \in T, Connects(t) PROVE ButtonFollows'
    <3>1. WorkerEnds(Job("connect", t), <<Event("up", t), Event("ok", t)>>)
          /\ Post(<<Event("up", t), Event("ok", t)>>)
      BY <2>1 DEF Connects, WorkerEnds
    <3>2. Posted' = Posted \cup {Event("up", t), Event("ok", t)}
      BY <3>1, EventTypes, PostTwo DEF TypeOK
    <3> QED  BY <3>1, <3>2, ButtonReported DEF Results
  <2>2. ASSUME NEW t \in T, ConnectFails(t) \/ ConnectTimesOut(t) PROVE ButtonFollows'
    <3>1. PICK evs : /\ WorkerEnds(Job("connect", t), evs) /\ Post(evs)
                     /\ evs = <<Event("fail", t)>> \/ evs = <<Event("down", t), Event("fail", t)>>
      <4>1. CASE ConnectTimesOut(t)
        BY <4>1 DEF ConnectTimesOut, WorkerEnds
      <4>2. CASE ConnectFails(t)
        <5>1. PICK stood \in BOOLEAN :
                 WorkerEnds(Job("connect", t), (IF stood THEN <<Event("down", t)>> ELSE <<>>)
                                                  \o <<Event("fail", t)>>)
          BY <4>2 DEF ConnectFails
        <5>2. CASE stood
          <6>1. WorkerEnds(Job("connect", t), <<Event("down", t), Event("fail", t)>>)
            BY <5>1, <5>2, EventTypes, Reports
          <6> QED  BY <6>1 DEF WorkerEnds
        <5>3. CASE ~stood
          <6>1. WorkerEnds(Job("connect", t), <<Event("fail", t)>>)
            BY <5>1, <5>3, EventTypes, Reports
          <6> QED  BY <6>1 DEF WorkerEnds
        <5> QED  BY <5>2, <5>3
      <4> QED  BY <2>2, <4>1, <4>2
    <3>2. Posted \subseteq Posted' /\ Event("fail", t) \in Posted'
      <4>1. CASE evs = <<Event("fail", t)>>
        BY <3>1, <4>1, EventTypes, PostOne DEF TypeOK
      <4>2. CASE evs = <<Event("down", t), Event("fail", t)>>
        BY <3>1, <4>2, EventTypes, PostTwo DEF TypeOK
      <4> QED  BY <3>1, <4>1, <4>2
    <3> QED  BY <3>1, <3>2, ButtonReported DEF Results
  <2>3. ASSUME NEW t \in T, LateResult(t) PROVE ButtonFollows'
    BY <1>1, <2>3 DEF LateResult, main
  <2>4. ASSUME NEW t \in T, AutoConnects(t) PROVE ButtonFollows'
    <3>1. PICK k \in {"auto_ok", "auto_fail"} :
             WorkerEnds(Job("auto", t), <<Event(k, t)>>) /\ Post(<<Event(k, t)>>)
      BY <2>4 DEF AutoConnects, WorkerEnds
    <3>2. Posted' = Posted \cup {Event(k, t)}
      BY <3>1, EventTypes, PostOne DEF TypeOK
    <3> QED  BY <3>1, <3>2, ButtonReported DEF Results
  <2>5. ASSUME NEW t \in T, CleanUpEnds(t) PROVE ButtonFollows'
    <3>1. PICK evs : /\ WorkerEnds(Job("cleanup", t), evs) /\ Post(evs)
                     /\ evs = <<Event("down", t)>> \/ evs = <<Event("down", t), Event("down", t)>>
      BY <2>5, EventTypes, Reports DEF CleanUpEnds, WorkerEnds
    <3>2. Posted \subseteq Posted'
      BY <3>1, EventTypes, PostOne, PostTwo DEF TypeOK
    <3> QED  BY <3>1, <3>2, EventFields, ButtonReported
  <2>6. ASSUME NEW t \in T, StopEnds(t) PROVE ButtonFollows'
    <3>1. WorkerEnds(Job("stop", t), <<>>) /\ inbox' = inbox
      BY <2>6, PostNone DEF StopEnds, WorkerEnds, TypeOK
    <3>2. Posted' = Posted
      BY <3>1 DEF Posted
    <3> QED  BY <3>1, <3>2, EventFields, ButtonReported
  <2>7. CASE InitEnds \/ ScanEnds
    <3>1. /\ btn' = btn /\ \A w \in work : w.job \in {"connect", "auto"} => w \in work'
      BY <2>7, EventFields DEF InitEnds, ScanEnds, WorkerEnds, main
    <3>2. Posted \subseteq Posted'
      <4>1. CASE Post(<<>>)
        <5>1. inbox' = inbox
          BY <4>1, PostNone DEF TypeOK
        <5> QED  BY <5>1 DEF Posted
      <4>2. ASSUME NEW k \in {"init", "found", "none", "scan_error"}, Post(<<Event(k, None)>>)
            PROVE  Posted \subseteq Posted'
        BY <4>2, EventTypes, PostOne DEF TypeOK
      <4>3. CASE ScanEnds
        BY <4>2, <4>3 DEF ScanEnds
      <4>4. CASE InitEnds /\ transport = None
        BY <4>1, <4>4 DEF InitEnds, WorkerEnds
      <4>5. CASE InitEnds /\ transport # None
        BY <4>2, <4>5 DEF InitEnds, WorkerEnds
      <4> QED  BY <2>7, <4>3, <4>4, <4>5
    <3> QED  BY <3>1, <3>2, ButtonStays
  <2> QED  BY <1>7, <2>1, <2>2, <2>3, <2>4, <2>5, <2>6, <2>7 DEF Workers
<1>8. CASE Main
  <2>0. ASSUME NEW e, Handle(e), e.ev \notin Results, btn => btn', work \subseteq work'
        PROVE  ButtonFollows'
    <3>1. Posted \subseteq Posted' \cup {e}
      BY <2>0, Handled DEF TypeOK
    <3> QED  BY <2>0, <3>1, ButtonStays
  <2>1. ASSUME NEW t \in T, OnUp(t) \/ OnDown(t) PROVE ButtonFollows'
    <3>1. PICK k \in {"up", "down"} : Handle(Event(k, t))
      BY <2>1 DEF OnUp, OnDown
    <3>2. Event(k, t).ev \notin Results
      BY EventFields DEF Results
    <3>3. btn' = btn /\ work \subseteq work'
      BY <2>1 DEF OnUp, OnDown
    <3> QED  BY <2>0, <3>1, <3>2, <3>3
  <2>2. ASSUME NEW t \in T, \/ OnConnected(t) \/ OnConnectFailed(t)
                            \/ OnAutoConnected(t) \/ OnAutoFailed(t)
        PROVE  ButtonFollows'
    BY <2>2 DEF ButtonFollows, OnConnected, OnConnectFailed, OnAutoConnected, OnAutoFailed
  <2>3. CASE OnInitDone \/ OnScanIgnored \/ OnScanEmpty \/ OnScanError
    <3>1. PICK k \in {"init", "none", "found", "scan_error"} : Handle(Event(k, None))
      BY <2>3 DEF OnInitDone, OnScanIgnored, OnScanEmpty, OnScanError
    <3>2. Event(k, None).ev \notin Results
      BY EventFields DEF Results
    <3>3. UNCHANGED <<btn, work>>
      BY <2>3 DEF OnInitDone, OnScanIgnored, OnScanEmpty, OnScanError, main
    <3> QED  BY <2>0, <3>1, <3>2, <3>3
  <2>4. ASSUME NEW t \in Ble, OnScanFound(t) PROVE ButtonFollows'
    BY <1>0, <1>2, <2>4 DEF OnScanFound
  <2> QED  BY <1>8, <2>1, <2>2, <2>3, <2>4 DEF Main
<1>9. ASSUME NEW t \in T, Drop(t) PROVE ButtonFollows'
  <2>1. Posted \subseteq Posted'
    <3>1. CASE t \in Ble /\ link[t] # "orphan"
      BY <1>9, <3>1, EventTypes, PostOne DEF Drop, TypeOK
    <3>2. CASE ~(t \in Ble /\ link[t] # "orphan")
      <4>1. inbox' = inbox
        BY <1>9, <3>2, PostNone DEF Drop, TypeOK
      <4> QED  BY <4>1 DEF Posted
    <3> QED  BY <3>1, <3>2
  <2> QED  BY <1>9, <2>1, ButtonStays DEF Drop, main
<1> QED  BY <1>4, <1>5, <1>6, <1>7, <1>8, <1>9 DEF Next

-----------------------------------------------------------------------------
(* What the books say. *)

\* Unless attempts crossed, every open link has an owner and the screen shows what
\* the program believes; and whether or not they did, the Connect button comes back:
\* for any number of transport objects, background scans and waiting events.
THEOREM BooksAddUp == Spec => []BooksBalance
<1>1. Init => ButtonFollows
  BY DEF Init, ButtonFollows, T
<1>2. TypeOK /\ ButtonFollows /\ [Next]_vars => ButtonFollows'
  BY ButtonStep
<1>3. SessionInv /\ ButtonFollows => BooksBalance
  BY DEF SessionInv, Orderly, BooksBalance
<1> QED  BY <1>1, <1>2, <1>3, TypeCorrect, SessionInvariant, PTL DEF Spec

\* A signal that ends a session is that of its own link, which is gone: the answers
\* of _cleanup and late signals find no session of another connection to end.
THEOREM SignalsAreOwn == Spec => SignalsEndOwnSession
<1>1. ASSUME TypeOK, SessionInv, [Next]_vars
      PROVE  [conn /\ ~conn' /\ transport # None /\ ~crossed /\ (\E t \in T : OnDown(t))
                => link[transport] # "open"]_vars
  <2>1. SUFFICES ASSUME conn, transport # None, ~crossed, NEW t \in T, OnDown(t)
                 PROVE  link[transport] # "open"
    OBVIOUS
  <2>2. Orderly /\ transport \in T
    BY <1>1, <2>1 DEF SessionInv, TypeOK
  <2>3. Event("down", t) \in Posted
    BY <1>1, <2>1, Handled DEF OnDown, TypeOK
  <2>4. Left(t) /\ Left(transport) /\ link[t] = "closed"
    BY <2>2, <2>3, EventFields DEF Left, Reported, Orderly, EventsOf
  <2>5. transport = t
    BY <2>2, <2>4 DEF Orderly, OneLeft
  <2> QED  BY <2>4, <2>5
<1> QED  BY <1>1, SessionInvariant, PTL DEF Spec, SignalsEndOwnSession
=============================================================================

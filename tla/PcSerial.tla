------------------------------ MODULE PcSerial ------------------------------
(***************************************************************************)
(* Requests of the PC program over the serial port, in one session.  Every *)
(* request has an id and a mailbox; the thread that makes it waits there.  *)
(* The lines of the beacon reach the mailboxes through the event loop of   *)
(* the main thread, so nothing is delivered while the main thread itself   *)
(* waits for an answer.  Requests come from workers, and from the handlers *)
(* that the main thread runs when a worker has ended.                      *)
(*                                                                         *)
(* Jobs: "init" reads INFO; "save" is HWSAVE! and then INFO, in a worker;  *)
(* "tag" is TAG! or UPTIMECLR! in a worker and then INFO in the handler.   *)
(***************************************************************************)
EXTENDS Naturals, Sequences, FiniteSets

CONSTANTS Workers, Main,   \* bound: worker threads; the main thread
          MaxRequests      \* bound: requests made

VARIABLES
    ser,                   \* the port is open
    req_id, tagged,        \* the latest id, the ids with a mailbox
    mailbox,               \* _tagged's queues
    call,                  \* what each thread does
    info,                  \* _info_cache, and what the tabs show
    wire, lines,           \* on the way to the beacon; read and not yet delivered
    executed, lost, blind  \* history: ids the beacon carried out; ids that lost the
                           \* request or a line of the answer; ids that waited while
                           \* the main thread did

transport == <<ser, req_id, tagged, mailbox>>
history   == <<executed, lost, blind>>
vars      == <<transport, call, info, wire, lines, history>>

Threads == Workers \cup {Main}
Ids     == 1..MaxRequests
Jobs    == {"init", "save", "tag"}
Free    == [at |-> "free"]
Begins(job, verb) == [at |-> "begin", job |-> job, verb |-> verb]
Line(id, what)    == [id |-> id, what |-> what]
FirstVerb(job)    == IF job = "init" THEN "INFO?" ELSE "SET"

Blocked == call[Main] # Free             \* the event loop does not run
Waiting == {call[t].id : t \in {u \in Threads : call[u].at = "wait"}}

\* read_info returns 48 zeros when there is no data, and nobody tells the two apart.
Shown(c) == IF c.ok /\ c.data THEN "real" ELSE "zeros"
-----------------------------------------------------------------------------
(* UartTransport._request, in the thread t. *)

End(t, ok) ==
    call' = [call EXCEPT ![t] = [at |-> "end", job |-> call[t].job, verb |-> call[t].verb,
                                 id |-> call[t].id, data |-> call[t].data, ok |-> ok]]

Request(t) ==
    /\ call[t].at = "begin" /\ ser /\ req_id < MaxRequests
    /\ LET id == req_id + 1
       IN  /\ req_id' = id
           /\ tagged' = tagged \cup {id}
           /\ mailbox' = [mailbox EXCEPT ![id] = <<>>]
           /\ wire' = Append(wire, [id |-> id, verb |-> call[t].verb])
           /\ call' = [call EXCEPT ![t] = [at |-> "wait", job |-> call[t].job,
                                   verb |-> call[t].verb, id |-> id, data |-> FALSE]]
           /\ blind' = IF Blocked THEN blind \cup {id} ELSE blind
    /\ UNCHANGED <<ser, info, lines, executed, lost>>

\* The port was closed meanwhile: 'not connected', or the write fails.
NotConnected(t) ==
    /\ call[t].at = "begin" /\ ~ser
    /\ call' = [call EXCEPT ![t] = [at |-> "end", job |-> call[t].job, verb |-> call[t].verb,
                                    id |-> 0, data |-> FALSE, ok |-> FALSE]]
    /\ UNCHANGED <<transport, info, wire, lines, history>>

TakeMutant(t) ==             \* the first line that is no ERR is the answer
    /\ call[t].at = "wait" /\ mailbox[call[t].id] # <<>>
    /\ LET id   == call[t].id
       IN  /\ mailbox' = [mailbox EXCEPT ![id] = Tail(@)]
           /\ End(t, Head(mailbox[id]).what # "ERR")
           /\ tagged' = tagged \ {id}
    /\ UNCHANGED <<ser, req_id, info, wire, lines, history>>

\* A line of the mailbox: OK and ERR end the request, others are collected.
Take(t) ==
    /\ call[t].at = "wait" /\ mailbox[call[t].id] # <<>>
    /\ LET id   == call[t].id
           line == Head(mailbox[id])
       IN  /\ mailbox' = [mailbox EXCEPT ![id] = Tail(@)]
           /\ IF line.what = "DATA"
                THEN call' = [call EXCEPT ![t].data = TRUE] /\ UNCHANGED tagged
                ELSE End(t, line.what = "OK") /\ tagged' = tagged \ {id}
    /\ UNCHANGED <<ser, req_id, info, wire, lines, history>>

\* After 3 s (8 s).  An answer comes in time unless a part of it was lost, the main
\* thread waits, or the port was closed.
TimeOut(t) ==
    /\ call[t].at = "wait" /\ mailbox[call[t].id] = <<>>
    /\ call[t].id \in lost \/ Blocked
    /\ End(t, FALSE)
    /\ tagged' = tagged \ {call[t].id}
    /\ UNCHANGED <<ser, req_id, mailbox, info, wire, lines, history>>
-----------------------------------------------------------------------------
(* The main thread's event loop. *)

\* _init_after_connect, _on_uptime_save and its timer, _on_tag_set, _on_uptime_reset.
Start(w, job) ==
    /\ ~Blocked /\ ser /\ call[w] = Free
    /\ call' = [call EXCEPT ![w] = Begins(job, FirstVerb(job))]
    /\ UNCHANGED <<transport, info, wire, lines, history>>

DeliverMutant ==             \* the reader thread calls _on_line itself
    /\ lines # <<>>
    /\ LET line == Head(lines)
       IN  mailbox' = IF line.id \in tagged
                        THEN [mailbox EXCEPT ![line.id] = Append(@, line)] ELSE mailbox
    /\ lines' = Tail(lines)
    /\ UNCHANGED <<ser, req_id, tagged, call, info, wire, history>>

\* _on_line, the slot of line_received: a line without a mailbox is dropped.
Deliver ==
    /\ ~Blocked /\ lines # <<>>
    /\ LET line == Head(lines)
       IN  mailbox' = IF line.id \in tagged
                        THEN [mailbox EXCEPT ![line.id] = Append(@, line)] ELSE mailbox
    /\ lines' = Tail(lines)
    /\ UNCHANGED <<ser, req_id, tagged, call, info, wire, history>>

\* _do of _on_uptime_save: the second request of the worker.
ReadOn(w) ==
    /\ call[w].at = "end" /\ call[w].job = "save" /\ call[w].verb = "SET" /\ call[w].ok
    /\ call' = [call EXCEPT ![w] = Begins("save", "INFO?")]
    /\ UNCHANGED <<transport, info, wire, lines, history>>

\* _on_init_done, and _done of _on_uptime_save when its first request succeeded.
ReadDone(w) ==
    /\ ~Blocked /\ call[w].at = "end" /\ call[w].verb = "INFO?"
    /\ info' = Shown(call[w])
    /\ call' = [call EXCEPT ![w] = Free]
    /\ UNCHANGED <<transport, wire, lines, history>>

SetFailed(w) ==
    /\ ~Blocked /\ call[w].at = "end" /\ call[w].verb = "SET" /\ ~call[w].ok
    /\ call' = [call EXCEPT ![w] = Free]
    /\ UNCHANGED <<transport, info, wire, lines, history>>

\* _done of _on_tag_set and _on_uptime_reset: INFO is asked for here and now.
TagDone(w) ==
    /\ ~Blocked /\ call[w].at = "end" /\ call[w].job = "tag" /\ call[w].ok
    /\ call' = [call EXCEPT ![w] = Free, ![Main] = Begins("tag", "INFO?")]
    /\ blind' = blind \cup Waiting
    /\ UNCHANGED <<transport, info, wire, lines, executed, lost>>

MainDone ==
    /\ call[Main].at = "end"
    /\ info' = Shown(call[Main])
    /\ call' = [call EXCEPT ![Main] = Free]
    /\ UNCHANGED <<transport, wire, lines, history>>

\* disconnect, in a worker of _do_disconnect; what was emitted stays in the event queue.
Disconnect ==
    /\ ser
    /\ ser' = FALSE
    /\ lost' = lost \cup Waiting
    /\ UNCHANGED <<req_id, tagged, mailbox, call, info, wire, lines, executed, blind>>
-----------------------------------------------------------------------------
(* The beacon and the cable. *)

Answer(r) == IF r.verb = "INFO?" THEN <<Line(r.id, "DATA"), Line(r.id, "OK")>>
                                 ELSE <<Line(r.id, "OK")>>

\* A request, carried out in the order of arrival; the beacon sleeps, or a line of the
\* answer is damaged, or the port is closed.
Handle ==
    /\ wire # <<>>
    /\ wire' = Tail(wire)
    /\ LET r == Head(wire)
       IN  \/ /\ ser
              /\ executed' = executed \cup {r.id}
              /\ lines' = lines \o Answer(r)
              /\ UNCHANGED lost
           \/ /\ ser /\ r.verb = "SET"
              /\ lines' = Append(lines, Line(r.id, "ERR"))
              /\ UNCHANGED <<executed, lost>>
           \/ /\ executed' \in {executed, executed \cup {r.id}}
              /\ lines' \in IF ser /\ executed' # executed
                              THEN {lines} \cup {Append(lines, Answer(r)[i]) :
                                                   i \in 2..Len(Answer(r))}
                              ELSE {lines}
              /\ lost' = lost \cup {r.id}
    /\ UNCHANGED <<transport, call, info, blind>>
-----------------------------------------------------------------------------
Init ==
    /\ ser = TRUE /\ req_id = 0 /\ tagged = {}
    /\ mailbox = [id \in Ids |-> <<>>]
    /\ call = [t \in Threads |-> Free]
    /\ info = "none"
    /\ wire = <<>> /\ lines = <<>>
    /\ executed = {} /\ lost = {} /\ blind = {}

Next ==
    \/ \E w \in Workers : \/ \E job \in Jobs : Start(w, job)
                          \/ ReadOn(w) \/ ReadDone(w) \/ SetFailed(w) \/ TagDone(w)
    \/ \E t \in Threads : Request(t) \/ NotConnected(t) \/ Take(t) \/ TimeOut(t)
    \/ MainDone \/ Deliver \/ Disconnect \/ Handle

Spec == Init /\ [][Next]_vars
-----------------------------------------------------------------------------
Call == {Free}
  \cup [at : {"begin"}, job : Jobs, verb : {"SET", "INFO?"}]
  \cup [at : {"wait"}, job : Jobs, verb : {"SET", "INFO?"}, id : Ids, data : BOOLEAN]
  \cup [at : {"end"}, job : Jobs, verb : {"SET", "INFO?"}, id : Ids \cup {0},
        data : BOOLEAN, ok : BOOLEAN]

TypeOK ==
    /\ ser \in BOOLEAN /\ req_id \in 0..MaxRequests
    /\ tagged \subseteq Ids
    /\ mailbox \in [Ids -> Seq([id : Ids, what : {"DATA", "OK", "ERR"}])]
    /\ call \in [Threads -> Call]
    /\ info \in {"none", "real", "zeros"}
    /\ wire \in Seq([id : Ids, verb : {"SET", "INFO?"}])
    /\ lines \in Seq([id : Ids, what : {"DATA", "OK", "ERR"}])
    /\ executed \subseteq Ids /\ lost \subseteq Ids /\ blind \subseteq Ids

\* A request ends as the beacon answered it.  "OK" means that this request was carried
\* out, with its data unless a line was lost; a request that was carried out and
\* answered in full is reported as failed only if the main thread waited meanwhile.
Ended == {t \in Threads : call[t].at = "end"}
EndsAsAnswered ==
    \A t \in Ended :
        LET id == call[t].id
        IN  /\ call[t].ok => id \in executed
            /\ call[t].ok /\ call[t].verb = "INFO?" => call[t].data \/ id \in lost
            /\ ~call[t].ok /\ id \in executed => id \in lost \cup blind

\* "Calling read_info() from the main thread would block Qt's event loop and prevent the
\* reader thread signal from being delivered": such a reading never succeeds.
MainReadsNothing == Main \in Ended => ~call[Main].ok /\ ~call[Main].data
=============================================================================

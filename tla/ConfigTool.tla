----------------------------- MODULE ConfigTool -----------------------------
(***************************************************************************)
(* The first configuration tool: "SET key value" for every parameter, 60   *)
(* ms apart, without waiting for an answer.  The bare "OK" and "ERR" that  *)
(* come back carry no key: they are taken for the keys sent, in order.     *)
(* GET fills the widgets; SAVE, LOAD, RESET and the STATUS of every 3 s    *)
(* are sent in between.  The beacon of this tool is outside src/.          *)
(***************************************************************************)
EXTENDS Naturals, Sequences, SequencesExt

CONSTANTS Keys,                \* <<key, ...>>, the parameters in order
          MaxSends, MaxLines   \* bounds: commands sent; commands or lines under way

Key == {Keys[i] : i \in 1..Len(Keys)}
Val == {0, 1}

VARIABLES
    open, widgets,             \* the port, the values on the form
    ack_status, ack_pending,   \* the labels, the keys waiting
    chains,                    \* send_next timers: what is left to send
    wire, lines,               \* under way to the beacon, not yet parsed
    params,                    \* the beacon
    sends, asked, excused      \* history: the value of the latest SET; a SET could not be
                               \* written, or an answer was lost, or is not one to a SET
                               \* of this connection

tool == <<widgets, ack_status, ack_pending, chains>>
vars == <<open, tool, wire, lines, params, sends, asked, excused>>

Other  == [cmd |-> "other"]                    \* SAVE, RESET, typed commands
Get    == [cmd |-> "get"]
Set(k, v) == [cmd |-> "set", key |-> k, val |-> v]
Answer(text) == [text |-> text]
-----------------------------------------------------------------------------
\* _send.
Send(c) ==
    /\ sends < MaxSends /\ Len(wire) < MaxLines
    /\ sends' = sends + 1
    /\ wire' = Append(wire, c)

\* send_next: the first SET at once or the next after 60 ms, and _send_set, which does
\* nothing without a port; a write that raises leaves the key waiting and ends the chain.
SendSet(pairs, rest, labels) ==
    LET set == Head(pairs)
        more == IF Len(pairs) > 1 THEN Append(rest, Tail(pairs)) ELSE rest IN
    IF open
      THEN /\ ack_status' = [labels EXCEPT ![set.key] = "pending"]
           /\ ack_pending' = Append(ack_pending, set.key)
           /\ \/ /\ Send(set) /\ chains' = more
                 /\ asked' = [asked EXCEPT ![set.key] = set.val] /\ UNCHANGED excused
              \/ /\ sends < MaxSends /\ sends' = sends + 1 /\ chains' = rest
                 /\ excused' = TRUE /\ UNCHANGED <<wire, asked>>
      ELSE /\ ack_status' = labels /\ chains' = more
           /\ UNCHANGED <<sends, wire, ack_pending, asked, excused>>

\* _do_set_all; an earlier chain goes on.
DoSetAll ==
    /\ Len(chains) < 2
    /\ SendSet([i \in 1..Len(Keys) |-> Set(Keys[i], widgets[Keys[i]])], chains,
               [k \in Key |-> "none"])
    /\ UNCHANGED <<open, widgets, lines, params>>

SendNext ==
    /\ \E i \in 1..Len(chains) : SendSet(chains[i], RemoveAt(chains, i), ack_status)
    /\ UNCHANGED <<open, widgets, lines, params>>

Edit(k, v) ==
    /\ widgets[k] # v
    /\ widgets' = [widgets EXCEPT ![k] = v]
    /\ UNCHANGED <<open, ack_status, ack_pending, chains, wire, lines, params, sends,
                   asked, excused>>

\* _do_get, also 200 or 300 ms after LOAD, RESET and a connection.
DoGet ==
    /\ open /\ Send(Get)
    /\ UNCHANGED <<open, tool, lines, params, asked, excused>>

\* _do_save, _do_load, _do_reset, _auto_status, _send_manual.
DoOther ==
    /\ open /\ Send(Other)
    /\ UNCHANGED <<open, tool, lines, params, asked, excused>>

\* _clear_ack_state: what was answered before may still come.
ClearAckState ==
    /\ ack_pending' = <<>> /\ ack_status' = [k \in Key |-> "none"]

Connect ==
    /\ ~open /\ open' = TRUE
    /\ ClearAckState
    /\ excused' = (excused \/ lines # <<>>)
    /\ UNCHANGED <<widgets, chains, wire, lines, params, sends, asked>>

Disconnect ==
    /\ open /\ open' = FALSE
    /\ ClearAckState
    /\ wire' = <<>>
    /\ UNCHANGED <<widgets, chains, lines, params, sends, asked, excused>>
-----------------------------------------------------------------------------
PopMutant(status) ==         \* the key sent last
    IF ack_pending = <<>> THEN UNCHANGED <<ack_status, ack_pending>>
    ELSE /\ ack_status' = [ack_status EXCEPT ![ack_pending[Len(ack_pending)]] = status]
         /\ ack_pending' = SubSeq(ack_pending, 1, Len(ack_pending) - 1)

\* _update_ack_label of the oldest waiting key.
Pop(status) ==
    IF ack_pending = <<>> THEN UNCHANGED <<ack_status, ack_pending>>
    ELSE /\ ack_status' = [ack_status EXCEPT ![Head(ack_pending)] = status]
         /\ ack_pending' = Tail(ack_pending)

\* _poll_queue, _parse_line.
ParseLine ==
    /\ lines # <<>> /\ lines' = Tail(lines)
    /\ LET s == Head(lines) IN
         \/ s.text = "OK" /\ Pop("ok") /\ UNCHANGED widgets
         \/ s.text = "ERR" /\ Pop("err") /\ UNCHANGED widgets
         \/ /\ s.text = "value"
            /\ widgets' = s.of
            /\ UNCHANGED <<ack_status, ack_pending>>
    /\ UNCHANGED <<open, chains, wire, params, sends, asked, excused>>
-----------------------------------------------------------------------------
\* The beacon, as this tool takes it to be.  A command or an answer can be lost.

Prints(line) == Len(lines) < MaxLines /\ lines' = Append(lines, line)

Executes ==
    /\ wire # <<>> /\ wire' = Tail(wire)
    /\ LET w == Head(wire) IN
         \/ /\ w.cmd = "set" /\ params' = [params EXCEPT ![w.key] = w.val]
            /\ Prints(Answer("OK")) /\ UNCHANGED excused
         \/ w.cmd = "set" /\ UNCHANGED <<params, excused>> /\ Prints(Answer("ERR"))
         \/ /\ w.cmd = "get" /\ UNCHANGED <<params, excused>>
            /\ Prints([text |-> "value", of |-> params])
         \/ /\ w.cmd = "other" /\ UNCHANGED params
            /\ \/ (\E text \in {"OK", "ERR"} : Prints(Answer(text))) /\ excused' = TRUE
               \/ UNCHANGED <<lines, excused>>
         \/ excused' = TRUE /\ UNCHANGED <<lines, params>>
    /\ UNCHANGED <<open, tool, sends, asked>>
-----------------------------------------------------------------------------
Init ==
    /\ open = FALSE /\ widgets = [k \in Key |-> 0]
    /\ ack_status = [k \in Key |-> "none"] /\ ack_pending = <<>>
    /\ chains = <<>> /\ wire = <<>> /\ lines = <<>>
    /\ params = [k \in Key |-> 0]
    /\ sends = 0 /\ asked = [k \in Key |-> 0] /\ excused = FALSE

Next ==
    \/ DoSetAll \/ SendNext \/ DoGet \/ DoOther \/ Connect \/ Disconnect
    \/ \E k \in Key, v \in Val : Edit(k, v)
    \/ ParseLine \/ Executes

Spec == Init /\ [][Next]_vars
-----------------------------------------------------------------------------
TypeOK ==
    /\ open \in BOOLEAN /\ excused \in BOOLEAN
    /\ widgets \in [Key -> Val] /\ params \in [Key -> Val] /\ asked \in [Key -> Val]
    /\ ack_status \in [Key -> {"none", "pending", "ok", "err"}]
    /\ ack_pending \in Seq(Key)
    /\ Len(wire) <= MaxLines /\ Len(lines) <= MaxLines /\ sends \in 0..MaxSends

\* A parameter marked as set, and not waiting again, has in the beacon the value that
\* was sent last, unless a SET could not be written, an answer was lost, or one came that
\* was for another command or an earlier connection.
LabelIsTrue ==
    \A k \in Key :
        ~excused /\ ack_status[k] = "ok" /\ k \notin {ack_pending[i] : i \in 1..Len(ack_pending)}
            => params[k] = asked[k]
=============================================================================

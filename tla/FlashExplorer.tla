--------------------------- MODULE FlashExplorer ---------------------------
(***************************************************************************)
(* The flash explorer: pages of the beacon's flash are read (one, or a     *)
(* range with a timer between two), erased and written with text commands  *)
(* over a serial worker thread.  The rows of a reading carry no page       *)
(* number, and the line before them that does is not looked at: what       *)
(* arrives while a command is pending is taken for its answer, and after   *)
(* 8 s nothing is expected any more.                                       *)
(***************************************************************************)
EXTENDS Naturals, Sequences, FiniteSets

CONSTANTS Pages,      \* the pages looked at
          Rows,       \* rows of a page
          MaxSends,   \* bound: commands sent
          MaxWire, MaxLines,   \* bounds: commands and lines on the way,
          MaxTimers   \* of timers and events of each kind

VARIABLES
    worker, port, gone,         \* self.worker is set; the thread's port; "disconnected"
                                \* and "error" events not yet handled
    pending,                    \* the pending command with Nothing when
                                \* cmd_busy is False
    timer, stray, shots,        \* its timeout, those of earlier ones, range timers
    range_queue,
    page_words, page_status,
    sends, wire, lines,         \* commands under way, lines not yet handled
    flash,                      \* the beacon's pages
    unsure                      \* history: a change of these was not told, or what was
                                \* told of them may be another command's

link == <<worker, port, gone>>
cmd  == <<pending, timer, stray>>
map  == <<page_words, page_status>>
vars == <<link, cmd, shots, range_queue, map, sends, wire, lines, flash, unsure>>

Nothing == [kind |-> "none"]
None    == <<>>                                     \* page_words[p] is None
busy    == pending # Nothing

InOrder(S) == CHOOSE q \in [1..Cardinality(S) -> S] :
                \A i, j \in 1..Cardinality(S) : i < j => q[i] < q[j]
Row(p, i) == [kind |-> "row", page |-> p, row |-> i, val |-> flash[p]]
-----------------------------------------------------------------------------
\* _send_cmd, when self.worker is set.  No other command is unanswered: clean.
SendCmd(kind, p, chained) ==
    /\ sends < MaxSends /\ sends' = sends + 1 /\ Len(wire) < MaxWire
    /\ pending' = [kind |-> kind, page |-> p, chained |-> chained,
                   buf |-> <<>>, clean |-> wire = <<>> /\ lines = <<>>]
    /\ wire' = IF port = "open" THEN Append(wire, [kind |-> kind, page |-> p]) ELSE wire
    /\ timer' = TRUE
    /\ stray' = stray + (IF timer THEN 1 ELSE 0) /\ stray' <= MaxTimers

\* _cmd_read.
CmdRead(p) ==
    /\ worker /\ ~busy
    /\ SendCmd("frd", p, FALSE)
    /\ UNCHANGED <<link, shots, range_queue, map, lines, flash, unsure>>

\* _cmd_read_range, _cmd_read_sel; the first page too waits for the timer.
CmdReadPages(S) ==
    /\ worker /\ ~busy
    /\ range_queue' = InOrder(S)
    /\ shots < MaxTimers /\ shots' = shots + 1
    /\ UNCHANGED <<link, cmd, map, sends, wire, lines, flash, unsure>>

\* _range_queue_cb.  Without a worker the call of its send fails: the command stays
\* pending, with no timeout.
RangeQueueCb ==
    /\ shots > 0 /\ shots' = shots - 1
    /\ IF range_queue = <<>> \/ busy
         THEN UNCHANGED <<cmd, range_queue, sends, wire>>
         ELSE /\ range_queue' = Tail(range_queue)
              /\ IF worker
                   THEN SendCmd("frd", Head(range_queue), TRUE)
                   ELSE /\ pending' = [kind |-> "frd", page |-> Head(range_queue),
                                       chained |-> TRUE, buf |-> <<>>, clean |-> FALSE]
                        /\ UNCHANGED <<timer, stray, sends, wire>>
    /\ UNCHANGED <<link, map, lines, flash, unsure>>

\* _cmd_erase, _cmd_write, after the question for some pages.
CmdChange(kind, p) ==
    /\ worker /\ ~busy
    /\ SendCmd(kind, p, FALSE)
    /\ UNCHANGED <<link, shots, range_queue, map, lines, flash, unsure>>

\* _send_uart_cmd: at once, also while a command is pending.
SendUartCmd(kind, p) ==
    /\ worker /\ Len(wire) < MaxWire /\ sends < MaxSends /\ sends' = sends + 1
    /\ wire' = IF port = "open" THEN Append(wire, [kind |-> kind, page |-> p]) ELSE wire
    /\ pending' = IF busy THEN [pending EXCEPT !.clean = FALSE] ELSE pending
    /\ unsure' = IF kind = "frd" THEN unsure ELSE unsure \cup {p}
    /\ UNCHANGED <<link, timer, stray, shots, range_queue, map, lines, flash>>

\* What a given-up command changes is not told any more.
GiveUp == /\ pending' = Nothing
          /\ unsure' = IF busy /\ pending.kind # "frd" THEN unsure \cup {pending.page}
                                                         ELSE unsure

\* _on_timeout; the timer of a command that _disconnect ended was not cancelled.
OnTimeout ==
    /\ \/ timer /\ timer' = FALSE /\ UNCHANGED stray
       \/ stray > 0 /\ stray' = stray - 1 /\ UNCHANGED timer
    /\ GiveUp
    /\ UNCHANGED <<link, shots, range_queue, map, sends, wire, lines, flash>>
-----------------------------------------------------------------------------
\* _parse_response.

Answered ==
    /\ timer' = FALSE /\ pending' = Nothing
    /\ shots' = shots + (IF pending.chained THEN 1 ELSE 0)

\* What a page is taken to be; sure when no other command was unanswered.
Told(p, rows, status) ==
    /\ page_words' = [page_words EXCEPT ![p] = rows]
    /\ page_status' = [page_status EXCEPT ![p] = status]
    /\ unsure' = IF pending.clean THEN unsure \ {p} ELSE unsure \cup {p}

\* The rows of the page, whichever command they answer.
TakeRow(line) ==
    LET rows == Append(pending.buf, line) IN
    /\ pending.kind = "frd" /\ line.kind = "row"
    /\ IF Len(rows) < Rows
         THEN /\ pending' = [pending EXCEPT !.buf = rows]
              /\ UNCHANGED <<timer, shots, map, unsure>>
         ELSE /\ Told(pending.page, rows,
                     IF \A i \in 1..Rows : rows[i].val = "FF" THEN "erased" ELSE "data")
              /\ Answered

TakeOkMutant(line) ==        \* what was read is kept
    /\ line.kind = pending.kind /\ line.kind # "row" /\ line.ok
    /\ Told(pending.page, page_words[pending.page],
            IF line.kind = "ferase" THEN "erased" ELSE "data")
    /\ Answered

\* "erased OK", "FWRITE ... OK": what was read is forgotten.
TakeOk(line) ==
    /\ line.kind = pending.kind /\ line.kind # "row" /\ line.ok
    /\ Told(pending.page, None, IF line.kind = "ferase" THEN "erased" ELSE "data")
    /\ Answered

\* "FERASE ... FAILED", "FWRITE ... FAILED": what was read is kept.
TakeFailed(line) ==
    /\ line.kind = pending.kind /\ line.kind # "row" /\ ~line.ok
    /\ page_status' = [page_status EXCEPT ![pending.page] = "error"]
    /\ timer' = FALSE /\ pending' = Nothing
    /\ unsure' = unsure \cup {pending.page}
    /\ UNCHANGED <<shots, page_words>>

Takes(line) == busy /\ line.kind = IF pending.kind = "frd" THEN "row" ELSE pending.kind

\* _poll.
PollLine ==
    /\ lines # <<>> /\ lines' = Tail(lines)
    /\ LET line == Head(lines) IN
         IF Takes(line)
           THEN TakeRow(line) \/ TakeOk(line) \/ TakeFailed(line)
           ELSE UNCHANGED <<pending, timer, shots, map, unsure>>
    /\ UNCHANGED <<link, stray, range_queue, sends, wire, flash>>
-----------------------------------------------------------------------------
\* The worker thread and its port.

\* _connect: a port that is still in use fails to open.
Connect ==
    /\ ~worker /\ worker' = TRUE
    /\ IF port = "free" THEN port' = "open" /\ UNCHANGED gone
                        ELSE gone < MaxTimers /\ gone' = gone + 1 /\ UNCHANGED port
    /\ UNCHANGED <<cmd, shots, range_queue, map, sends, wire, lines, flash, unsure>>

\* _disconnect; the timeout and the range go on.
Disconnect ==
    /\ worker /\ worker' = FALSE
    /\ port' = IF port = "open" THEN "stopping" ELSE port
    /\ GiveUp
    /\ UNCHANGED <<gone, timer, stray, shots, range_queue, map, sends, wire,
                   lines, flash>>

\* The thread ends, stopped or because the port has gone.
ThreadEnds ==
    /\ port # "free" /\ port' = "free"
    /\ gone < MaxTimers /\ gone' = gone + 1
    /\ wire' = <<>>
    /\ UNCHANGED <<worker, cmd, shots, range_queue, map, sends, lines, flash, unsure>>

\* _handle_event: whichever worker it was.
HandleGone ==
    /\ gone > 0 /\ gone' = gone - 1
    /\ worker' = FALSE
    /\ UNCHANGED <<port, cmd, shots, range_queue, map, sends, wire, lines, flash, unsure>>
-----------------------------------------------------------------------------
\* The beacon: frd, ferase and fwrite of its serial commands, the latter two for the
\* pages 59 to 67 only.

\* "[FRD] page=", "[FWRITE] page=" and "REFUSED": a line that no command of the explorer
\* takes.
Remark(w) == [kind |-> "remark", page |-> w.page]
Refused(w) == w.kind # "frd" /\ w.page \notin 59..67
Answer(w, ok) ==
    IF w.kind = "frd" THEN <<Remark(w)>> \o [i \in 1..Rows |-> Row(w.page, i)]
    ELSE IF Refused(w) THEN <<Remark(w)>>
    ELSE IF w.kind = "fwrite" THEN <<Remark(w), [kind |-> w.kind, ok |-> ok]>>
    ELSE <<[kind |-> w.kind, ok |-> ok]>>
Whole(out, S) == [k \in 1..Cardinality(S) |-> out[InOrder(S)[k]]]  \* these lines of it

\* A line of the answer may be damaged, and a remark is as good as that.  What failed
\* may have changed the page or not, and so may what nothing is heard of.
Executes ==
    /\ wire # <<>> /\ port # "free" /\ wire' = Tail(wire)
    /\ LET w == Head(wire) IN \E ok \in BOOLEAN :
         /\ \/ ~ok /\ UNCHANGED flash
            \/ flash' = IF w.kind = "frd" \/ Refused(w) THEN flash
                        ELSE [flash EXCEPT ![w.page] = IF w.kind = "ferase" THEN "FF"
                                                                             ELSE "word"]
         /\ \E S \in SUBSET {k \in 1..Len(Answer(w, ok)) : Answer(w, ok)[k].kind # "remark"} :
              /\ Len(lines) + Cardinality(S) <= MaxLines
              /\ lines' = lines \o Whole(Answer(w, ok), S)
    /\ UNCHANGED <<link, cmd, shots, range_queue, map, sends, unsure>>
-----------------------------------------------------------------------------
Init ==
    /\ worker = FALSE /\ port = "free" /\ gone = 0 /\ sends = 0
    /\ pending = Nothing
    /\ timer = FALSE /\ stray = 0 /\ shots = 0 /\ range_queue = <<>>
    /\ page_words = [p \in Pages |-> None] /\ page_status = [p \in Pages |-> "unknown"]
    /\ wire = <<>> /\ lines = <<>>
    /\ flash = [p \in Pages |-> "word"] /\ unsure = {}

Next ==
    \/ \E p \in Pages : \/ CmdRead(p)
                        \/ \E k \in {"ferase", "fwrite"} : CmdChange(k, p)
                        \/ \E k \in {"frd", "ferase"} : SendUartCmd(k, p)
    \/ \E S \in SUBSET Pages : S # {} /\ CmdReadPages(S)
    \/ RangeQueueCb \/ OnTimeout \/ PollLine
    \/ Connect \/ Disconnect \/ ThreadEnds \/ HandleGone
    \/ Executes

Spec == Init /\ [][Next]_vars
-----------------------------------------------------------------------------
TypeOK ==
    /\ sends \in 0..MaxSends /\ worker \in BOOLEAN /\ gone \in 0..MaxTimers
    /\ port \in {"free", "open", "stopping"} /\ timer \in BOOLEAN
    /\ busy => Len(pending.buf) < Rows
    /\ \A p \in Pages : Len(page_words[p]) \in {0, Rows}
    /\ page_status \in [Pages -> {"unknown", "erased", "data", "error"}]
    /\ stray \in 0..MaxTimers /\ shots \in Nat
    /\ range_queue \in Seq(Pages)
    /\ flash \in [Pages -> {"FF", "word"}] /\ unsure \subseteq Pages

\* A page that is shown has the rows of this page, in order, as they are in flash, and a
\* page marked as erased is blank, whatever lines and commands are lost, refused or given
\* up: unless another command or its lines were still under way when the page was read
\* or changed, or a later change of it is pending, failed or was not confirmed.  The
\* beacon's own writes are left aside.
Changing(p) == busy /\ pending.kind # "frd" /\ pending.page = p
PageIsShown ==
    \A p \in Pages : p \notin unsure /\ ~Changing(p) =>
        /\ page_words[p] # None => page_words[p] = [i \in 1..Rows |-> Row(p, i)]
        /\ page_status[p] = "erased" => flash[p] = "FF"
=============================================================================

------------------------------ MODULE CmdQueue ------------------------------
(***************************************************************************)
(* The command queue of the first UART program: "Save & Restart" and the   *)
(* loading of a profile send text commands one at a time, each when the    *)
(* one before has its acknowledgement (a line with the tag of the command) *)
(* or 1.5 s have passed; a single command of the other controls is sent    *)
(* at once.  The beacon answers in order, may miss a command or leave one  *)
(* unanswered, and saves its settings by itself.  A command sent is known  *)
(* by its number.                                                          *)
(***************************************************************************)
EXTENDS Naturals, Sequences, SequencesExt

CONSTANTS MaxSends,      \* bound: commands written
          MaxLines       \* bound: commands and lines on the wire, each

VARIABLES
    open,                            \* the port
    queue, current, results, ramIdx, timer, onDone,     \* CmdQueue
    polls,                           \* _poll_queue is scheduled
    wire, lines,                     \* commands under way; lines not yet handled
    executed, saved, pending,        \* the beacon: numbers of commands
    sends                            \* history: numbers given

cmdq   == <<queue, current, results, ramIdx, timer, onDone>>
beacon == <<executed, saved, pending>>
vars   == <<open, cmdq, polls, wire, lines, beacon, sends>>

\* _do_save, _profile_to_beacon; with one setting of a tag of its own and one of the
\* schedule.
SaveCmds    == <<"mode", "hours", "save">>
ProfileCmds == <<"mode", "hours">>
Single      == {"mode", "hwsave"}
Cmd         == ToSet(SaveCmds) \cup Single \cup {"reset"}

\* _ack_for_cmd; "" takes any line that is no error.
Ack(c)  == CASE c \in {"hours", "days"}    -> "sched"
             [] c \in {"save", "hwsave"}   -> "saved OK"
             [] c = "reset"                -> ""
             [] OTHER                      -> c
Autosaved == "auto-saved"
Inactive  == "sched"                 \* "[SCHED] inactive", unasked
NoCmd     == [cmd |-> "none"]

\* No other line with the tag of a command can come: none is under way, and the
\* beacon prints none by itself.
Clear(c) == /\ Ack(c) \notin {"", "sched"}
            /\ \A k \in 1..Len(wire)  : Ack(wire[k].cmd) # Ack(c)
            /\ \A k \in 1..Len(lines) : lines[k] # Ack(c)
-----------------------------------------------------------------------------
\* _cmd_raw: nothing is written to a port that is closed.
Transmit(c) ==
    /\ sends' = sends + 1
    /\ wire' = IF open THEN Append(wire, [cmd |-> c, n |-> sends + 1]) ELSE wire

\* _send_next with a command: the write of a port that is gone raises, before the
\* timer is started; in the handling of a line that ends the polling too.
Send(c, todo, handling) ==
    /\ sends < MaxSends /\ Len(wire) < MaxLines
    /\ current' = [cmd |-> c, n |-> sends + 1, clear |-> Clear(c)]
    /\ queue' = todo
    /\ \/ Transmit(c) /\ timer' = TRUE /\ UNCHANGED polls
       \/ /\ open /\ timer' = FALSE /\ polls' = (polls /\ ~handling)
          /\ sends' = sends + 1 /\ UNCHANGED wire

RunMutant(cmds, done, handling) ==       \* _last_ram_idx is not reset
    /\ results' = <<>> /\ onDone' = done /\ UNCHANGED ramIdx
    /\ Send(Head(cmds), Tail(cmds), handling)

\* run.
Run(cmds, done, handling) ==
    /\ results' = <<>> /\ ramIdx' = 0 /\ onDone' = done
    /\ Send(Head(cmds), Tail(cmds), handling)

\* _send_next, with the results rs; the on_done of _do_save resets the beacon when
\* nothing has failed.
SendNext(rs, ram, handling) ==
    IF queue # <<>>
      THEN /\ results' = rs /\ ramIdx' = ram /\ UNCHANGED onDone
           /\ Send(Head(queue), Tail(queue), handling)
      ELSE IF onDone = "save" /\ \A i \in 1..Len(rs) : rs[i].status \in {"ram", "flash"}
        THEN Run(<<"reset">>, "none", handling)
        ELSE /\ results' = rs /\ ramIdx' = ram /\ timer' = FALSE
             /\ current' = NoCmd
             /\ UNCHANGED <<queue, onDone, polls, wire, sends>>

Result(status) == [status |-> status, cmd |-> current.cmd, n |-> current.n,
                   clear |-> current.clear]
-----------------------------------------------------------------------------
(* The user.  A run replaces the one under way. *)

DoSave ==
    /\ open
    /\ Run(SaveCmds, "save", FALSE)
    /\ UNCHANGED <<open, lines, beacon>>

ProfileToBeacon ==
    /\ open
    /\ Run(ProfileCmds, "report", FALSE)
    /\ UNCHANGED <<open, lines, beacon>>

\* _cmd: at once, also while the queue is busy.
SingleCmd(c) ==
    /\ open
    /\ sends < MaxSends /\ Len(wire) < MaxLines
    /\ Transmit(c)
    /\ current' = IF current # NoCmd /\ Ack(current.cmd) = Ack(c)
                    THEN [current EXCEPT !.clear = FALSE] ELSE current
    /\ UNCHANGED <<open, queue, results, ramIdx, timer, onDone, polls, lines, beacon>>

Connect ==
    /\ ~open /\ open' = TRUE
    /\ UNCHANGED <<cmdq, polls, wire, lines, beacon, sends>>

\* What the reader thread has put into rx_queue stays there.
Disconnect ==
    /\ open /\ open' = FALSE
    /\ wire' = <<>>
    /\ UNCHANGED <<cmdq, polls, lines, beacon, sends>>
-----------------------------------------------------------------------------
(* on_line, from _poll_queue, and _on_timeout. *)

IsErr(line) == line = "ERR"
HitsMutant(line) ==          \* the first line that is no error, for every command
    current # NoCmd /\ ~IsErr(line)
Hits(line)  == current # NoCmd /\ IF Ack(current.cmd) = "" THEN ~IsErr(line)
                                  ELSE line = Ack(current.cmd)

\* "[CFG] auto-saved" confirms the latest result that is known to be in RAM.
Upgraded(line) ==
    IF line = Autosaved /\ ramIdx \in 1..Len(results)
      THEN [results EXCEPT ![ramIdx].status = "flash"] ELSE results
RamLeft(line)  == IF line = Autosaved THEN 0 ELSE ramIdx

OnAck ==
    /\ polls /\ lines # <<>> /\ Hits(Head(lines))
    /\ LET old == Upgraded(Head(lines))
           st  == IF Head(lines) = "saved OK" THEN "flash" ELSE "ram"
           rs  == Append(old, Result(st))
       IN  SendNext(rs, IF st = "ram" THEN Len(rs) ELSE 0, TRUE)
    /\ lines' = Tail(lines)
    /\ UNCHANGED <<open, beacon>>

OnErr ==
    /\ polls /\ lines # <<>> /\ ~Hits(Head(lines))
    /\ current # NoCmd /\ IsErr(Head(lines))
    /\ SendNext(Append(results, Result("failed")), 0, TRUE)
    /\ lines' = Tail(lines)
    /\ UNCHANGED <<open, beacon>>

OnOtherLine ==
    /\ polls /\ lines # <<>> /\ ~Hits(Head(lines))
    /\ current = NoCmd \/ ~IsErr(Head(lines))
    /\ results' = Upgraded(Head(lines)) /\ ramIdx' = RamLeft(Head(lines))
    /\ lines' = Tail(lines)
    /\ UNCHANGED <<open, queue, current, timer, onDone, polls, wire, beacon, sends>>

OnTimeout ==
    /\ timer
    /\ SendNext(Append(results, Result("TIMEOUT")), 0, FALSE)
    /\ UNCHANGED <<open, lines, beacon>>
-----------------------------------------------------------------------------
(* The beacon. *)

Prints(line) == Len(lines) < MaxLines /\ lines' = Append(lines, line)

\* Settings are saved later; "hwdesc save" saves something else; a reset loads flash.
Executes ==
    /\ wire # <<>> /\ open
    /\ LET w == Head(wire)
       IN  /\ executed' = executed \cup {w.n}
           /\ saved' = IF w.cmd = "save" THEN saved \cup executed \cup {w.n} ELSE saved
           /\ pending' = IF w.cmd \in {"save", "reset"} THEN FALSE
                         ELSE pending \/ w.cmd # "hwsave"
           /\ \/ /\ w.cmd # "reset"
                 /\ Prints(Ack(w.cmd))
              \/ UNCHANGED lines
    /\ wire' = Tail(wire)
    /\ UNCHANGED <<open, cmdq, polls, sends>>

\* Asleep, or the line was damaged.
Misses ==
    /\ wire # <<>> /\ open
    /\ Prints("ERR") \/ UNCHANGED lines
    /\ wire' = Tail(wire)
    /\ UNCHANGED <<open, cmdq, polls, beacon, sends>>

AutoSaves ==
    /\ pending
    /\ pending' = FALSE /\ saved' = saved \cup executed
    /\ IF open THEN Prints(Autosaved) ELSE UNCHANGED lines
    /\ UNCHANGED <<open, cmdq, polls, wire, executed, sends>>

\* The schedule's line before the beacon sleeps.
Reports ==
    /\ open /\ Inactive \notin ToSet(lines)
    /\ Prints(Inactive)
    /\ UNCHANGED <<open, cmdq, polls, wire, beacon, sends>>
-----------------------------------------------------------------------------
Init ==
    /\ open = FALSE
    /\ queue = <<>> /\ current = NoCmd /\ results = <<>> /\ ramIdx = 0
    /\ timer = FALSE /\ onDone = "none" /\ polls = TRUE
    /\ wire = <<>> /\ lines = <<>>
    /\ executed = {} /\ saved = {} /\ pending = FALSE
    /\ sends = 0

Next == \/ DoSave \/ ProfileToBeacon \/ Connect \/ Disconnect
        \/ \E c \in Single : SingleCmd(c)
        \/ OnAck \/ OnErr \/ OnOtherLine \/ OnTimeout
        \/ Executes \/ Misses \/ AutoSaves \/ Reports

Spec == Init /\ [][Next]_vars
-----------------------------------------------------------------------------
InFlight == [cmd : Cmd, n : 1..MaxSends, clear : BOOLEAN]
TypeOK ==
    /\ open \in BOOLEAN /\ timer \in BOOLEAN /\ polls \in BOOLEAN /\ pending \in BOOLEAN
    /\ queue \in Seq(Cmd) /\ current \in InFlight \cup {NoCmd}
    /\ results \in Seq([status : {"ram", "flash", "failed", "TIMEOUT"}, cmd : Cmd,
                        n : 1..MaxSends, clear : BOOLEAN])
    /\ ramIdx \in 0..Len(results)
    /\ onDone \in {"none", "save", "report"}
    /\ wire \in Seq([cmd : Cmd, n : 1..MaxSends])
    /\ lines \in Seq({"ERR", "auto-saved", "sched", "saved OK", "mode"})
    /\ executed \subseteq 1..sends /\ saved \subseteq executed
    /\ sends \in 0..MaxSends

\* What the report says of a command was so, "RAM" was executed and "flash" was saved,
\* when no other line could have its tag: no command of this tag, nor a line, was under
\* way, and the tag is one the beacon prints for a command only ("sched", which it prints
\* by itself, and "", which every line has, are not).  So it is when acknowledgements of
\* other tags come late, are missing, or are errors of other commands.
ReportIsTrue ==
    \A i \in 1..Len(results) :
        results[i].clear => /\ results[i].status = "ram"   => results[i].n \in executed
                            /\ results[i].status = "flash" => results[i].n \in saved
=============================================================================

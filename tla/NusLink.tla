------------------------------ MODULE NusLink ------------------------------
(***************************************************************************)
(* Requests over the Nordic UART Service, during one connection: a client  *)
(* (NusTransport of the phone app, BleTransport of the PC program) writes  *)
(* tagged lines in chunks of the link's MTU, the beacon gathers the chunks *)
(* into lines, executes them and notifies its answer in pieces, and the    *)
(* client gathers the pieces into lines and gives each to the request with *)
(* its tag.                                                                *)
(*                                                                         *)
(* A chunk is <<r, k>>, the k-th of request r: the first holds '#', the tag *)
(* and the verb, the others only hexadecimal digits, the last the end of   *)
(* the line.  A piece of an answer is <<"head", r>> for "#r RSP ",         *)
(* <<"data", l>> for the digits answered to line l, <<"end">> for the end  *)
(* of that line and <<"ok", r>>, <<"err", r>> for the lines that conclude. *)
(***************************************************************************)
EXTENDS Naturals, Sequences

CONSTANTS Req,      \* requests
          Long,     \* the requests that take two chunks
          Clients,  \* which programs the client may be
          Faults    \* what may fail

FaultKinds == {"drop", "write", "stall", "disconnect"}

ASSUME ReqAssumption    == Long \subseteq Req
ASSUME ClientAssumption == Clients \subseteq {"app", "gui"}
ASSUME FaultAssumption  == Faults \subseteq FaultKinds

VARIABLES
  client,     \* the program
  connected,  \* the link is up
  place,      \* where the program is with each request
  written,    \* chunks of each request that have been written
  to_mcu,     \* chunks on their way
  line,       \* s_rx_line of the beacon
  executed,   \* history: the lines the beacon has executed
  from_mcu,   \* pieces on their way
  rx_buf,     \* _rxBuf, _rx_buf: pieces of an unfinished line
  lines,      \* data lines of each request in _pending, _tagged
  result      \* what each request has returned

vars == <<client, connected, place, written, to_mcu, line, executed, from_mcu, rx_buf,
          lines, result>>

Places == {"new", "writing", "waiting", "stalled", "ended"}

Chunks(r)  == IF r \in Long THEN 2 ELSE 1
Whole(r)   == [k \in 1 .. Chunks(r) |-> <<r, k>>]
EndsLine(c) == c[2] = Chunks(c[1])

\* What requests return: nothing yet, a failure (0xFF), the data answered to a
\* line, or CMD_OK without data.
None    == <<"none">>
Failed  == <<"failed">>
Bare    == <<"bare">>
Data(l) == <<"data", l>>

-----------------------------------------------------------------------------
(* The client writes.                                                      *)

MayBeginMutant(r) == TRUE           \* no lock

\* BleTransport holds _ble_cmd_lock while a request is on.
MayBegin(r) ==
  client = "gui" => \A q \in Req : place[q] \notin {"writing", "waiting"}

Begin(r) ==
  /\ place[r] = "new" /\ MayBegin(r)
  /\ IF connected
     THEN place' = [place EXCEPT ![r] = "writing"] /\ UNCHANGED result
     ELSE place' = [place EXCEPT ![r] = "ended"] /\ result' = [result EXCEPT ![r] = Failed]
  /\ UNCHANGED <<client, connected, written, to_mcu, line, executed, from_mcu, rx_buf, lines>>

FailMutant(r) ==           \* the request ends without a result
  /\ place' = [place EXCEPT ![r] = "ended"]
  /\ lines' = [lines EXCEPT ![r] = <<>>]
  /\ UNCHANGED <<client, connected, written, to_mcu, line, executed, from_mcu, rx_buf, result>>

\* The request is taken out of _pending and fails.
Fail(r) ==
  /\ place' = [place EXCEPT ![r] = "ended"]
  /\ result' = [result EXCEPT ![r] = Failed]
  /\ lines' = [lines EXCEPT ![r] = <<>>]
  /\ UNCHANGED <<client, connected, written, to_mcu, line, executed, from_mcu, rx_buf>>

\* Between the chunks of a request the program does other things for 10 ms.
WriteChunk(r) ==
  /\ place[r] \in {"writing", "stalled"} /\ connected
  /\ written[r] < Chunks(r)
  /\ written' = [written EXCEPT ![r] = @ + 1]
  /\ to_mcu' = Append(to_mcu, <<r, written[r] + 1>>)
  /\ place' = IF place[r] = "writing" /\ written'[r] = Chunks(r)
              THEN [place EXCEPT ![r] = IF result[r] = None THEN "waiting" ELSE "ended"]
              ELSE place
  /\ UNCHANGED <<client, connected, line, executed, from_mcu, rx_buf, lines, result>>

WriteFails(r) ==
  /\ place[r] = "writing"
  /\ ~connected \/ "write" \in Faults
  /\ Fail(r)

\* BleTransport gives up the wait for its writes after 5 s; they go on.
WriteStalls(r) ==
  /\ client = "gui" /\ "stall" \in Faults
  /\ place[r] = "writing"
  /\ place' = [place EXCEPT ![r] = "stalled"]
  /\ result' = [result EXCEPT ![r] = Failed]
  /\ lines' = [lines EXCEPT ![r] = <<>>]
  /\ UNCHANGED <<client, connected, written, to_mcu, line, executed, from_mcu, rx_buf>>

\* No answer in time, however late it comes.
Timeout(r) == place[r] = "waiting" /\ Fail(r)

-----------------------------------------------------------------------------
(* The beacon.                                                             *)

AnswerMutant(l) ==         \* the answer has the tag of the last request begun
  LET r == l[Len(l)][1]
  IN  <<<<"head", r>>, <<"data", l>>, <<"end">>, <<"ok", r>>>>

\* "#r RSP ", the digits, the end of the line and "#r OK" are sent one by one.
Answer(l) == LET r == l[1][1]
             IN  <<<<"head", r>>, <<"data", l>>, <<"end">>, <<"ok", r>>>>

Refusal(l) == <<<<"err", l[1][1]>>>>

Tagged(l) == l[1][2] = 1                           \* it begins with '#'
AllHex(l) == \A i \in 2 .. Len(l) : l[i][2] # 1    \* and has no other

\* Proto_HandleLine and _do_cmd look at the tag, the digits and their number: a
\* line of digits that are not all its own may have the right number of them.
HandleLine(l) ==
  \/ /\ Tagged(l) /\ AllHex(l)
     /\ executed' = executed \union {l}
     /\ from_mcu' = from_mcu \o Answer(l)
  \/ /\ Tagged(l)
     /\ UNCHANGED executed
     /\ from_mcu' = from_mcu \o Refusal(l)
  \/ /\ ~Tagged(l)
     /\ UNCHANGED <<executed, from_mcu>>

\* _EventHandler gathers the chunks up to the end of a line.
McuTakes ==
  /\ to_mcu # <<>>
  /\ to_mcu' = Tail(to_mcu)
  /\ LET l == Append(line, Head(to_mcu))
     IN  IF EndsLine(Head(to_mcu))
         THEN line' = <<>> /\ HandleLine(l)
         ELSE line' = l /\ UNCHANGED <<executed, from_mcu>>
  /\ UNCHANGED <<client, connected, place, written, rx_buf, lines, result>>

\* NUS_TX_Send gives up a piece that CPU2 has no room for; the next are sent.
PieceLost ==
  /\ "drop" \in Faults /\ from_mcu # <<>>
  /\ from_mcu' = Tail(from_mcu)
  /\ UNCHANGED <<client, connected, place, written, to_mcu, line, executed, rx_buf, lines,
                 result>>

-----------------------------------------------------------------------------
(* The client reads.                                                       *)

Pending(r) == place[r] \in {"writing", "waiting"} /\ result[r] = None

\* What _sendCmdParsed and send_cmd make of the data lines of a request that
\* has been concluded by OK.
Parsed(ls) ==
  IF ls = <<>> THEN Bare
  ELSE IF Len(Head(ls)) = 2 /\ Head(ls)[1][1] = "data" /\ Head(ls)[2] = <<"end">>
  THEN Head(ls)[1]
  ELSE IF client = "app" THEN Bare ELSE Failed

OnLineMutant(l) ==         \* a refusal concludes a request as well as OK
  LET r == l[1][2]
  IN  IF l[1][1] \in {"ok", "err"} /\ Pending(r)
      THEN /\ place' = [place EXCEPT ![r] = IF @ = "waiting" THEN "ended" ELSE @]
           /\ result' = [result EXCEPT ![r] = Parsed(lines[r])]
           /\ lines' = [lines EXCEPT ![r] = <<>>]
      ELSE UNCHANGED <<place, result, lines>>

\* _onLine, _on_line: a line goes to the request with its tag, and is
\* telemetry when it has none.
OnLine(l) ==
  LET r == l[1][2]
  IN  CASE l[1][1] \in {"ok", "err"} /\ Pending(r) ->
             /\ place' = [place EXCEPT ![r] = IF @ = "waiting" THEN "ended" ELSE @]
             /\ result' = [result EXCEPT ![r] =
                             IF l[1][1] = "ok" THEN Parsed(lines[r]) ELSE Failed]
             /\ lines' = [lines EXCEPT ![r] = <<>>]
       [] l[1][1] = "head" /\ Pending(r) ->
             /\ lines' = [lines EXCEPT ![r] = Append(@, Tail(l))]
             /\ UNCHANGED <<place, result>>
       [] OTHER -> UNCHANGED <<place, result, lines>>

\* _onNotify, _on_notify gather the pieces up to the end of a line.
OnNotify ==
  /\ from_mcu # <<>>
  /\ from_mcu' = Tail(from_mcu)
  /\ LET l == Append(rx_buf, Head(from_mcu))
     IN  IF Head(from_mcu)[1] \in {"end", "ok", "err"}
         THEN rx_buf' = <<>> /\ OnLine(l)
         ELSE rx_buf' = l /\ UNCHANGED <<place, result, lines>>
  /\ UNCHANGED <<client, connected, written, to_mcu, line, executed>>

-----------------------------------------------------------------------------

\* The link goes down for good: NusTransport fails what is pending,
\* BleTransport lets it time out.
Disconnect ==
  /\ connected /\ "disconnect" \in Faults
  /\ connected' = FALSE
  /\ to_mcu' = <<>> /\ line' = <<>> /\ from_mcu' = <<>>
  /\ LET failing == {r \in Req : client = "app" /\ place[r] = "waiting"}
     IN  /\ place' = [r \in Req |-> IF r \in failing THEN "ended" ELSE place[r]]
         /\ result' = [r \in Req |-> IF r \in failing THEN Failed ELSE result[r]]
         /\ lines' = [r \in Req |-> IF r \in failing THEN <<>> ELSE lines[r]]
  /\ UNCHANGED <<client, written, executed, rx_buf>>

Init ==
  /\ client \in Clients /\ connected = TRUE
  /\ place = [r \in Req |-> "new"] /\ written = [r \in Req |-> 0]
  /\ to_mcu = <<>> /\ line = <<>> /\ executed = {} /\ from_mcu = <<>> /\ rx_buf = <<>>
  /\ lines = [r \in Req |-> <<>>] /\ result = [r \in Req |-> None]

Next ==
  \/ \E r \in Req : Begin(r) \/ WriteChunk(r) \/ WriteFails(r) \/ WriteStalls(r) \/ Timeout(r)
  \/ McuTakes \/ PieceLost \/ OnNotify \/ Disconnect

Spec == Init /\ [][Next]_vars

-----------------------------------------------------------------------------
(* Properties.                                                             *)

Chunk  == {c \in Req \X (1 .. 2) : c[2] <= Chunks(c[1])}
Piece  == ({"head", "ok", "err"} \X Req) \union ({"data"} \X Seq(Chunk)) \union {<<"end">>}
Result == {None, Failed, Bare} \union ({"data"} \X Seq(Chunk))

\* Every variable has a value of its type, a request has not sent more chunks than it
\* has, and what is over has a result.
TypeOK ==
  /\ client \in Clients /\ connected \in BOOLEAN
  /\ place \in [Req -> Places]
  /\ written \in [Req -> 0 .. 2] /\ \A r \in Req : written[r] <= Chunks(r)
  /\ to_mcu \in Seq(Chunk) /\ line \in Seq(Chunk)
  /\ from_mcu \in Seq(Piece) /\ rx_buf \in Seq(Piece)
  /\ executed \subseteq {l \in Seq(Chunk) : l # <<>> /\ Tagged(l)}
  /\ lines \in [Req -> Seq(Seq(Piece))] /\ result \in [Req -> Result]
  /\ \A r \in Req : place[r] \in {"ended", "stalled"} => result[r] # None

\* The data a request returns were answered to a line with its own tag, however
\* many pieces are lost, requests have timed out and answers come late.
OwnAnswer ==
  \A r \in Req : result[r][1] = "data" => result[r][2][1] = <<r, 1>>

\* A request that returns CMD_OK has been executed.
OkWasExecuted ==
  \A r \in Req : result[r][1] \in {"data", "bare"} => \E l \in executed : l[1] = <<r, 1>>

\* The beacon executes only lines that the client sent: a command does not
\* interleave with another, as PROMPT_FLUTTER_V3_FINAL.md:60 asks.
ExecutedAsSent == \A l \in executed : l = Whole(l[1][1])

\* The lock of BleTransport keeps requests apart: as long as no write of it has
\* been given up, the beacon executes what was sent and nothing else.
LockKeepsApart ==
  client = "gui" /\ (\A r \in Req : place[r] # "stalled") => ExecutedAsSent
=============================================================================

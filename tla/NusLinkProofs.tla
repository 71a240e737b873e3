--------------------------- MODULE NusLinkProofs ---------------------------
(***************************************************************************)
(* Proofs about NusLink, for any set of requests and any faults: types,    *)
(* that CMD_OK is only returned for what the beacon has executed, that the *)
(* lock of BleTransport keeps the lines of its requests apart, and that    *)
(* the data a request returns are its own.                                 *)
(***************************************************************************)
EXTENDS NusLink, TLAPS

\* The first of a sequence that is not empty, the rest of it, and one more at its end.
LEMMA HeadTail ==
  ASSUME NEW S, NEW s \in Seq(S), s # <<>>
  PROVE  /\ Head(s) \in S /\ Head(s) = s[1] /\ Tail(s) \in Seq(S)
         /\ Len(s) \in Nat /\ Len(s) > 0 /\ Len(Tail(s)) = Len(s) - 1
         /\ \A i \in 1 .. Len(Tail(s)) : Tail(s)[i] = s[i + 1]
OBVIOUS

LEMMA AppendFacts ==
  ASSUME NEW S, NEW s \in Seq(S), NEW e \in S
  PROVE  /\ Append(s, e) \in Seq(S) /\ Len(Append(s, e)) = Len(s) + 1 /\ Len(s) \in Nat
         /\ Append(s, e)[Len(s) + 1] = e
         /\ \A i \in 1 .. Len(s) : Append(s, e)[i] = s[i]
         /\ Append(s, e) # <<>>
OBVIOUS

LEMMA ConcatFacts ==
  ASSUME NEW S, NEW s \in Seq(S), NEW t \in Seq(S)
  PROVE  /\ s \o t \in Seq(S) /\ Len(s \o t) = Len(s) + Len(t)
         /\ Len(s) \in Nat /\ Len(t) \in Nat
         /\ \A i \in 1 .. Len(s) : (s \o t)[i] = s[i]
         /\ \A i \in 1 .. Len(t) : (s \o t)[Len(s) + i] = t[i]
OBVIOUS

LEMMA EmptyTyped == \A S : <<>> \in Seq(S) /\ Len(<<>>) = 0
OBVIOUS

LEMMA ChunkFields ==
  ASSUME NEW c \in Chunk
  PROVE  c[1] \in Req /\ c[2] \in 1 .. 2 /\ c[2] <= Chunks(c[1]) /\ c = <<c[1], c[2]>>
BY DEF Chunk
-----------------------------------------------------------------------------
(* The pieces of an answer. *)

LEMMA PieceKinds ==
  /\ \A r \in Req : /\ <<"head", r>> \in Piece /\ <<"ok", r>> \in Piece
                    /\ <<"err", r>> \in Piece
  /\ \A l \in Seq(Chunk) : <<"data", l>> \in Piece
  /\ <<"end">> \in Piece
BY DEF Piece

LEMMA AnswerTyped ==
  ASSUME NEW l \in Seq(Chunk), l # <<>>
  PROVE  Answer(l) \in Seq(Piece) /\ Refusal(l) \in Seq(Piece)
<1>1. l[1] \in Chunk
  BY HeadTail
<1>2. l[1][1] \in Req
  BY <1>1, ChunkFields
<1>3. \A a, b, c, d \in Piece : <<a, b, c, d>> \in Seq(Piece) /\ <<a>> \in Seq(Piece)
  OBVIOUS
<1> QED  BY <1>2, <1>3, PieceKinds DEF Answer, Refusal

\* What a request returns.
LEMMA ParsedTyped ==
  ASSUME NEW ls \in Seq(Seq(Piece))
  PROVE  Parsed(ls) \in Result \ {None}
<1>1. Bare \in Result \ {None} /\ Failed \in Result \ {None}
  BY DEF Result, Bare, Failed, None
<1>2. CASE Parsed(ls) = Bare \/ Parsed(ls) = Failed
  BY <1>1, <1>2
<1>3. CASE ls # <<>> /\ Len(Head(ls)) = 2 /\ Head(ls)[1][1] = "data" /\ Parsed(ls) = Head(ls)[1]
  <2>1. Head(ls) \in Seq(Piece)
    BY <1>3, HeadTail
  <2>2. Head(ls)[1] \in Piece
    BY <1>3, <2>1
  <2>3. Head(ls)[1] \in {"data"} \X Seq(Chunk)
    BY <1>3, <2>2 DEF Piece
  <2> QED  BY <1>3, <2>3 DEF Result, None
<1> QED  BY <1>2, <1>3 DEF Parsed
-----------------------------------------------------------------------------
(* The type invariant. *)

LEMMA InitTyped == Init => TypeOK
<1> SUFFICES ASSUME Init PROVE TypeOK
  OBVIOUS
<1>1. None \in Result
  BY DEF Result
<1>2. place \in [Req -> Places] /\ \A r \in Req : place[r] = "new"
  BY DEF Init, Places
<1>3. written \in [Req -> 0 .. 2] /\ \A r \in Req : written[r] <= Chunks(r)
  BY DEF Init, Chunks
<1>4. lines \in [Req -> Seq(Seq(Piece))] /\ result \in [Req -> Result]
  BY <1>1, EmptyTyped DEF Init
<1>5. /\ to_mcu \in Seq(Chunk) /\ line \in Seq(Chunk)
      /\ from_mcu \in Seq(Piece) /\ rx_buf \in Seq(Piece)
  BY EmptyTyped DEF Init
<1> QED  BY <1>2, <1>3, <1>4, <1>5 DEF Init, TypeOK

\* A request fails.
LEMMA FailTyped ==
  ASSUME TypeOK, NEW r \in Req, Fail(r)
  PROVE  TypeOK'
<1>1. Failed \in Result /\ Failed # None
  BY DEF Result, Failed, None
<1>2. place' \in [Req -> Places]
  BY DEF Fail, TypeOK, Places
<1>3. result' \in [Req -> Result]
  BY <1>1 DEF Fail, TypeOK
<1>4. lines' \in [Req -> Seq(Seq(Piece))]
  BY EmptyTyped DEF Fail, TypeOK
<1>5. \A q \in Req : place'[q] \in {"ended", "stalled"} => result'[q] # None
  BY <1>1 DEF Fail, TypeOK
<1> QED  BY <1>2, <1>3, <1>4, <1>5 DEF Fail, TypeOK

\* The beacon handles a line.
LEMMA HandleLineTyped ==
  ASSUME TypeOK, NEW l \in Seq(Chunk), l # <<>>, HandleLine(l)
  PROVE  /\ from_mcu' \in Seq(Piece)
         /\ executed' \subseteq {m \in Seq(Chunk) : m # <<>> /\ Tagged(m)}
<1>1. Answer(l) \in Seq(Piece) /\ Refusal(l) \in Seq(Piece)
  BY AnswerTyped
<1>2. from_mcu \in Seq(Piece) /\ executed \subseteq {m \in Seq(Chunk) : m # <<>> /\ Tagged(m)}
  BY DEF TypeOK
<1>3. from_mcu \o Answer(l) \in Seq(Piece) /\ from_mcu \o Refusal(l) \in Seq(Piece)
  BY <1>1, <1>2, ConcatFacts
<1> QED  BY <1>2, <1>3 DEF HandleLine

\* The client handles a line.
LEMMA OnLineTyped ==
  ASSUME TypeOK, NEW l \in Seq(Piece), l # <<>>, OnLine(l)
  PROVE  /\ place' \in [Req -> Places] /\ result' \in [Req -> Result]
         /\ lines' \in [Req -> Seq(Seq(Piece))]
         /\ \A q \in Req : place'[q] \in {"ended", "stalled"} => result'[q] # None
<1> DEFINE r == l[1][2]
<1>1. CASE l[1][1] \in {"ok", "err"} /\ Pending(r)
  <2>1. l[1] \in Piece
    BY HeadTail
  <2>2. r \in Req
    BY <1>1, <2>1 DEF Piece
  <2>3. Parsed(lines[r]) \in Result \ {None}
    BY <2>2, ParsedTyped DEF TypeOK
  <2>4. Failed \in Result \ {None}
    BY DEF Result, Failed, None
  <2>5. PICK v \in Result \ {None} : result' = [result EXCEPT ![r] = v]
    BY <1>1, <2>3, <2>4 DEF OnLine
  <2>6. lines' = [lines EXCEPT ![r] = <<>>]
    BY <1>1 DEF OnLine
  <2>7. place' = [place EXCEPT ![r] = IF place[r] = "waiting" THEN "ended" ELSE place[r]]
    BY <1>1 DEF OnLine
  <2> HIDE DEF r
  <2>8. result' \in [Req -> Result]
    BY <2>5 DEF TypeOK
  <2>9. place' \in [Req -> Places]
    BY <2>2, <2>7 DEF TypeOK, Places
  <2>10. lines' \in [Req -> Seq(Seq(Piece))]
    BY <2>6, EmptyTyped DEF TypeOK
  <2>11. ASSUME NEW q \in Req, place'[q] \in {"ended", "stalled"} PROVE result'[q] # None
    BY <2>2, <2>5, <2>7, <2>11 DEF TypeOK
  <2> QED  BY <2>8, <2>9, <2>10, <2>11
<1>2. CASE ~(l[1][1] \in {"ok", "err"} /\ Pending(r)) /\ l[1][1] = "head" /\ Pending(r)
  <2>1. l[1] \in Piece /\ Tail(l) \in Seq(Piece)
    BY HeadTail
  <2>2. r \in Req
    BY <1>2, <2>1 DEF Piece
  <2>3. lines' = [lines EXCEPT ![r] = Append(lines[r], Tail(l))] /\ UNCHANGED <<place, result>>
    BY <1>2 DEF OnLine
  <2> HIDE DEF r
  <2>4. Append(lines[r], Tail(l)) \in Seq(Seq(Piece))
    BY <2>1, <2>2, AppendFacts DEF TypeOK
  <2> QED  BY <2>3, <2>4 DEF TypeOK
<1>3. CASE ~(l[1][1] \in {"ok", "err"} /\ Pending(r)) /\ ~(l[1][1] = "head" /\ Pending(r))
  <2>1. UNCHANGED <<place, result, lines>>
    BY <1>3 DEF OnLine
  <2> QED  BY <2>1 DEF TypeOK
<1> QED  BY <1>1, <1>2, <1>3

LEMMA NextTyped == TypeOK /\ [Next]_vars => TypeOK'
<1> SUFFICES ASSUME TypeOK, [Next]_vars PROVE TypeOK'
  OBVIOUS
<1>1. CASE UNCHANGED vars
  BY <1>1 DEF vars, TypeOK
<1>2. ASSUME NEW r \in Req, Begin(r) PROVE TypeOK'
  <2>1. CASE connected
    BY <1>2, <2>1 DEF Begin, TypeOK, Places
  <2>2. CASE ~connected
    <3>1. Failed \in Result /\ Failed # None
      BY DEF Result, Failed, None
    <3>2. place' \in [Req -> Places] /\ result' \in [Req -> Result]
      BY <1>2, <2>2, <3>1 DEF Begin, TypeOK, Places
    <3>3. \A q \in Req : place'[q] \in {"ended", "stalled"} => result'[q] # None
      BY <1>2, <2>2, <3>1 DEF Begin, TypeOK
    <3> QED  BY <1>2, <2>2, <3>2, <3>3 DEF Begin, TypeOK
  <2> QED  BY <2>1, <2>2
<1>3. ASSUME NEW r \in Req, WriteChunk(r) PROVE TypeOK'
  <2>1. written[r] \in 0 .. 2 /\ Chunks(r) \in 1 .. 2 /\ written[r] < Chunks(r)
    BY <1>3 DEF WriteChunk, TypeOK, Chunks
  <2>2. <<r, written[r] + 1>> \in Chunk
    BY <2>1 DEF Chunk
  <2>3. to_mcu' \in Seq(Chunk)
    BY <1>3, <2>2, AppendFacts DEF WriteChunk, TypeOK
  <2>4. written' \in [Req -> 0 .. 2] /\ \A q \in Req : written'[q] <= Chunks(q)
    BY <1>3, <2>1 DEF WriteChunk, TypeOK
  <2>5. place' \in [Req -> Places]
    BY <1>3 DEF WriteChunk, TypeOK, Places
  <2>6. \A q \in Req : place'[q] \in {"ended", "stalled"} => result'[q] # None
    BY <1>3 DEF WriteChunk, TypeOK
  <2> QED  BY <1>3, <2>3, <2>4, <2>5, <2>6 DEF WriteChunk, TypeOK
<1>4. ASSUME NEW r \in Req, WriteFails(r) \/ Timeout(r) PROVE TypeOK'
  BY <1>4, FailTyped DEF WriteFails, Timeout
<1>5. ASSUME NEW r \in Req, WriteStalls(r) PROVE TypeOK'
  <2>1. Failed \in Result /\ Failed # None
    BY DEF Result, Failed, None
  <2>2. place' \in [Req -> Places] /\ result' \in [Req -> Result]
    BY <1>5, <2>1 DEF WriteStalls, TypeOK, Places
  <2>3. \A q \in Req : place'[q] \in {"ended", "stalled"} => result'[q] # None
    BY <1>5, <2>1 DEF WriteStalls, TypeOK
  <2>4. lines' \in [Req -> Seq(Seq(Piece))]
    BY <1>5, EmptyTyped DEF WriteStalls, TypeOK
  <2> QED  BY <1>5, <2>2, <2>3, <2>4 DEF WriteStalls, TypeOK
<1>6. CASE McuTakes
  <2> DEFINE l == Append(line, Head(to_mcu))
  <2>1. l \in Seq(Chunk) /\ l # <<>> /\ to_mcu' \in Seq(Chunk)
    <3>1. to_mcu \in Seq(Chunk) /\ to_mcu # <<>> /\ line \in Seq(Chunk)
      BY <1>6 DEF McuTakes, TypeOK
    <3>2. to_mcu' = Tail(to_mcu)
      BY <1>6 DEF McuTakes
    <3>3. Head(to_mcu) \in Chunk /\ Tail(to_mcu) \in Seq(Chunk)
      BY <3>1, HeadTail
    <3>4. l \in Seq(Chunk) /\ l # <<>>
      BY <3>1, <3>3, AppendFacts
    <3> QED  BY <3>2, <3>3, <3>4
  <2>2. CASE EndsLine(Head(to_mcu))
    <3>1. HandleLine(l) /\ line' = <<>>
      BY <1>6, <2>2 DEF McuTakes
    <3> HIDE DEF l
    <3>2. /\ from_mcu' \in Seq(Piece)
          /\ executed' \subseteq {m \in Seq(Chunk) : m # <<>> /\ Tagged(m)}
      BY <2>1, <3>1, HandleLineTyped
    <3> QED  BY <1>6, <2>1, <3>1, <3>2, EmptyTyped DEF McuTakes, TypeOK
  <2>3. CASE ~EndsLine(Head(to_mcu))
    BY <1>6, <2>1, <2>3 DEF McuTakes, TypeOK
  <2> QED  BY <2>2, <2>3
<1>7. CASE PieceLost
  BY <1>7, HeadTail DEF PieceLost, TypeOK
<1>8. CASE OnNotify
  <2> DEFINE l == Append(rx_buf, Head(from_mcu))
  <2>1. l \in Seq(Piece) /\ l # <<>> /\ from_mcu' \in Seq(Piece)
    BY <1>8, HeadTail, AppendFacts DEF OnNotify, TypeOK
  <2>2. CASE Head(from_mcu)[1] \in {"end", "ok", "err"}
    <3>1. OnLine(l) /\ rx_buf' = <<>>
      BY <1>8, <2>2 DEF OnNotify
    <3> HIDE DEF l
    <3>2. /\ place' \in [Req -> Places] /\ result' \in [Req -> Result]
          /\ lines' \in [Req -> Seq(Seq(Piece))]
          /\ \A q \in Req : place'[q] \in {"ended", "stalled"} => result'[q] # None
      BY <2>1, <3>1, OnLineTyped
    <3> QED  BY <1>8, <2>1, <3>1, <3>2, EmptyTyped DEF OnNotify, TypeOK
  <2>3. CASE Head(from_mcu)[1] \notin {"end", "ok", "err"}
    BY <1>8, <2>1, <2>3 DEF OnNotify, TypeOK
  <2> QED  BY <2>2, <2>3
<1>9. CASE Disconnect
  <2>1. Failed \in Result /\ Failed # None
    BY DEF Result, Failed, None
  <2>2. place' \in [Req -> Places]
    BY <1>9 DEF Disconnect, TypeOK, Places
  <2>3. result' \in [Req -> Result]
    BY <1>9, <2>1 DEF Disconnect, TypeOK
  <2>4. lines' \in [Req -> Seq(Seq(Piece))]
    BY <1>9, EmptyTyped DEF Disconnect, TypeOK
  <2>5. \A q \in Req : place'[q] \in {"ended", "stalled"} => result'[q] # None
    BY <1>9, <2>1 DEF Disconnect, TypeOK
  <2>6. /\ to_mcu' \in Seq(Chunk) /\ line' \in Seq(Chunk) /\ from_mcu' \in Seq(Piece)
    BY <1>9, EmptyTyped DEF Disconnect
  <2> QED  BY <1>9, <2>2, <2>3, <2>4, <2>5, <2>6 DEF Disconnect, TypeOK
<1> QED
  BY <1>1, <1>2, <1>3, <1>4, <1>5, <1>6, <1>7, <1>8, <1>9 DEF Next

\* The types of every reachable state of the link.
THEOREM TypeCorrect == Spec => []TypeOK
BY InitTyped, NextTyped, PTL DEF Spec
-----------------------------------------------------------------------------
(* CMD_OK. *)

HasRun(done, r) == \E l \in done : l[1] = <<r, 1>>

\* The beacon says OK of what it has executed.
OkIsTrue ==
  /\ \A i \in 1 .. Len(from_mcu) : from_mcu[i][1] = "ok" => HasRun(executed, from_mcu[i][2])
  /\ \A i \in 1 .. Len(rx_buf) : rx_buf[i][1] = "ok" => HasRun(executed, rx_buf[i][2])

\* The line at its head leaves what is still to come.
LEMMA TailKeepsOk ==
  ASSUME TypeOK, OkIsTrue, from_mcu # <<>>
  PROVE  /\ \A i \in 1 .. Len(Tail(from_mcu)) :
              Tail(from_mcu)[i][1] = "ok" => HasRun(executed, Tail(from_mcu)[i][2])
         /\ Head(from_mcu)[1] = "ok" => HasRun(executed, Head(from_mcu)[2])
<1>1. from_mcu \in Seq(Piece)
  BY DEF TypeOK
<1>2. Head(from_mcu) = from_mcu[1] /\ Len(from_mcu) \in Nat /\ Len(from_mcu) > 0
  BY <1>1, HeadTail
<1>3. ASSUME NEW i \in 1 .. Len(Tail(from_mcu))
      PROVE  Tail(from_mcu)[i] = from_mcu[i + 1] /\ i + 1 \in 1 .. Len(from_mcu)
  BY <1>1, HeadTail
<1> QED  BY <1>2, <1>3 DEF OkIsTrue

\* Executed lines stay executed.
LEMMA RunStays ==
  ASSUME executed \subseteq executed', NEW r, HasRun(executed, r)
  PROVE  HasRun(executed', r)
BY DEF HasRun

\* The beacon's answer to a line says OK of its request only if it was executed.
LEMMA HandleLineOk ==
  ASSUME TypeOK, OkIsTrue, NEW l \in Seq(Chunk), l # <<>>, HandleLine(l)
  PROVE  /\ executed \subseteq executed'
         /\ \A i \in 1 .. Len(from_mcu') : from_mcu'[i][1] = "ok" => HasRun(executed', from_mcu'[i][2])
<1>1. executed \subseteq executed'
  BY DEF HandleLine
<1>2. PICK a \in Seq(Piece) : /\ from_mcu' = from_mcu \o a
                              /\ \A i \in 1 .. Len(a) : a[i][1] = "ok" => HasRun(executed', a[i][2])
  <2>1. CASE Tagged(l) /\ executed' = executed \union {l} /\ from_mcu' = from_mcu \o Answer(l)
    <3>1. l[1] \in Chunk
      BY HeadTail
    <3>2. l[1] = <<l[1][1], 1>>
      BY <2>1, <3>1, ChunkFields DEF Tagged
    <3>3. HasRun(executed', l[1][1])
      BY <2>1, <3>2 DEF HasRun
    <3>4. Answer(l) \in Seq(Piece)
      BY AnswerTyped
    <3>5. \A i \in 1 .. Len(Answer(l)) : Answer(l)[i][1] = "ok" => Answer(l)[i][2] = l[1][1]
      BY DEF Answer
    <3> QED  BY <2>1, <3>3, <3>4, <3>5
  <2>2. CASE from_mcu' = from_mcu \o Refusal(l)
    <3>1. Refusal(l) \in Seq(Piece)
      BY AnswerTyped
    <3>2. \A i \in 1 .. Len(Refusal(l)) : Refusal(l)[i][1] # "ok"
      BY DEF Refusal
    <3> QED  BY <2>2, <3>1, <3>2
  <2>3. CASE from_mcu' = from_mcu
    <3>1. from_mcu' = from_mcu \o <<>>
      BY <2>3 DEF TypeOK
    <3>2. <<>> \in Seq(Piece) /\ \A i \in 1 .. Len(<<>>) : FALSE
      BY EmptyTyped
    <3> WITNESS <<>> \in Seq(Piece)
    <3> QED  BY <3>1, <3>2
  <2>4. \/ Tagged(l) /\ executed' = executed \union {l} /\ from_mcu' = from_mcu \o Answer(l)
        \/ from_mcu' = from_mcu \o Refusal(l)
        \/ from_mcu' = from_mcu
    BY DEF HandleLine
  <2> QED  BY <2>1, <2>2, <2>3, <2>4
<1>3. from_mcu \in Seq(Piece) /\ Len(from_mcu) \in Nat /\ Len(a) \in Nat
  BY DEF TypeOK
<1>4. ASSUME NEW i \in 1 .. Len(from_mcu'), from_mcu'[i][1] = "ok"
      PROVE  HasRun(executed', from_mcu'[i][2])
  <2>1. CASE i <= Len(from_mcu)
    <3>1. from_mcu'[i] = from_mcu[i] /\ i \in 1 .. Len(from_mcu)
      BY <1>2, <1>3, <2>1, ConcatFacts
    <3>2. HasRun(executed, from_mcu[i][2])
      BY <1>4, <3>1 DEF OkIsTrue
    <3> QED  BY <1>1, <3>1, <3>2, RunStays
  <2>2. CASE i > Len(from_mcu)
    <3>1. i - Len(from_mcu) \in 1 .. Len(a) /\ from_mcu'[i] = a[i - Len(from_mcu)]
      BY <1>2, <1>3, <2>2, ConcatFacts
    <3> QED  BY <1>2, <1>4, <3>1
  <2> QED  BY <1>3, <2>1, <2>2
<1> QED  BY <1>1, <1>4

\* The program returns what a line says only to the request with the line's tag.
LEMMA OnLineOk ==
  ASSUME TypeOK, NEW l \in Seq(Piece), l # <<>>, OnLine(l), NEW q \in Req
  PROVE  \/ result'[q] = result[q] \/ result'[q] = Failed
         \/ l[1][1] = "ok" /\ l[1][2] = q
<1> DEFINE r == l[1][2]
<1>1. CASE l[1][1] \in {"ok", "err"} /\ Pending(r)
  <2>1. result' = [result EXCEPT ![r] = IF l[1][1] = "ok" THEN Parsed(lines[r]) ELSE Failed]
    BY <1>1 DEF OnLine
  <2> QED  BY <2>1 DEF TypeOK
<1>2. CASE ~(l[1][1] \in {"ok", "err"} /\ Pending(r))
  BY <1>2 DEF OnLine
<1> QED  BY <1>1, <1>2

\* A failure says nothing of an execution.
LEMMA OkKept ==
  ASSUME OkWasExecuted, executed \subseteq executed',
         NEW q \in Req, result'[q] = result[q] \/ result'[q] = Failed,
         result'[q][1] \in {"data", "bare"}
  PROVE  HasRun(executed', q)
<1>1. result[q][1] \in {"data", "bare"}
  BY DEF Failed
<1>2. HasRun(executed, q)
  BY <1>1 DEF OkWasExecuted, HasRun
<1> QED  BY <1>2, RunStays

\* One step: only the two ends of the answers' way can disturb what they say.
LEMMA OkNext ==
  ASSUME TypeOK, OkIsTrue, OkWasExecuted, Next
  PROVE  OkIsTrue' /\ OkWasExecuted'
<1>1. CASE \E r \in Req : Begin(r) \/ WriteChunk(r) \/ WriteFails(r) \/ WriteStalls(r) \/ Timeout(r)
  <2>1. UNCHANGED <<executed, from_mcu, rx_buf>>
    BY <1>1 DEF Begin, WriteChunk, WriteFails, WriteStalls, Timeout, Fail
  <2>2. \A q \in Req : result'[q] = result[q] \/ result'[q] = Failed
    BY <1>1 DEF Begin, WriteChunk, WriteFails, WriteStalls, Timeout, Fail, TypeOK
  <2>3. OkIsTrue'
    BY <2>1 DEF OkIsTrue
  <2>4. \A q \in Req : result'[q][1] \in {"data", "bare"} => HasRun(executed', q)
    BY <2>1, <2>2, OkKept
  <2> QED  BY <2>3, <2>4 DEF OkWasExecuted, HasRun
<1>2. CASE McuTakes
  <2>1. UNCHANGED <<rx_buf, result>>
    BY <1>2 DEF McuTakes
  <2>2. /\ executed \subseteq executed'
        /\ \A i \in 1 .. Len(from_mcu') :
             from_mcu'[i][1] = "ok" => HasRun(executed', from_mcu'[i][2])
    <3> DEFINE l == Append(line, Head(to_mcu))
    <3>1. CASE EndsLine(Head(to_mcu))
      <4>1. to_mcu \in Seq(Chunk) /\ to_mcu # <<>> /\ line \in Seq(Chunk)
        BY <1>2 DEF McuTakes, TypeOK
      <4>2. l \in Seq(Chunk) /\ l # <<>>
        BY <4>1, HeadTail, AppendFacts
      <4>3. HandleLine(l)
        BY <1>2, <3>1 DEF McuTakes
      <4> HIDE DEF l
      <4> QED  BY <4>2, <4>3, HandleLineOk
    <3>2. CASE ~EndsLine(Head(to_mcu))
      BY <1>2, <3>2 DEF McuTakes, OkIsTrue
    <3> QED  BY <3>1, <3>2
  <2>3. \A i \in 1 .. Len(rx_buf) : rx_buf[i][1] = "ok" => HasRun(executed', rx_buf[i][2])
    BY <2>2, RunStays DEF OkIsTrue
  <2>4. OkIsTrue'
    BY <2>1, <2>2, <2>3 DEF OkIsTrue
  <2>5. \A q \in Req : result'[q][1] \in {"data", "bare"} => HasRun(executed', q)
    BY <2>1, <2>2, OkKept
  <2> QED  BY <2>4, <2>5 DEF OkWasExecuted, HasRun
<1>3. CASE PieceLost
  <2>1. from_mcu # <<>> /\ from_mcu' = Tail(from_mcu) /\ UNCHANGED <<executed, rx_buf, result>>
    BY <1>3 DEF PieceLost
  <2> QED  BY <2>1, TailKeepsOk DEF OkIsTrue, OkWasExecuted
<1>4. CASE OnNotify
  <2> DEFINE l == Append(rx_buf, Head(from_mcu))
  <2>1. from_mcu # <<>> /\ from_mcu' = Tail(from_mcu) /\ UNCHANGED executed
    BY <1>4 DEF OnNotify
  <2>2. from_mcu \in Seq(Piece) /\ rx_buf \in Seq(Piece)
    BY DEF TypeOK
  <2>3. l \in Seq(Piece) /\ l # <<>> /\ Len(l) = Len(rx_buf) + 1 /\ Len(rx_buf) \in Nat
        /\ l[Len(rx_buf) + 1] = Head(from_mcu) /\ \A i \in 1 .. Len(rx_buf) : l[i] = rx_buf[i]
    <3>1. Head(from_mcu) \in Piece
      BY <2>1, <2>2, HeadTail
    <3> QED  BY <2>2, <3>1, AppendFacts
  <2>4. Head(from_mcu)[1] = "ok" => HasRun(executed, Head(from_mcu)[2])
    BY <2>1, TailKeepsOk
  <2> HIDE DEF l
  <2>5. ASSUME NEW i \in 1 .. Len(l), l[i][1] = "ok" PROVE HasRun(executed, l[i][2])
    <3>1. CASE i = Len(rx_buf) + 1
      BY <2>3, <2>4, <2>5, <3>1
    <3>2. CASE i # Len(rx_buf) + 1
      <4>1. i \in 1 .. Len(rx_buf) /\ l[i] = rx_buf[i]
        BY <2>3, <3>2
      <4> QED  BY <2>5, <4>1 DEF OkIsTrue
    <3> QED  BY <3>1, <3>2
  <2>6. \A i \in 1 .. Len(from_mcu') :
          from_mcu'[i][1] = "ok" => HasRun(executed, from_mcu'[i][2])
    BY <2>1, TailKeepsOk
  <2>7. CASE Head(from_mcu)[1] \in {"end", "ok", "err"}
    <3>1. OnLine(l) /\ rx_buf' = <<>>
      BY <1>4, <2>7 DEF OnNotify, l
    <3>2. OkIsTrue'
      BY <2>1, <2>6, <3>1, EmptyTyped DEF OkIsTrue
    <3>3. ASSUME NEW q \in Req, result'[q][1] \in {"data", "bare"}
          PROVE  HasRun(executed', q)
      <4>1. CASE result'[q] = result[q] \/ result'[q] = Failed
        BY <2>1, <3>3, <4>1, OkKept
      <4>2. CASE l[1][1] = "ok" /\ l[1][2] = q
        <5>1. 1 \in 1 .. Len(l)
          BY <2>3
        <5> QED  BY <2>1, <2>5, <4>2, <5>1
      <4> QED  BY <2>3, <3>1, <4>1, <4>2, OnLineOk
    <3> QED  BY <3>2, <3>3 DEF OkWasExecuted, HasRun
  <2>8. CASE Head(from_mcu)[1] \notin {"end", "ok", "err"}
    <3>1. rx_buf' = l /\ UNCHANGED result
      BY <1>4, <2>8 DEF OnNotify, l
    <3>2. OkIsTrue'
      BY <2>1, <2>5, <2>6, <3>1 DEF OkIsTrue
    <3> QED  BY <2>1, <3>1, <3>2 DEF OkWasExecuted
  <2> QED  BY <2>7, <2>8
<1>5. CASE Disconnect
  <2>1. from_mcu' = <<>> /\ UNCHANGED <<executed, rx_buf>>
    BY <1>5 DEF Disconnect
  <2>2. \A q \in Req : result'[q] = result[q] \/ result'[q] = Failed
    BY <1>5 DEF Disconnect
  <2>3. OkIsTrue'
    BY <2>1, EmptyTyped DEF OkIsTrue
  <2>4. \A q \in Req : result'[q][1] \in {"data", "bare"} => HasRun(executed', q)
    BY <2>1, <2>2, OkKept
  <2> QED  BY <2>3, <2>4 DEF OkWasExecuted, HasRun
<1> QED  BY <1>1, <1>2, <1>3, <1>4, <1>5 DEF Next

\* A request that returns CMD_OK, with or without data, has been executed: whatever
\* is lost, late or given up on the way, _onLine and _on_line conclude it only by a
\* line that the beacon has sent of it.
THEOREM OkTrue == Spec => []OkWasExecuted
<1>1. Init => OkIsTrue /\ OkWasExecuted
  <2> SUFFICES ASSUME Init PROVE OkIsTrue /\ OkWasExecuted
    OBVIOUS
  <2>1. OkIsTrue
    BY EmptyTyped DEF Init, OkIsTrue
  <2>2. OkWasExecuted
    BY DEF Init, OkWasExecuted, None
  <2> QED  BY <2>1, <2>2
<1>2. TypeOK /\ OkIsTrue /\ OkWasExecuted /\ [Next]_vars => OkIsTrue' /\ OkWasExecuted'
  <2>1. CASE Next
    BY <2>1, OkNext
  <2>2. CASE UNCHANGED vars
    BY <2>2 DEF vars, OkIsTrue, OkWasExecuted
  <2> QED  BY <2>1, <2>2
<1> QED  BY <1>1, <1>2, TypeCorrect, PTL DEF Spec
-----------------------------------------------------------------------------
(* The lock of BleTransport. *)

Locked == client = "gui" /\ \A r \in Req : place[r] # "stalled"

\* The chunks that the beacon has not made a line of yet.
Stream == line \o to_mcu

\* A second chunk follows its first.
InOrder(s) == \A i \in 1 .. Len(s) :
                s[i][2] = 2 => i > 1 /\ s[i - 1][1] = s[i][1] /\ s[i - 1][2] = 1

EndsWithFirst(s, r) == Len(s) > 0 /\ s[Len(s)][1] = r /\ s[Len(s)][2] = 1

Exclusive == \A p, q \in Req :
               place[p] \in {"writing", "waiting"} /\ place[q] \in {"writing", "waiting"} => p = q

Halfway == \A r \in Req :
             /\ place[r] = "new" => written[r] = 0
             /\ place[r] = "writing" => written[r] < Chunks(r)
             /\ place[r] = "writing" /\ written[r] = 1 /\ connected => EndsWithFirst(Stream, r)

Unfinished == \A i \in 1 .. Len(line) : ~EndsLine(line[i])

Apart == ExecutedAsSent /\ InOrder(Stream) /\ Unfinished /\ Exclusive /\ Halfway

\* A chunk written goes to the end of the stream, a chunk taken stays in it.
LEMMA StreamGrows ==
  ASSUME NEW S, NEW s \in Seq(S), NEW t \in Seq(S), NEW c \in S
  PROVE  s \o Append(t, c) = Append(s \o t, c)
OBVIOUS

LEMMA StreamStays ==
  ASSUME NEW S, NEW s \in Seq(S), NEW t \in Seq(S), t # <<>>
  PROVE  Append(s, Head(t)) \o Tail(t) = s \o t
OBVIOUS

LEMMA ChunkNumbers == \A r \in Req : Chunks(r) \in 1 .. 2
BY DEF Chunks

\* A line whose second chunks follow their first, that begins with '#' and has no
\* other, and that ends a request, is the whole of that request.
LEMMA LineIsWhole ==
  ASSUME NEW l \in Seq(Chunk), l # <<>>, InOrder(l), Tagged(l), AllHex(l), EndsLine(l[Len(l)])
  PROVE  l = Whole(l[1][1])
<1>1. Len(l) \in Nat /\ Len(l) > 0
  OBVIOUS
<1>2. \A i \in 1 .. Len(l) : l[i] \in Chunk
  OBVIOUS
<1>3. \A i \in 2 .. Len(l) : l[i][2] = 2
  <2> TAKE i \in 2 .. Len(l)
  <2>1. i \in 1 .. Len(l)
    BY <1>1
  <2>2. l[i][2] \in 1 .. 2
    BY <1>2, <2>1, ChunkFields
  <2> QED  BY <2>2 DEF AllHex
<1>4. Len(l) <= 2
  <2> SUFFICES ASSUME Len(l) >= 3 PROVE FALSE
    BY <1>1
  <2>1. l[3][2] = 2 /\ l[2][2] = 2
    BY <1>1, <1>3
  <2>2. 3 \in 1 .. Len(l) /\ 3 - 1 = 2
    BY <1>1
  <2>3. l[3 - 1][2] = 1
    BY <2>1, <2>2 DEF InOrder
  <2> QED  BY <2>1, <2>2, <2>3
<1>5. l[1] \in Chunk /\ l[1][1] \in Req
  BY <1>1, <1>2, ChunkFields
<1>6. l[1] = <<l[1][1], 1>>
  BY <1>5, ChunkFields DEF Tagged
<1>7. Chunks(l[1][1]) = Len(l) /\ \A i \in 1 .. Len(l) : l[i] = <<l[1][1], i>>
  <2>1. CASE Len(l) = 1
    <3>1. Chunks(l[1][1]) = 1
      BY <2>1, <1>6 DEF EndsLine, Tagged
    <3> QED  BY <2>1, <3>1, <1>6
  <2>2. CASE Len(l) = 2
    <3>1. l[2][2] = 2
      BY <1>3, <2>2
    <3>2. l[1][1] = l[2][1]
      <4>1. 2 \in 1 .. Len(l) /\ 2 - 1 = 1
        BY <2>2
      <4> QED  BY <3>1, <4>1 DEF InOrder
    <3>3. l[2] \in Chunk
      BY <1>2, <2>2
    <3>4. l[2] = <<l[1][1], 2>>
      BY <3>1, <3>2, <3>3, ChunkFields
    <3>5. Chunks(l[1][1]) = 2
      BY <2>2, <3>1, <3>2 DEF EndsLine
    <3>6. ASSUME NEW i \in 1 .. Len(l) PROVE l[i] = <<l[1][1], i>>
      <4>1. CASE i = 1
        BY <1>6, <4>1
      <4>2. CASE i = 2
        BY <3>4, <4>2
      <4> QED  BY <2>2, <4>1, <4>2
    <3>7. Chunks(l[1][1]) = Len(l)
      BY <2>2, <3>5
    <3> QED  BY <3>6, <3>7
  <2>3. \A n \in Nat : n > 0 /\ n <= 2 => n = 1 \/ n = 2
    OBVIOUS
  <2>4. Len(l) = 1 \/ Len(l) = 2
    BY <1>1, <1>4, <2>3
  <2> QED  BY <2>1, <2>2, <2>4
<1>8. l = [i \in 1 .. Len(l) |-> l[i]]
  OBVIOUS
<1> QED  BY <1>7, <1>8 DEF Whole

\* What a beacon whose chunks are in order executes is the whole of a request.
LEMMA TakesApart ==
  ASSUME TypeOK, Apart, McuTakes
  PROVE  ExecutedAsSent' /\ InOrder(Stream)' /\ Unfinished' /\ Halfway'
<1> DEFINE c == Head(to_mcu)
           l == Append(line, c)
<1>1. /\ to_mcu # <<>> /\ to_mcu \in Seq(Chunk) /\ line \in Seq(Chunk) /\ to_mcu' = Tail(to_mcu)
      /\ UNCHANGED <<connected, place, written>>
  BY DEF McuTakes, TypeOK
<1>2. c \in Chunk /\ c = to_mcu[1] /\ Tail(to_mcu) \in Seq(Chunk)
      /\ Len(to_mcu) \in Nat /\ Len(to_mcu) > 0 /\ Len(Tail(to_mcu)) = Len(to_mcu) - 1
      /\ \A i \in 1 .. Len(Tail(to_mcu)) : Tail(to_mcu)[i] = to_mcu[i + 1]
  BY <1>1, HeadTail
<1>3. l \in Seq(Chunk) /\ l # <<>> /\ Len(l) = Len(line) + 1 /\ Len(line) \in Nat
      /\ l[Len(line) + 1] = c /\ \A i \in 1 .. Len(line) : l[i] = line[i]
  BY <1>1, <1>2, AppendFacts
<1>4. l \o Tail(to_mcu) = Stream
  <2>1. Append(line, Head(to_mcu)) \o Tail(to_mcu) = line \o to_mcu
    BY <1>1, StreamStays
  <2> QED  BY <2>1 DEF Stream
<1> HIDE DEF l, c
<1>5. /\ Len(Stream) = Len(l) + Len(Tail(to_mcu))
      /\ \A i \in 1 .. Len(l) : Stream[i] = l[i]
      /\ \A i \in 1 .. Len(Tail(to_mcu)) : Stream[Len(l) + i] = Tail(to_mcu)[i]
  <2> DEFINE t == Tail(to_mcu)
  <2>1. l \in Seq(Chunk) /\ t \in Seq(Chunk)
    BY <1>2, <1>3
  <2> HIDE DEF t
  <2>2. /\ Len(l \o t) = Len(l) + Len(t)
        /\ \A i \in 1 .. Len(l) : (l \o t)[i] = l[i]
        /\ \A i \in 1 .. Len(t) : (l \o t)[Len(l) + i] = t[i]
    BY <2>1, ConcatFacts
  <2>3. l \o t = Stream
    BY <1>4 DEF t
  <2>4. /\ Len(Stream) = Len(l) + Len(t)
        /\ \A i \in 1 .. Len(l) : Stream[i] = l[i]
        /\ \A i \in 1 .. Len(t) : Stream[Len(l) + i] = t[i]
    BY <2>2, <2>3
  <2> QED  BY <2>4 DEF t
<1>6. CASE ~EndsLine(c)
  <2>1. line' = l /\ UNCHANGED executed
    BY <1>6 DEF McuTakes, l, c
  <2>2. Stream' = Stream
    BY <1>1, <1>4, <2>1 DEF Stream
  <2>3. Unfinished'
    <3> SUFFICES ASSUME NEW i \in 1 .. Len(l) PROVE ~EndsLine(l[i])
      BY <2>1 DEF Unfinished
    <3>1. CASE i = Len(line) + 1
      BY <1>3, <1>6, <3>1
    <3>2. CASE i # Len(line) + 1
      <4>1. i \in 1 .. Len(line) /\ l[i] = line[i]
        BY <1>3, <3>2
      <4> QED  BY <4>1 DEF Apart, Unfinished
    <3> QED  BY <3>1, <3>2
  <2>4. Halfway'
    BY <1>1, <2>2 DEF Apart, Halfway
  <2> QED  BY <2>1, <2>2, <2>3, <2>4 DEF Apart, ExecutedAsSent, InOrder
<1>7. CASE EndsLine(c)
  <2>1. line' = <<>> /\ HandleLine(l)
    BY <1>7 DEF McuTakes, l, c
  <2>2. Unfinished'
    BY <2>1, EmptyTyped DEF Unfinished
  <2>3. Stream' = Tail(to_mcu)
    BY <1>1, <1>2, <2>1 DEF Stream
  <2>4. InOrder(l)
    <3> SUFFICES ASSUME NEW i \in 1 .. Len(l), l[i][2] = 2
                 PROVE  i > 1 /\ l[i - 1][1] = l[i][1] /\ l[i - 1][2] = 1
      BY DEF InOrder
    <3>1. Stream[i] = l[i] /\ i \in 1 .. Len(Stream)
      BY <1>2, <1>3, <1>5
    <3>2. i > 1 /\ Stream[i - 1][1] = Stream[i][1] /\ Stream[i - 1][2] = 1
      BY <3>1 DEF Apart, InOrder
    <3>3. i - 1 \in 1 .. Len(l)
      BY <1>3, <3>2
    <3>4. Stream[i - 1] = l[i - 1]
      BY <1>5, <3>3
    <3> QED  BY <3>1, <3>2, <3>4
  <2>5. ExecutedAsSent'
    <3>1. ASSUME Tagged(l), AllHex(l) PROVE l = Whole(l[1][1])
      BY <1>3, <1>7, <2>4, <3>1, LineIsWhole
    <3>2. executed' = executed \/ (Tagged(l) /\ AllHex(l) /\ executed' = executed \union {l})
      BY <2>1 DEF HandleLine
    <3> QED  BY <3>1, <3>2 DEF Apart, ExecutedAsSent
  <2>6. InOrder(Tail(to_mcu))
    <3> SUFFICES ASSUME NEW i \in 1 .. Len(Tail(to_mcu)), Tail(to_mcu)[i][2] = 2
                 PROVE  /\ i > 1 /\ Tail(to_mcu)[i - 1][1] = Tail(to_mcu)[i][1]
                        /\ Tail(to_mcu)[i - 1][2] = 1
      BY DEF InOrder
    <3>1. Stream[Len(l) + i] = Tail(to_mcu)[i] /\ Len(l) + i \in 1 .. Len(Stream)
      BY <1>2, <1>3, <1>5
    <3>2. Stream[Len(l) + i - 1][1] = Tail(to_mcu)[i][1] /\ Stream[Len(l) + i - 1][2] = 1
      BY <3>1 DEF Apart, InOrder
    <3>3. CASE i = 1
      <4>1. Stream[Len(l) + i - 1] = c
        <5>1. Len(l) + i - 1 = Len(l) /\ Len(l) \in 1 .. Len(l) /\ l[Len(l)] = c
          BY <1>3, <3>3
        <5> QED  BY <1>5, <5>1
      <4>2. Tail(to_mcu)[i] \in Chunk
        BY <1>2
      <4>3. Chunks(c[1]) >= 2 /\ c[2] = 1
        BY <3>2, <4>1, <4>2, ChunkFields
      <4> QED  BY <1>7, <4>3 DEF EndsLine
    <3>4. CASE i > 1
      <4>1. i - 1 \in 1 .. Len(Tail(to_mcu)) /\ Len(l) + i - 1 = Len(l) + (i - 1)
        BY <1>2, <1>3, <3>4
      <4>2. Stream[Len(l) + i - 1] = Tail(to_mcu)[i - 1]
        BY <1>5, <4>1
      <4> QED  BY <3>2, <3>4, <4>2
    <3> QED  BY <3>3, <3>4
  <2>7. ASSUME NEW r \in Req, place[r] = "writing", written[r] = 1, connected
        PROVE  EndsWithFirst(Tail(to_mcu), r)
    <3>1. EndsWithFirst(Stream, r) /\ Chunks(r) = 2
      BY <2>7, ChunkNumbers DEF Apart, Halfway
    <3>2. CASE Len(Tail(to_mcu)) = 0
      <4>0. Len(l) \in Nat /\ Len(l) \in 1 .. Len(l) /\ l[Len(l)] = c
        BY <1>3
      <4>1. Len(Stream) = Len(l) /\ Len(l) \in 1 .. Len(l) /\ l[Len(l)] = c
        BY <1>5, <3>2, <4>0
      <4>2. Stream[Len(Stream)] = c
        BY <1>5, <4>1
      <4> QED  BY <1>7, <3>1, <4>2 DEF EndsWithFirst, EndsLine
    <3>3. CASE Len(Tail(to_mcu)) > 0
      <4>1. Len(Tail(to_mcu)) \in 1 .. Len(Tail(to_mcu))
        BY <1>2, <3>3
      <4>2. Stream[Len(Stream)] = Tail(to_mcu)[Len(Tail(to_mcu))]
        BY <1>5, <4>1
      <4> QED  BY <3>1, <3>3, <4>2 DEF EndsWithFirst
    <3> QED  BY <1>2, <3>2, <3>3
  <2>8. Halfway'
    BY <1>1, <2>3, <2>7 DEF Apart, Halfway
  <2> QED  BY <2>2, <2>3, <2>5, <2>6, <2>8 DEF InOrder
<1> QED  BY <1>6, <1>7

\* A request that has been given up stays given up.
LEMMA LockedStays ==
  ASSUME TypeOK, Next, Locked'
  PROVE  Locked
<1>1. client' = client
  BY DEF Next, Begin, WriteChunk, WriteFails, WriteStalls, Timeout, Fail, McuTakes, PieceLost,
         OnNotify, Disconnect
<1>2. ASSUME NEW q \in Req, place[q] = "stalled" PROVE place'[q] = "stalled"
  <2>1. CASE \E r \in Req : Begin(r) \/ WriteChunk(r) \/ WriteFails(r) \/ WriteStalls(r) \/ Timeout(r)
    BY <1>2, <2>1 DEF Begin, WriteChunk, WriteFails, WriteStalls, Timeout, Fail, TypeOK
  <2>2. CASE McuTakes \/ PieceLost
    BY <1>2, <2>2 DEF McuTakes, PieceLost
  <2>3. CASE OnNotify
    <3>1. CASE UNCHANGED place
      BY <1>2, <3>1
    <3>2. CASE \E l : OnLine(l)
      BY <1>2, <3>2 DEF OnLine, Pending, TypeOK
    <3> QED  BY <2>3, <3>1, <3>2 DEF OnNotify
  <2>4. CASE Disconnect
    BY <1>2, <2>4 DEF Disconnect
  <2> QED  BY <2>1, <2>2, <2>3, <2>4 DEF Next
<1> QED  BY <1>1, <1>2 DEF Locked

\* Requests that only advance from writing to waiting and to their end.
LEMMA QuietKeepsApart ==
  ASSUME TypeOK, Apart, UNCHANGED <<connected, executed, line, to_mcu, written>>,
         \A q \in Req : \/ place'[q] = place[q]
                        \/ place'[q] \in {"ended", "stalled"}
  PROVE  Apart'
<1>1. UNCHANGED Stream /\ Stream' = Stream
  BY DEF Stream
<1>2. Exclusive'
  BY DEF Apart, Exclusive
<1>3. Halfway'
  BY <1>1 DEF Apart, Halfway
<1> QED  BY <1>1, <1>2, <1>3 DEF Apart, ExecutedAsSent, InOrder, Unfinished

LEMMA BeginKeepsApart ==
  ASSUME TypeOK, Locked, Apart, NEW r \in Req, Begin(r)
  PROVE  Apart'
<1>1. /\ place' = [place EXCEPT ![r] = "writing"] \/ place' = [place EXCEPT ![r] = "ended"]
      /\ place[r] = "new" /\ \A q \in Req : place[q] \notin {"writing", "waiting"}
      /\ UNCHANGED <<connected, executed, line, to_mcu, written>>
  BY DEF Begin, MayBegin, Locked
<1>2. UNCHANGED Stream /\ Stream' = Stream
  BY <1>1 DEF Stream
<1>3. Exclusive'
  BY <1>1 DEF Exclusive, TypeOK
<1>4. Halfway'
  <2> SUFFICES ASSUME NEW q \in Req
               PROVE  /\ place'[q] = "new" => written[q] = 0
                      /\ place'[q] = "writing" => written[q] = 0
    BY <1>1, ChunkNumbers DEF Halfway
  <2> QED  BY <1>1 DEF Apart, Halfway, TypeOK
<1> QED  BY <1>1, <1>2, <1>3, <1>4 DEF Apart, ExecutedAsSent, InOrder, Unfinished

LEMMA WriteKeepsApart ==
  ASSUME TypeOK, Locked, Apart, NEW r \in Req, WriteChunk(r)
  PROVE  Apart'
<1> DEFINE k == written[r] + 1
           c == <<r, k>>
<1>1. /\ place[r] = "writing" /\ connected /\ written[r] < Chunks(r)
      /\ written' = [written EXCEPT ![r] = k] /\ to_mcu' = Append(to_mcu, c)
      /\ UNCHANGED <<connected, executed, line>>
  BY DEF WriteChunk, Locked
<1>2. k \in 1 .. 2 /\ k <= Chunks(r) /\ c \in Chunk /\ c[1] = r /\ c[2] = k
  <2>1. written[r] \in 0 .. 2 /\ Chunks(r) \in 1 .. 2
    BY ChunkNumbers DEF TypeOK
  <2>2. k \in 1 .. 2 /\ k <= Chunks(r)
    BY <1>1, <2>1
  <2> HIDE DEF k
  <2> QED  BY <2>2 DEF Chunk
<1>3. line \in Seq(Chunk) /\ to_mcu \in Seq(Chunk)
  BY DEF TypeOK
<1> HIDE DEF c
<1>4. Stream' = Append(Stream, c)
  <2>1. line \o Append(to_mcu, c) = Append(line \o to_mcu, c)
    BY <1>2, <1>3, StreamGrows
  <2> QED  BY <1>1, <2>1 DEF Stream
<1>5. Stream \in Seq(Chunk)
  BY <1>3, ConcatFacts DEF Stream
<1>6. /\ Len(Stream') = Len(Stream) + 1 /\ Len(Stream) \in Nat
      /\ Stream'[Len(Stream) + 1] = c
      /\ \A i \in 1 .. Len(Stream) : Stream'[i] = Stream[i]
  BY <1>2, <1>4, <1>5, AppendFacts
<1>7. k = 2 => EndsWithFirst(Stream, r)
  <2>1. written[r] \in 0 .. 2
    BY DEF TypeOK
  <2>2. k = 2 => written[r] = 1
    BY <2>1
  <2> HIDE DEF k
  <2> QED  BY <1>1, <2>2 DEF Apart, Halfway
<1>8. InOrder(Stream)'
  <2> SUFFICES ASSUME NEW i \in 1 .. Len(Stream'), Stream'[i][2] = 2
               PROVE  i > 1 /\ Stream'[i - 1][1] = Stream'[i][1] /\ Stream'[i - 1][2] = 1
    BY DEF InOrder
  <2>1. CASE i = Len(Stream) + 1
    <3>1. EndsWithFirst(Stream, r)
      BY <1>2, <1>6, <1>7, <2>1
    <3>2. i > 1 /\ i - 1 = Len(Stream) /\ Len(Stream) \in 1 .. Len(Stream)
      BY <1>6, <2>1, <3>1 DEF EndsWithFirst
    <3> QED  BY <1>2, <1>6, <2>1, <3>1, <3>2 DEF EndsWithFirst
  <2>2. CASE i # Len(Stream) + 1
    <3>1. i \in 1 .. Len(Stream) /\ Stream'[i] = Stream[i]
      BY <1>6, <2>2
    <3>2. i > 1 /\ Stream[i - 1][1] = Stream[i][1] /\ Stream[i - 1][2] = 1
      BY <3>1 DEF Apart, InOrder
    <3>3. i - 1 \in 1 .. Len(Stream)
      BY <1>6, <3>1, <3>2
    <3> QED  BY <1>6, <3>1, <3>2, <3>3
  <2> QED  BY <2>1, <2>2
<1>9. \A q \in Req : place'[q] \in {"writing", "waiting"} => place[q] \in {"writing", "waiting"}
  BY <1>1 DEF WriteChunk, TypeOK
<1>10. Exclusive'
  BY <1>9 DEF Apart, Exclusive
<1>11. ASSUME NEW q \in Req
       PROVE  /\ place'[q] = "new" => written'[q] = 0
              /\ place'[q] = "writing" => written'[q] < Chunks(q)
              /\ place'[q] = "writing" /\ written'[q] = 1 /\ connected' => EndsWithFirst(Stream, q)'
  <2>1. CASE q = r
    <3>1. place'[r] # "new" /\ (place'[r] = "writing" => written'[r] # Chunks(r))
      BY <1>1 DEF WriteChunk, TypeOK
    <3>2. written'[r] = k
      BY <1>1 DEF TypeOK
    <3>3. k = 1 => EndsWithFirst(Stream, r)'
      BY <1>2, <1>6 DEF EndsWithFirst
    <3> QED  BY <1>2, <2>1, <3>1, <3>2, <3>3, ChunkNumbers
  <2>2. CASE q # r
    <3>1. place'[q] = place[q] /\ written'[q] = written[q]
      BY <1>1, <2>2 DEF WriteChunk, TypeOK
    <3>2. place[q] # "writing"
      BY <1>1, <2>2 DEF Apart, Exclusive
    <3> QED  BY <3>1, <3>2 DEF Apart, Halfway
  <2> QED  BY <2>1, <2>2
<1>12. Halfway'
  BY <1>11 DEF Halfway
<1> QED  BY <1>1, <1>8, <1>10, <1>12 DEF Apart, ExecutedAsSent, Unfinished

LEMMA ApartNext ==
  ASSUME TypeOK, Locked, Apart, Next
  PROVE  Apart'
<1>1. ASSUME NEW r \in Req, Begin(r) PROVE Apart'
  BY <1>1, BeginKeepsApart
<1>2. ASSUME NEW r \in Req, WriteChunk(r) PROVE Apart'
  BY <1>2, WriteKeepsApart
<1>3. ASSUME NEW r \in Req, WriteFails(r) \/ WriteStalls(r) \/ Timeout(r) PROVE Apart'
  <2>1. \A q \in Req : place'[q] = place[q] \/ place'[q] \in {"ended", "stalled"}
    BY <1>3 DEF WriteFails, WriteStalls, Timeout, Fail, TypeOK
  <2>2. UNCHANGED <<connected, executed, line, to_mcu, written>>
    BY <1>3 DEF WriteFails, WriteStalls, Timeout, Fail
  <2> QED  BY <2>1, <2>2, QuietKeepsApart
<1>4. CASE McuTakes
  <2>1. UNCHANGED place
    BY <1>4 DEF McuTakes
  <2>2. Exclusive'
    BY <2>1 DEF Apart, Exclusive
  <2> QED  BY <1>4, <2>2, TakesApart DEF Apart
<1>5. CASE PieceLost
  <2>1. UNCHANGED <<connected, executed, line, to_mcu, written, place>>
    BY <1>5 DEF PieceLost
  <2> QED  BY <2>1, QuietKeepsApart
<1>6. CASE OnNotify
  <2>1. UNCHANGED <<connected, executed, line, to_mcu, written>>
    BY <1>6 DEF OnNotify
  <2>2. \A q \in Req : place'[q] = place[q] \/ place'[q] \in {"ended", "stalled"}
    <3>1. CASE UNCHANGED place
      BY <3>1
    <3>2. CASE \E l : OnLine(l)
      BY <3>2 DEF OnLine, TypeOK
    <3> QED  BY <1>6, <3>1, <3>2 DEF OnNotify
  <2> QED  BY <2>1, <2>2, QuietKeepsApart
<1>7. CASE Disconnect
  <2>1. /\ connected' = FALSE /\ to_mcu' = <<>> /\ line' = <<>> /\ UNCHANGED <<written, executed>>
        /\ \A q \in Req : place'[q] = place[q] \/ place'[q] = "ended"
    BY <1>7 DEF Disconnect
  <2>2. Stream' = <<>> \o <<>>
    BY <2>1 DEF Stream
  <2>3. Len(Stream') = 0
    BY <2>2
  <2>4. InOrder(Stream)' /\ Unfinished'
    BY <2>1, <2>3, EmptyTyped DEF InOrder, Unfinished
  <2>5. Exclusive'
    BY <2>1 DEF Apart, Exclusive
  <2>6. Halfway'
    BY <2>1 DEF Apart, Halfway
  <2> QED  BY <2>1, <2>4, <2>5, <2>6 DEF Apart, ExecutedAsSent
<1> QED  BY <1>1, <1>2, <1>3, <1>4, <1>5, <1>6, <1>7 DEF Next

\* _ble_cmd_lock of BleTransport: as long as it has not given up a write that goes on,
\* the beacon executes requests whole, whatever writes fail between their chunks.
THEOREM LockApart == Spec => []LockKeepsApart
<1>1. Init => (Locked => Apart)
  <2> SUFFICES ASSUME Init PROVE Apart
    OBVIOUS
  <2>1. Stream = <<>> \o <<>> /\ line = <<>> /\ executed = {}
    BY DEF Init, Stream
  <2>2. Len(Stream) = 0
    BY <2>1
  <2>3. InOrder(Stream) /\ Unfinished /\ ExecutedAsSent
    BY <2>1, <2>2, EmptyTyped DEF InOrder, Unfinished, ExecutedAsSent
  <2>4. Exclusive /\ Halfway
    BY DEF Init, Exclusive, Halfway
  <2> QED  BY <2>3, <2>4 DEF Apart
<1>2. TypeOK /\ (Locked => Apart) /\ [Next]_vars => (Locked => Apart)'
  <2> SUFFICES ASSUME TypeOK, Locked => Apart, [Next]_vars, Locked' PROVE Apart'
    OBVIOUS
  <2>1. CASE Next
    BY <2>1, LockedStays, ApartNext
  <2>2. CASE UNCHANGED vars
    BY <2>2 DEF vars, Locked, Apart, ExecutedAsSent, InOrder, Stream, Unfinished, Exclusive,
                Halfway, EndsWithFirst
  <2> QED  BY <2>1, <2>2
<1>3. (Locked => Apart) => LockKeepsApart
  BY DEF Locked, Apart, LockKeepsApart
<1> QED  BY <1>1, <1>2, <1>3, TypeCorrect, PTL DEF Spec
-----------------------------------------------------------------------------
(* The data a request returns.  Whatever is lost of them, the pieces that  *)
(* come before "#r OK" and after "#r RSP" are of the answer to r; and      *)
(* nothing of that answer is on its way before the first chunk of r has    *)
(* been taken.                                                             *)

Answers == rx_buf \o from_mcu

Has(s, kind, r) == \E i \in 1 .. Len(s) : s[i][1] = kind /\ s[i][2] = r
Own(p, r)       == p[1] = "data" => p[2][1] = <<r, 1>>
OwnBetween(s)   == \A h, i, o \in 1 .. Len(s) :
                      h < i /\ i < o /\ s[h][1] = "head" /\ s[o][1] = "ok" =>
                         (s[h][2] = s[o][2] => Own(s[i], s[o][2]))
OwnLines(r)     == \A k \in 1 .. Len(lines[r]) : \A m \in 1 .. Len(lines[r][k]) :
                      Own(lines[r][k][m], r)

\* The first chunk of a request is written once.
IsFirst(c, r) == c[1] = r /\ c[2] = 1
ToCome(r)     == written[r] = 0 \/ \E i \in 1 .. Len(Stream) : IsFirst(Stream[i], r)
OnceSent      == \A r \in Req : \A i, j \in 1 .. Len(Stream) :
                    IsFirst(Stream[i], r) /\ IsFirst(Stream[j], r) => i = j /\ written[r] > 0

Coming(kind, r) == Has(Answers, kind, r)
InBetween       == OwnBetween(Answers)
Clean(r)        == ToCome(r) => ~Coming("head", r) /\ lines[r] = <<>>
Filed(r)        == Coming("ok", r) => OwnLines(r)
AnswerInv       == OnceSent /\ InBetween /\ \A r \in Req : Clean(r) /\ Filed(r)

\* Pieces are taken or lost, and the others keep their order.
LEMMA Thinner ==
  ASSUME NEW s, NEW t, NEW f,
         \A i \in 1 .. Len(t) : f[i] \in 1 .. Len(s) /\ t[i] = s[f[i]],
         \A i, j \in 1 .. Len(t) : i < j => f[i] < f[j]
  PROVE  /\ OwnBetween(s) => OwnBetween(t)
         /\ \A kind, r : Has(t, kind, r) => Has(s, kind, r)
<1>1. ASSUME OwnBetween(s) PROVE OwnBetween(t)
  <2> SUFFICES ASSUME NEW h \in 1 .. Len(t), NEW i \in 1 .. Len(t), NEW o \in 1 .. Len(t),
                      h < i, i < o, t[h][1] = "head", t[o][1] = "ok", t[h][2] = t[o][2]
               PROVE  Own(t[i], t[o][2])
    BY DEF OwnBetween
  <2>1. /\ f[h] \in 1 .. Len(s) /\ f[i] \in 1 .. Len(s) /\ f[o] \in 1 .. Len(s)
        /\ t[h] = s[f[h]] /\ t[i] = s[f[i]] /\ t[o] = s[f[o]] /\ f[h] < f[i] /\ f[i] < f[o]
    OBVIOUS
  <2>2. s[f[h]][1] = "head" /\ s[f[o]][1] = "ok" /\ s[f[h]][2] = s[f[o]][2]
    BY <2>1
  <2>3. Own(s[f[i]], s[f[o]][2])
    BY <1>1, <2>1, <2>2 DEF OwnBetween
  <2> QED  BY <2>1, <2>3
<1>2. ASSUME NEW kind, NEW r, Has(t, kind, r) PROVE Has(s, kind, r)
  BY <1>2 DEF Has
<1> QED  BY <1>1, <1>2

\* The beginning of the pieces is gone.
LEMMA Suffix ==
  ASSUME NEW s \in Seq(Piece), NEW t \in Seq(Piece), NEW n \in Nat,
         Len(s) = n + Len(t), \A i \in 1 .. Len(t) : t[i] = s[n + i]
  PROVE  /\ OwnBetween(s) => OwnBetween(t)
         /\ \A kind, r : Has(t, kind, r) => Has(s, kind, r)
<1> DEFINE f == [i \in 1 .. Len(t) |-> n + i]
<1>0. Len(t) \in Nat
  OBVIOUS
<1>1. \A i \in 1 .. Len(t) : f[i] \in 1 .. Len(s) /\ t[i] = s[f[i]]
  BY <1>0
<1>2. \A i, j \in 1 .. Len(t) : i < j => f[i] < f[j]
  BY <1>0
<1> HIDE DEF f
<1> QED  BY <1>1, <1>2, Thinner

\* One piece is gone.
LEMMA OneGone ==
  ASSUME NEW a \in Seq(Piece), NEW b \in Seq(Piece), b # <<>>
  PROVE  /\ OwnBetween(a \o b) => OwnBetween(a \o Tail(b))
         /\ \A kind, r : Has(a \o Tail(b), kind, r) => Has(a \o b, kind, r)
<1> DEFINE n == Len(a)
           s == a \o b
           t == a \o Tail(b)
           f == [i \in 1 .. Len(t) |-> IF i <= n THEN i ELSE i + 1]
<1>1. /\ Tail(b) \in Seq(Piece) /\ Len(b) \in Nat /\ Len(b) > 0 /\ Len(Tail(b)) = Len(b) - 1
      /\ \A i \in 1 .. Len(Tail(b)) : Tail(b)[i] = b[i + 1]
  BY HeadTail
<1>2. /\ Len(s) = n + Len(b) /\ n \in Nat
      /\ \A i \in 1 .. n : s[i] = a[i]
      /\ \A i \in 1 .. Len(b) : s[n + i] = b[i]
  BY ConcatFacts
<1>3. /\ Len(t) = n + Len(Tail(b))
      /\ \A i \in 1 .. n : t[i] = a[i]
      /\ \A i \in 1 .. Len(Tail(b)) : t[n + i] = Tail(b)[i]
  BY <1>1, ConcatFacts
<1> HIDE DEF n, s, t
<1>4. ASSUME NEW i \in 1 .. Len(t) PROVE f[i] \in 1 .. Len(s) /\ t[i] = s[f[i]]
  <2>1. CASE i <= n
    <3>1. f[i] = i /\ i \in 1 .. n /\ i \in 1 .. Len(s)
      BY <1>1, <1>2, <2>1
    <3> QED  BY <1>2, <1>3, <3>1
  <2>2. CASE i > n
    <3>1. f[i] = i + 1 /\ i - n \in 1 .. Len(Tail(b)) /\ (i - n) + 1 \in 1 .. Len(b)
          /\ i = n + (i - n) /\ i + 1 = n + ((i - n) + 1) /\ i + 1 \in 1 .. Len(s)
      BY <1>1, <1>2, <1>3, <2>2
    <3>2. t[i] = Tail(b)[i - n]
      BY <1>3, <3>1
    <3>3. s[i + 1] = b[(i - n) + 1]
      BY <1>2, <3>1
    <3> QED  BY <1>1, <3>1, <3>2, <3>3
  <2> QED  BY <1>1, <1>2, <1>3, <2>1, <2>2
<1>5. \A i, j \in 1 .. Len(t) : i < j => f[i] < f[j]
  BY <1>1, <1>2, <1>3
<1> HIDE DEF f
<1>6. (OwnBetween(s) => OwnBetween(t)) /\ \A kind, r : Has(t, kind, r) => Has(s, kind, r)
  BY <1>4, <1>5, Thinner
<1> QED  BY <1>6 DEF s, t

\* The answer to a line that begins with the first chunk of r, where no head of r is.
LEMMA AnswerOwn ==
  ASSUME NEW s \in Seq(Piece), OwnBetween(s), NEW l \in Seq(Chunk), l # <<>>, Tagged(l),
         ~Has(s, "head", l[1][1])
  PROVE  OwnBetween(s \o Answer(l))
<1> DEFINE a == Answer(l)
           r == l[1][1]
           u == s \o a
<1>1. a \in Seq(Piece)
  BY AnswerTyped
<1>2. l[1] = <<r, 1>>
  <2>1. l[1] \in Chunk
    BY HeadTail
  <2> QED  BY <2>1, ChunkFields DEF Tagged
<1>3. /\ Len(a) = 4 /\ a[1] = <<"head", r>> /\ a[2] = <<"data", l>> /\ a[3] = <<"end">>
      /\ a[4] = <<"ok", r>>
  BY DEF Answer
<1>4. /\ Len(u) = Len(s) + Len(a) /\ Len(s) \in Nat
      /\ \A i \in 1 .. Len(s) : u[i] = s[i]
      /\ \A i \in 1 .. Len(a) : u[Len(s) + i] = a[i]
  BY <1>1, ConcatFacts
<1> HIDE DEF a, u
<1>5. \A i \in 1 .. Len(a) : Own(a[i], r)
  <2>1. \A i \in 1 .. 4 : i = 1 \/ i = 2 \/ i = 3 \/ i = 4
    OBVIOUS
  <2>2. Own(a[1], r) /\ Own(a[2], r) /\ Own(a[3], r) /\ Own(a[4], r)
    BY <1>2, <1>3 DEF Own
  <2> QED  BY <1>3, <2>1, <2>2
<1>6. \A i \in 1 .. Len(a) : a[i][1] = "ok" => i = 4 /\ a[i][2] = r
  <2>1. \A i \in 1 .. 4 : i = 1 \/ i = 2 \/ i = 3 \/ i = 4
    OBVIOUS
  <2>2. a[1][1] # "ok" /\ a[2][1] # "ok" /\ a[3][1] # "ok" /\ a[4][2] = r
    BY <1>3
  <2> QED  BY <1>3, <2>1, <2>2
<1>7. \A i \in 1 .. Len(u) : \/ i \in 1 .. Len(s)
                             \/ i > Len(s) /\ i - Len(s) \in 1 .. Len(a) /\ u[i] = a[i - Len(s)]
  <2> SUFFICES ASSUME NEW i \in 1 .. Len(u), i > Len(s)
               PROVE  i - Len(s) \in 1 .. Len(a) /\ u[i] = a[i - Len(s)]
    BY <1>4
  <2>0. Len(a) \in Nat
    BY <1>3
  <2>1. i - Len(s) \in 1 .. Len(a) /\ i = Len(s) + (i - Len(s))
    BY <1>4, <2>0
  <2> QED  BY <1>4, <2>1
<1>8. OwnBetween(u)
  <2> SUFFICES ASSUME NEW h \in 1 .. Len(u), NEW i \in 1 .. Len(u), NEW o \in 1 .. Len(u),
                      h < i, i < o, u[h][1] = "head", u[o][1] = "ok", u[h][2] = u[o][2]
               PROVE  Own(u[i], u[o][2])
    BY DEF OwnBetween
  <2>1. CASE o \in 1 .. Len(s)
    <3>1. h \in 1 .. Len(s) /\ i \in 1 .. Len(s)
      BY <1>4, <2>1
    <3> QED  BY <1>4, <2>1, <3>1 DEF OwnBetween
  <2>2. CASE o > Len(s) /\ o - Len(s) \in 1 .. Len(a) /\ u[o] = a[o - Len(s)]
    <3>1. u[o][2] = r
      BY <1>6, <2>2
    <3>2. h \notin 1 .. Len(s)
      BY <1>4, <3>1 DEF Has
    <3>3. i > Len(s)
      BY <1>4, <3>2
    <3>4. u[i] = a[i - Len(s)] /\ i - Len(s) \in 1 .. Len(a)
      BY <1>4, <1>7, <3>3
    <3> QED  BY <1>5, <3>1, <3>4
  <2> QED  BY <1>7, <2>1, <2>2
<1> QED  BY <1>8 DEF a, u

\* What a line adds to the pieces is of its own request only, and a refusal is no OK.
LEMMA AddedPieces ==
  ASSUME NEW s \in Seq(Piece), NEW a \in Seq(Piece)
  PROVE  \A kind, r : Has(s \o a, kind, r) => Has(s, kind, r) \/ Has(a, kind, r)
<1> DEFINE u == s \o a
<1>1. /\ Len(u) = Len(s) + Len(a) /\ Len(s) \in Nat /\ Len(a) \in Nat
      /\ \A i \in 1 .. Len(s) : u[i] = s[i]
      /\ \A i \in 1 .. Len(a) : u[Len(s) + i] = a[i]
  BY ConcatFacts
<1> HIDE DEF u
<1>2. ASSUME NEW kind, NEW r, NEW i \in 1 .. Len(u), u[i][1] = kind /\ u[i][2] = r
      PROVE  Has(s, kind, r) \/ Has(a, kind, r)
  <2>1. CASE i <= Len(s)
    <3>1. i \in 1 .. Len(s)
      BY <1>1, <2>1
    <3> QED  BY <1>1, <1>2, <3>1 DEF Has
  <2>2. CASE i > Len(s)
    <3>1. i - Len(s) \in 1 .. Len(a) /\ i = Len(s) + (i - Len(s))
      BY <1>1, <2>2
    <3> QED  BY <1>1, <1>2, <3>1 DEF Has
  <2> QED  BY <1>1, <2>1, <2>2
<1>3. \A kind, r : Has(u, kind, r) => Has(s, kind, r) \/ Has(a, kind, r)
  BY <1>2 DEF Has
<1> QED  BY <1>3 DEF u

\* A step after which there is nothing new of an answer.
LEMMA NothingNew ==
  ASSUME TypeOK, AnswerInv, OnceSent', InBetween',
         \A r \in Req : ToCome(r)' => ToCome(r),
         \A kind, r : Coming(kind, r)' => Coming(kind, r),
         \A r \in Req : lines'[r] = lines[r] \/ lines'[r] = <<>>
  PROVE  AnswerInv'
<1>1. ASSUME NEW r \in Req PROVE Clean(r)' /\ Filed(r)'
  <2>1. Clean(r) /\ Filed(r)
    BY DEF AnswerInv
  <2>2. OwnLines(r) => OwnLines(r)'
    BY EmptyTyped DEF OwnLines
  <2> QED  BY <2>1, <2>2 DEF Clean, Filed
<1> QED  BY <1>1 DEF AnswerInv

\* The link's queues are as they were.
LEMMA QueuesStay ==
  ASSUME UNCHANGED <<rx_buf, from_mcu>>
  PROVE  (InBetween => InBetween') /\ \A kind, r : Coming(kind, r)' <=> Coming(kind, r)
<1>1. Answers' = Answers
  BY DEF Answers
<1> QED  BY <1>1 DEF InBetween, Coming, OwnBetween, Has

LEMMA StreamSame ==
  ASSUME Stream' = Stream, written' = written
  PROVE  (OnceSent => OnceSent') /\ \A r \in Req : ToCome(r)' <=> ToCome(r)
BY DEF OnceSent, ToCome

\* The first l chunks of the stream are taken.
LEMMA StreamTaken ==
  ASSUME TypeOK, OnceSent, NEW n \in Nat, NEW t \in Seq(Chunk), Stream' = t,
         Len(Stream) = n + Len(t), \A i \in 1 .. Len(t) : t[i] = Stream[n + i],
         written' = written
  PROVE  /\ OnceSent' /\ \A r \in Req : ToCome(r)' => ToCome(r)
         /\ \A r \in Req, k \in 1 .. n : IsFirst(Stream[k], r) => ~ToCome(r)'
<1>0. Len(t) \in Nat
  OBVIOUS
<1>1. \A i \in 1 .. Len(t) : n + i \in 1 .. Len(Stream) /\ Stream'[i] = Stream[n + i]
  BY <1>0
<1>2. \A i, j \in 1 .. Len(t) : n + i = n + j => i = j
  BY <1>0
<1>3. OnceSent'
  BY SMTT(25), <1>1, <1>2 DEF OnceSent
<1>4. \A r \in Req : ToCome(r)' => ToCome(r)
  BY <1>1 DEF ToCome
<1>5. ASSUME NEW r \in Req, NEW k \in 1 .. n, IsFirst(Stream[k], r), ToCome(r)' PROVE FALSE
  <2>1. k \in 1 .. Len(Stream)
    BY <1>0
  <2>2. written[r] > 0 /\ written'[r] # 0
    BY <1>5, <2>1 DEF OnceSent, TypeOK
  <2>3. PICK i \in 1 .. Len(t) : IsFirst(Stream'[i], r)
    BY <1>5, <2>2 DEF ToCome
  <2>4. n + i = k
    BY <1>1, <1>5, <2>1, <2>3 DEF OnceSent
  <2> QED  BY <2>4
<1> QED  BY <1>3, <1>4, <1>5

LEMMA WriteOnce ==
  ASSUME TypeOK, AnswerInv, NEW r \in Req, WriteChunk(r)
  PROVE  OnceSent' /\ \A q \in Req : ToCome(q)' => ToCome(q)
<1> DEFINE c == <<r, written[r] + 1>>
<1>1. /\ written[r] \in 0 .. 2 /\ Chunks(r) \in 1 .. 2 /\ written[r] < Chunks(r)
      /\ written' = [written EXCEPT ![r] = written[r] + 1] /\ to_mcu' = Append(to_mcu, c)
      /\ line' = line
  BY ChunkNumbers DEF WriteChunk, TypeOK
<1>2. c \in Chunk /\ c[1] = r /\ c[2] = written[r] + 1
  BY <1>1 DEF Chunk
<1>3. line \in Seq(Chunk) /\ to_mcu \in Seq(Chunk)
  BY DEF TypeOK
<1> HIDE DEF c
<1>4. Stream' = Append(Stream, c) /\ Stream \in Seq(Chunk)
  <2>1. line \o Append(to_mcu, c) = Append(line \o to_mcu, c)
    BY <1>2, <1>3, StreamGrows
  <2> QED  BY <1>1, <1>3, <2>1, ConcatFacts DEF Stream
<1>5. /\ Len(Stream') = Len(Stream) + 1 /\ Len(Stream) \in Nat
      /\ Stream'[Len(Stream) + 1] = c
      /\ \A i \in 1 .. Len(Stream) : Stream'[i] = Stream[i]
  BY <1>2, <1>4, AppendFacts
<1>6. \A i \in 1 .. Len(Stream') : i \in 1 .. Len(Stream) \/ i = Len(Stream) + 1
  BY <1>5
<1>7. \A q \in Req : /\ written'[q] = IF q = r THEN written[r] + 1 ELSE written[q]
                     /\ written[q] \in 0 .. 2
  BY <1>1 DEF TypeOK
<1>8. ASSUME NEW q \in Req, IsFirst(c, q) PROVE q = r /\ written[q] = 0
  BY <1>1, <1>2, <1>8 DEF IsFirst
<1>9. OnceSent'
  <2> SUFFICES ASSUME NEW q \in Req, NEW i \in 1 .. Len(Stream'), NEW j \in 1 .. Len(Stream'),
                      IsFirst(Stream'[i], q), IsFirst(Stream'[j], q)
               PROVE  i = j /\ written'[q] > 0
    BY DEF OnceSent
  <2>1. written'[q] >= written[q] /\ (q = r => written'[q] > 0)
    BY <1>1, <1>7
  <2>2. ASSUME NEW k \in 1 .. Len(Stream), IsFirst(Stream[k], q) PROVE written[q] > 0
    BY <2>2 DEF AnswerInv, OnceSent
  <2>3. CASE i \in 1 .. Len(Stream) /\ j \in 1 .. Len(Stream)
    <3>1. i = j /\ written[q] > 0
      BY <1>5, <2>3 DEF AnswerInv, OnceSent
    <3> QED  BY <1>7, <2>1, <3>1
  <2>4. CASE i = Len(Stream) + 1 /\ j = Len(Stream) + 1
    BY <1>5, <1>8, <2>1, <2>4
  <2>5. CASE i \in 1 .. Len(Stream) /\ j = Len(Stream) + 1
    BY <1>5, <1>8, <2>2, <2>5
  <2>6. CASE i = Len(Stream) + 1 /\ j \in 1 .. Len(Stream)
    BY <1>5, <1>8, <2>2, <2>6
  <2> QED  BY <1>6, <2>3, <2>4, <2>5, <2>6
<1>10. ASSUME NEW q \in Req, ToCome(q)' PROVE ToCome(q)
  <2>1. CASE written'[q] = 0
    BY <1>1, <1>7, <2>1 DEF ToCome
  <2>2. ASSUME NEW i \in 1 .. Len(Stream'), IsFirst(Stream'[i], q) PROVE ToCome(q)
    BY <1>5, <1>6, <1>8, <2>2 DEF ToCome
  <2> QED  BY <1>10, <2>1, <2>2 DEF ToCome
<1> QED  BY <1>9, <1>10

\* The beacon takes a chunk.
LEMMA TakesAnswers ==
  ASSUME TypeOK, AnswerInv, McuTakes
  PROVE  AnswerInv'
<1> DEFINE c == Head(to_mcu)
           l == Append(line, c)
           t == Tail(to_mcu)
<1>1. /\ to_mcu # <<>> /\ to_mcu \in Seq(Chunk) /\ line \in Seq(Chunk) /\ to_mcu' = t
      /\ UNCHANGED <<written, rx_buf, lines>>
  BY DEF McuTakes, TypeOK
<1>2. c \in Chunk /\ t \in Seq(Chunk)
  BY <1>1, HeadTail
<1>3. l \in Seq(Chunk) /\ l # <<>> /\ Len(l) \in Nat /\ Len(l) > 0
  BY <1>1, <1>2, AppendFacts
<1>4. l \o t = Stream
  <2>1. Append(line, Head(to_mcu)) \o Tail(to_mcu) = line \o to_mcu
    BY <1>1, StreamStays
  <2> QED  BY <2>1 DEF Stream
<1>a. ~EndsLine(c) => line' = l /\ UNCHANGED from_mcu
  BY DEF McuTakes
<1>b. EndsLine(c) => line' = <<>> /\ HandleLine(l)
  BY DEF McuTakes
<1> HIDE DEF l, c, t
<1>5. /\ Len(Stream) = Len(l) + Len(t)
      /\ \A i \in 1 .. Len(l) : Stream[i] = l[i]
      /\ \A i \in 1 .. Len(t) : Stream[Len(l) + i] = t[i]
  BY <1>2, <1>3, <1>4, ConcatFacts
<1>6. CASE ~EndsLine(c)
  <2>1. Stream' = Stream
    BY <1>1, <1>4, <1>6, <1>a DEF Stream
  <2>2. UNCHANGED <<rx_buf, from_mcu>>
    BY <1>1, <1>6, <1>a
  <2> QED  BY <1>1, <2>1, <2>2, StreamSame, QueuesStay, NothingNew DEF AnswerInv
<1>7. CASE EndsLine(c)
  <2>1. Stream' = t
    <3>1. Stream' = <<>> \o t
      BY <1>1, <1>7, <1>b DEF Stream
    <3> QED  BY <1>2, <3>1
  <2>2. /\ OnceSent' /\ \A r \in Req : ToCome(r)' => ToCome(r)
        /\ \A r \in Req, k \in 1 .. Len(l) : IsFirst(Stream[k], r) => ~ToCome(r)'
    BY <1>1, <1>2, <1>3, <1>5, <2>1, StreamTaken DEF AnswerInv
  <2>3. l[1] = Stream[1] /\ 1 \in 1 .. Len(l) /\ 1 \in 1 .. Len(Stream) /\ l[1] \in Chunk
    <3>1. 1 \in 1 .. Len(l) /\ 1 \in 1 .. Len(Stream)
      BY <1>2, <1>3, <1>5
    <3> QED  BY <1>3, <1>5, <3>1
  <2>4. Answers \in Seq(Piece) /\ rx_buf \in Seq(Piece) /\ from_mcu \in Seq(Piece)
    BY ConcatFacts DEF Answers, TypeOK
  <2>5. \A a \in Seq(Piece) : from_mcu' = from_mcu \o a => Answers' = Answers \o a
    <3> SUFFICES ASSUME NEW a \in Seq(Piece), from_mcu' = from_mcu \o a
                 PROVE  Answers' = Answers \o a
      OBVIOUS
    <3>1. rx_buf \o (from_mcu \o a) = (rx_buf \o from_mcu) \o a
      BY <2>4
    <3> QED  BY <1>1, <3>1 DEF Answers
  <2>6. CASE Tagged(l) /\ from_mcu' = from_mcu \o Answer(l)
    <3> DEFINE r == l[1][1]
    <3>1. r \in Req /\ IsFirst(Stream[1], r)
      BY <2>3, <2>6, ChunkFields DEF IsFirst, Tagged
    <3>2. \A q \in Req : q = r => ToCome(q) /\ ~ToCome(q)'
      <4> SUFFICES ASSUME NEW q \in Req, q = r PROVE ToCome(q) /\ ~ToCome(q)'
        OBVIOUS
      <4>1. IsFirst(Stream[1], q)
        BY <3>1
      <4>2. ToCome(q)
        BY <2>3, <4>1 DEF ToCome
      <4>3. ~ToCome(q)'
        BY <2>2, <2>3, <4>1
      <4> QED  BY <4>2, <4>3
    <3>3. ~Has(Answers, "head", r) /\ lines[r] = <<>>
      BY <3>1, <3>2 DEF AnswerInv, Clean, Coming
    <3>4. Answer(l) \in Seq(Piece) /\ Answers' = Answers \o Answer(l)
      BY <1>3, <2>5, <2>6, AnswerTyped
    <3>5. OwnBetween(Answers \o Answer(l))
      BY <1>3, <2>4, <2>6, <3>3, AnswerOwn DEF AnswerInv, InBetween
    <3>6. InBetween'
      BY <3>4, <3>5 DEF InBetween
    <3>7. \A kind \in {"head", "ok"} : \A q : Has(Answer(l), kind, q) => q = r
      <4>1. /\ Len(Answer(l)) = 4 /\ Answer(l)[1] = <<"head", r>> /\ Answer(l)[2] = <<"data", l>>
            /\ Answer(l)[3] = <<"end">> /\ Answer(l)[4] = <<"ok", r>>
        BY DEF Answer
      <4>2. \A i \in 1 .. 4 : i = 1 \/ i = 2 \/ i = 3 \/ i = 4
        OBVIOUS
      <4>3. /\ Answer(l)[1][2] = r /\ Answer(l)[4][2] = r
            /\ Answer(l)[2][1] = "data" /\ Answer(l)[3][1] = "end"
        BY <4>1
      <4> HIDE DEF r
      <4> QED  BY <4>1, <4>2, <4>3 DEF Has
    <3> HIDE DEF r
    <3>8. ASSUME NEW q \in Req, NEW kind \in {"head", "ok"}, Coming(kind, q)'
          PROVE  Coming(kind, q) \/ q = r
      <4>1. Has(Answers \o Answer(l), kind, q)
        BY <3>4, <3>8 DEF Coming
      <4> QED  BY <2>4, <3>4, <3>7, <4>1, AddedPieces DEF Coming
    <3>9. ASSUME NEW q \in Req PROVE Clean(q)' /\ Filed(q)'
      <4>1. Clean(q) /\ Filed(q)
        BY DEF AnswerInv
      <4>2. CASE q = r
        <5>1. OwnLines(q)'
          BY <1>1, <3>3, <4>2, EmptyTyped DEF OwnLines
        <5> QED  BY <3>2, <4>2, <5>1 DEF Clean, Filed
      <4>3. CASE q # r
        <5>1. (OwnLines(q) => OwnLines(q)') /\ lines'[q] = lines[q]
          BY <1>1 DEF OwnLines
        <5> QED  BY <2>2, <3>8, <4>1, <4>3, <5>1 DEF Clean, Filed
      <4> QED  BY <4>2, <4>3
    <3> QED  BY <2>2, <3>6, <3>9 DEF AnswerInv
  <2>7. CASE from_mcu' = from_mcu \o Refusal(l)
    <3>1. Refusal(l) \in Seq(Piece) /\ Answers' = Answers \o Refusal(l)
      BY <1>3, <2>5, <2>7, AnswerTyped
    <3>2. Len(Refusal(l)) = 1 /\ Refusal(l)[1][1] = "err"
      BY DEF Refusal
    <3>3. \A q : Has(Refusal(l), "ok", q) \/ Has(Refusal(l), "head", q) => FALSE
      BY <3>2 DEF Has
    <3>4. \A kind \in {"head", "ok"} : \A q : Coming(kind, q)' => Coming(kind, q)
      <4>1. \A kind, q : Has(Answers \o Refusal(l), kind, q) =>
                            Has(Answers, kind, q) \/ Has(Refusal(l), kind, q)
        BY <2>4, <3>1, AddedPieces
      <4>2. \A kind, q : Coming(kind, q)' <=> Has(Answers \o Refusal(l), kind, q)
        BY <3>1 DEF Coming
      <4> QED  BY <3>3, <4>1, <4>2 DEF Coming
    <3>5. InBetween'
      <4> DEFINE u == Answers \o Refusal(l)
      <4>1. /\ Len(u) = Len(Answers) + 1 /\ Len(Answers) \in Nat /\ u[Len(Answers) + 1][1] = "err"
            /\ \A i \in 1 .. Len(Answers) : u[i] = Answers[i]
        <5>1. /\ Len(u) = Len(Answers) + Len(Refusal(l)) /\ Len(Answers) \in Nat
              /\ \A i \in 1 .. Len(Answers) : u[i] = Answers[i]
              /\ \A i \in 1 .. Len(Refusal(l)) : u[Len(Answers) + i] = Refusal(l)[i]
          BY <2>4, <3>1, ConcatFacts
        <5> HIDE DEF u
        <5>2. 1 \in 1 .. Len(Refusal(l))
          BY <3>2
        <5> QED  BY <3>2, <5>1, <5>2
      <4> HIDE DEF u
      <4>2. \A i \in 1 .. Len(u) : i \in 1 .. Len(Answers) \/ i = Len(Answers) + 1
        BY <4>1
      <4>3. ASSUME NEW h \in 1 .. Len(u), NEW i \in 1 .. Len(u), NEW o \in 1 .. Len(u),
                   h < i, i < o, u[h][1] = "head", u[o][1] = "ok", u[h][2] = u[o][2]
            PROVE  Own(u[i], u[o][2])
        <5>1. o \in 1 .. Len(Answers)
          BY <4>1, <4>2, <4>3
        <5>2. i \in 1 .. Len(Answers) /\ h \in 1 .. Len(Answers)
          BY <4>1, <4>3, <5>1
        <5>3. u[h] = Answers[h] /\ u[i] = Answers[i] /\ u[o] = Answers[o]
          BY <4>1, <5>1, <5>2
        <5>4. Own(Answers[i], Answers[o][2])
          BY <4>3, <5>1, <5>2, <5>3 DEF AnswerInv, InBetween, OwnBetween
        <5> QED  BY <5>3, <5>4
      <4>4. OwnBetween(u)
        BY <4>3 DEF OwnBetween
      <4> QED  BY <3>1, <4>4 DEF InBetween, u
    <3>6. ASSUME NEW q \in Req PROVE Clean(q)' /\ Filed(q)'
      <4>1. Clean(q) /\ Filed(q) /\ (OwnLines(q) => OwnLines(q)')
        BY <1>1 DEF AnswerInv, OwnLines
      <4> QED  BY <1>1, <2>2, <3>4, <4>1 DEF Clean, Filed
    <3> QED  BY <2>2, <3>5, <3>6 DEF AnswerInv
  <2>8. CASE UNCHANGED from_mcu
    BY <1>1, <2>2, <2>8, QueuesStay, NothingNew DEF AnswerInv
  <2> QED  BY <1>7, <1>b, <2>6, <2>7, <2>8 DEF HandleLine
<1> QED  BY <1>6, <1>7

LEMMA LostAnswers ==
  ASSUME TypeOK, AnswerInv, PieceLost
  PROVE  AnswerInv'
<1>1. /\ from_mcu # <<>> /\ from_mcu' = Tail(from_mcu)
      /\ UNCHANGED <<written, line, to_mcu, rx_buf, lines>>
  BY DEF PieceLost
<1>2. rx_buf \in Seq(Piece) /\ from_mcu \in Seq(Piece)
  BY DEF TypeOK
<1>3. Answers' = rx_buf \o Tail(from_mcu)
  BY <1>1 DEF Answers
<1>4. /\ OwnBetween(rx_buf \o from_mcu) => OwnBetween(rx_buf \o Tail(from_mcu))
      /\ \A kind, r : Has(rx_buf \o Tail(from_mcu), kind, r) => Has(rx_buf \o from_mcu, kind, r)
  BY <1>1, <1>2, OneGone
<1>5. InBetween' /\ \A kind, r : Coming(kind, r)' => Coming(kind, r)
  BY <1>3, <1>4 DEF AnswerInv, InBetween, Coming, Answers
<1>6. Stream' = Stream
  BY <1>1 DEF Stream
<1> QED  BY <1>1, <1>5, <1>6, StreamSame, NothingNew DEF AnswerInv

\* The link goes down: what was on its way is gone.
LEMMA DownAnswers ==
  ASSUME TypeOK, AnswerInv, Disconnect
  PROVE  AnswerInv' /\ (OwnAnswer => OwnAnswer')
<1>1. /\ to_mcu' = <<>> /\ line' = <<>> /\ from_mcu' = <<>> /\ UNCHANGED <<written, rx_buf>>
      /\ \A r \in Req : lines'[r] = lines[r] \/ lines'[r] = <<>>
      /\ \A r \in Req : result'[r] = result[r] \/ result'[r] = Failed
  BY DEF Disconnect
<1>2. Stream' = <<>> \o <<>> /\ Answers' = rx_buf \o <<>>
  BY <1>1 DEF Stream, Answers
<1>3. Len(Stream') = 0
  BY <1>2
<1>4. OnceSent' /\ \A r \in Req : ToCome(r)' => ToCome(r)
  BY <1>1, <1>3 DEF OnceSent, ToCome
<1>5. rx_buf \in Seq(Piece) /\ from_mcu \in Seq(Piece) /\ Answers' = rx_buf
  BY <1>2 DEF TypeOK
<1>6. /\ Len(Answers) = Len(rx_buf) + Len(from_mcu) /\ Len(rx_buf) \in Nat /\ Len(from_mcu) \in Nat
      /\ \A i \in 1 .. Len(rx_buf) : Answers[i] = rx_buf[i]
  BY <1>5, ConcatFacts DEF Answers
<1>7. \A i \in 1 .. Len(rx_buf) : i \in 1 .. Len(Answers)
  BY <1>6
<1> DEFINE f == [i \in 1 .. Len(rx_buf) |-> i]
<1>8. /\ \A i \in 1 .. Len(rx_buf) : f[i] \in 1 .. Len(Answers) /\ rx_buf[i] = Answers[f[i]]
      /\ \A i, j \in 1 .. Len(rx_buf) : i < j => f[i] < f[j]
  BY <1>6, <1>7
<1> HIDE DEF f
<1>9. /\ OwnBetween(Answers) => OwnBetween(rx_buf)
      /\ \A kind, r : Has(rx_buf, kind, r) => Has(Answers, kind, r)
  BY <1>8, Thinner
<1>10. InBetween' /\ \A kind, r : Coming(kind, r)' => Coming(kind, r)
  BY <1>5, <1>9 DEF AnswerInv, InBetween, Coming
<1>11. OwnAnswer => OwnAnswer'
  BY <1>1 DEF OwnAnswer, Failed
<1> QED  BY <1>1, <1>4, <1>10, <1>11, NothingNew

\* What a request makes of lines of its own data.
LEMMA ParsedOwn ==
  ASSUME TypeOK, NEW r \in Req, OwnLines(r), Parsed(lines[r])[1] = "data"
  PROVE  Parsed(lines[r])[2][1] = <<r, 1>>
<1>1. lines[r] \in Seq(Seq(Piece))
  BY DEF TypeOK
<1>2. /\ lines[r] # <<>> /\ Len(Head(lines[r])) = 2 /\ Parsed(lines[r]) = Head(lines[r])[1]
  BY DEF Parsed, Bare, Failed
<1>3. Head(lines[r]) = lines[r][1] /\ 1 \in 1 .. Len(lines[r])
  BY <1>1, <1>2, HeadTail
<1>4. 1 \in 1 .. Len(lines[r][1])
  BY <1>2, <1>3
<1>5. Own(lines[r][1][1], r)
  BY <1>3, <1>4 DEF OwnLines
<1> QED  BY <1>2, <1>3, <1>5 DEF Own

LEMMA NotifiedAnswers ==
  ASSUME TypeOK, AnswerInv, OwnAnswer, OnNotify
  PROVE  AnswerInv' /\ OwnAnswer'
<1> DEFINE c == Head(from_mcu)
           l == Append(rx_buf, c)
           t == Tail(from_mcu)
<1>1. /\ from_mcu # <<>> /\ from_mcu \in Seq(Piece) /\ rx_buf \in Seq(Piece) /\ from_mcu' = t
      /\ UNCHANGED <<written, line, to_mcu>>
  BY DEF OnNotify, TypeOK
<1>2. c \in Piece /\ t \in Seq(Piece)
  BY <1>1, HeadTail
<1>3. l \in Seq(Piece) /\ l # <<>> /\ Len(l) \in Nat /\ Len(l) > 0
  BY <1>1, <1>2, AppendFacts
<1>4. l \o t = Answers
  <2>1. Append(rx_buf, Head(from_mcu)) \o Tail(from_mcu) = rx_buf \o from_mcu
    BY <1>1, StreamStays
  <2> QED  BY <2>1 DEF Answers
<1>a. c[1] \in {"end", "ok", "err"} => rx_buf' = <<>> /\ OnLine(l)
  BY DEF OnNotify
<1>b. c[1] \notin {"end", "ok", "err"} => rx_buf' = l /\ UNCHANGED <<place, result, lines>>
  BY DEF OnNotify
<1> HIDE DEF l, c, t
<1>5. /\ Len(Answers) = Len(l) + Len(t) /\ Len(t) \in Nat
      /\ \A i \in 1 .. Len(l) : Answers[i] = l[i]
      /\ \A i \in 1 .. Len(t) : Answers[Len(l) + i] = t[i]
  BY <1>2, <1>3, <1>4, ConcatFacts
<1>s. Stream' = Stream
  BY <1>1 DEF Stream
<1>6. CASE c[1] \notin {"end", "ok", "err"}
  <2>1. Answers' = Answers
    BY <1>1, <1>4, <1>6, <1>b DEF Answers
  <2>2. InBetween' /\ \A kind, r : Coming(kind, r)' <=> Coming(kind, r)
    BY <2>1 DEF AnswerInv, InBetween, Coming, OwnBetween, Has
  <2>3. lines' = lines /\ result' = result
    BY <1>6, <1>b
  <2> QED  BY <1>1, <1>s, <2>2, <2>3, StreamSame, NothingNew DEF AnswerInv, OwnAnswer
<1>7. CASE c[1] \in {"end", "ok", "err"}
  <2> DEFINE r == l[1][2]
  <2>1. Answers' = t
    <3>1. Answers' = <<>> \o t
      BY <1>1, <1>7, <1>a DEF Answers
    <3> QED  BY <1>2, <3>1
  <2>2. Answers \in Seq(Piece)
    BY ConcatFacts DEF Answers, TypeOK
  <2>3. /\ OwnBetween(Answers) => OwnBetween(t)
        /\ \A kind, q : Has(t, kind, q) => Has(Answers, kind, q)
    BY <1>2, <1>3, <1>5, <2>2, Suffix
  <2>4. InBetween' /\ \A kind, q : Coming(kind, q)' => Coming(kind, q)
    BY <2>1, <2>3 DEF AnswerInv, InBetween, Coming
  <2>5. l[1] = Answers[1] /\ 1 \in 1 .. Len(l) /\ 1 \in 1 .. Len(Answers) /\ l[1] \in Piece
    <3>1. 1 \in 1 .. Len(l) /\ 1 \in 1 .. Len(Answers)
      BY <1>3, <1>5
    <3> QED  BY <1>3, <1>5, <3>1
  <2>6. OnLine(l)
    BY <1>7, <1>a
  <2>7. CASE l[1][1] \in {"ok", "err"} /\ Pending(r)
    <3>1. r \in Req
      BY <2>5, <2>7 DEF Piece
    <3>2. /\ result' = [result EXCEPT ![r] = IF l[1][1] = "ok" THEN Parsed(lines[r]) ELSE Failed]
          /\ lines' = [lines EXCEPT ![r] = <<>>]
      BY <2>6, <2>7 DEF OnLine
    <3>3. l[1][1] = "ok" => OwnLines(r)
      <4>1. l[1][1] = "ok" => Coming("ok", r)
        BY <2>5 DEF Coming, Has
      <4> HIDE DEF r
      <4> QED  BY <3>1, <4>1 DEF AnswerInv, Filed
    <3> HIDE DEF r
    <3>4. \A q \in Req : lines'[q] = lines[q] \/ lines'[q] = <<>>
      BY <3>2 DEF TypeOK
    <3>5. AnswerInv'
      BY <1>1, <1>s, <2>4, <3>4, StreamSame, NothingNew DEF AnswerInv
    <3>6. ASSUME NEW q \in Req, result'[q][1] = "data" PROVE result'[q][2][1] = <<q, 1>>
      <4>1. CASE q # r
        <5>1. result'[q] = result[q]
          BY <3>2, <4>1 DEF TypeOK
        <5> QED  BY <3>6, <5>1 DEF OwnAnswer
      <4>2. CASE q = r
        <5>1. result'[q] = IF l[1][1] = "ok" THEN Parsed(lines[q]) ELSE Failed
          BY <3>2, <4>2 DEF TypeOK
        <5>2. l[1][1] = "ok" /\ result'[q] = Parsed(lines[q])
          BY <3>6, <5>1 DEF Failed
        <5>3. OwnLines(q)
          BY <3>3, <4>2, <5>2
        <5> QED  BY <3>6, <5>2, <5>3, ParsedOwn
      <4> QED  BY <4>1, <4>2
    <3> QED  BY <3>5, <3>6 DEF OwnAnswer
  <2>8. CASE ~(l[1][1] \in {"ok", "err"} /\ Pending(r)) /\ l[1][1] = "head" /\ Pending(r)
    <3>1. r \in Req
      BY <2>5, <2>8 DEF Piece
    <3>2. lines' = [lines EXCEPT ![r] = Append(lines[r], Tail(l))] /\ UNCHANGED result
      BY <2>6, <2>8 DEF OnLine
    <3>3. Coming("head", r)
      BY <2>5, <2>8 DEF Coming, Has
    <3>4. /\ Tail(l) \in Seq(Piece) /\ Len(Tail(l)) = Len(l) - 1
          /\ \A i \in 1 .. Len(Tail(l)) : Tail(l)[i] = l[i + 1]
      BY <1>3, HeadTail
    <3>5. ASSUME NEW o \in 1 .. Len(t), t[o][1] = "ok", t[o][2] = r,
                 NEW m \in 1 .. Len(Tail(l))
          PROVE  Own(Tail(l)[m], r)
      <4> DEFINE p == Len(l) + o
      <4>1. m + 1 \in 1 .. Len(l) /\ m + 1 \in 1 .. Len(Answers) /\ p \in 1 .. Len(Answers)
            /\ 1 < m + 1 /\ m + 1 < p
        BY <1>3, <1>5, <3>4
      <4>2. Answers[p] = t[o]
        BY <1>5
      <4>3. Answers[m + 1] = Tail(l)[m]
        BY <1>5, <3>4, <4>1
      <4>4. Answers[1][1] = "head" /\ Answers[1][2] = r
        BY <2>5, <2>8
      <4> HIDE DEF p, r
      <4>5. Answers[p][1] = "ok" /\ Answers[p][2] = r
        BY <3>5, <4>2
      <4>6. Own(Answers[m + 1], Answers[p][2])
        BY <2>5, <4>1, <4>4, <4>5 DEF AnswerInv, InBetween, OwnBetween
      <4> QED  BY <4>3, <4>5, <4>6
    <3> HIDE DEF r
    <3>6. ASSUME NEW q \in Req PROVE Clean(q)' /\ Filed(q)'
      <4>0. Clean(q) /\ Filed(q) /\ (ToCome(q)' <=> ToCome(q))
        BY <1>1, <1>s, StreamSame DEF AnswerInv
      <4>1. CASE q # r
        <5>1. lines'[q] = lines[q]
          BY <3>2, <4>1 DEF TypeOK
        <5>2. OwnLines(q)' <=> OwnLines(q)
          BY <5>1 DEF OwnLines
        <5> QED  BY <2>4, <4>0, <5>1, <5>2 DEF Clean, Filed
      <4>2. CASE q = r
        <5>1. ~ToCome(q)
          BY <3>3, <4>0, <4>2 DEF Clean
        <5>2. lines'[q] = Append(lines[q], Tail(l)) /\ lines[q] \in Seq(Seq(Piece))
          BY <3>2, <4>2 DEF TypeOK
        <5>3. ASSUME Coming("ok", q)' PROVE OwnLines(q)'
          <6>1. PICK o \in 1 .. Len(t) : t[o][1] = "ok" /\ t[o][2] = q
            BY <2>1, <5>3 DEF Coming, Has
          <6>2. OwnLines(q)
            BY <2>4, <4>0, <5>3 DEF Filed
          <6>3. /\ Len(lines'[q]) = Len(lines[q]) + 1 /\ Len(lines[q]) \in Nat
                /\ lines'[q][Len(lines[q]) + 1] = Tail(l)
                /\ \A k \in 1 .. Len(lines[q]) : lines'[q][k] = lines[q][k]
            BY <3>4, <5>2, AppendFacts
          <6>4. ASSUME NEW k \in 1 .. Len(lines'[q]), NEW m \in 1 .. Len(lines'[q][k])
                PROVE  Own(lines'[q][k][m], q)
            <7>1. CASE k \in 1 .. Len(lines[q])
              BY <6>2, <6>3, <6>4, <7>1 DEF OwnLines
            <7>2. CASE k = Len(lines[q]) + 1
              BY <3>5, <4>2, <6>1, <6>3, <6>4, <7>2
            <7> QED  BY <6>3, <6>4, <7>1, <7>2
          <6> QED  BY <6>4 DEF OwnLines
        <5> QED  BY <4>0, <5>1, <5>3 DEF Clean, Filed
      <4> QED  BY <4>1, <4>2
    <3>7. OnceSent'
      BY <1>1, <1>s, StreamSame DEF AnswerInv
    <3> QED  BY <2>4, <3>2, <3>6, <3>7 DEF AnswerInv, OwnAnswer
  <2>9. CASE ~(l[1][1] \in {"ok", "err"} /\ Pending(r)) /\ ~(l[1][1] = "head" /\ Pending(r))
    <3>1. UNCHANGED <<result, lines>>
      BY <2>6, <2>9 DEF OnLine
    <3> QED  BY <1>1, <1>s, <2>4, <3>1, StreamSame, NothingNew DEF AnswerInv, OwnAnswer
  <2> QED  BY <2>7, <2>8, <2>9
<1> QED  BY <1>6, <1>7

LEMMA AnswersNext ==
  ASSUME TypeOK, AnswerInv, OwnAnswer, [Next]_vars
  PROVE  AnswerInv' /\ OwnAnswer'
<1>1. ASSUME UNCHANGED <<written, line, to_mcu, rx_buf, from_mcu>>,
             \A r \in Req : lines'[r] = lines[r] \/ lines'[r] = <<>>,
             \A r \in Req : result'[r] = result[r] \/ result'[r] = Failed
      PROVE  AnswerInv' /\ OwnAnswer'
  <2>1. Stream' = Stream
    BY <1>1 DEF Stream
  <2>2. AnswerInv'
    BY <1>1, <2>1, StreamSame, QueuesStay, NothingNew DEF AnswerInv
  <2> QED  BY <1>1, <2>2 DEF OwnAnswer, Failed
<1>2. CASE UNCHANGED vars
  BY <1>1, <1>2 DEF vars
<1>3. ASSUME NEW r \in Req, \/ Begin(r) \/ WriteFails(r) \/ WriteStalls(r) \/ Timeout(r)
      PROVE  AnswerInv' /\ OwnAnswer'
  BY <1>1, <1>3 DEF Begin, WriteFails, WriteStalls, Timeout, Fail, TypeOK
<1>4. ASSUME NEW r \in Req, WriteChunk(r) PROVE AnswerInv' /\ OwnAnswer'
  <2>1. UNCHANGED <<rx_buf, from_mcu, lines, result>>
    BY <1>4 DEF WriteChunk
  <2> QED  BY <1>4, <2>1, WriteOnce, QueuesStay, NothingNew DEF AnswerInv, OwnAnswer
<1>5. CASE McuTakes
  <2>1. UNCHANGED result
    BY <1>5 DEF McuTakes
  <2> QED  BY <1>5, <2>1, TakesAnswers DEF OwnAnswer
<1>6. CASE PieceLost
  <2>1. UNCHANGED result
    BY <1>6 DEF PieceLost
  <2> QED  BY <1>6, <2>1, LostAnswers DEF OwnAnswer
<1> QED  BY <1>2, <1>3, <1>4, <1>5, <1>6, NotifiedAnswers, DownAnswers DEF Next

\* The data a request returns were answered to a line that begins with its own tag: for
\* any number of requests under way, whatever pieces are lost, whichever requests have
\* been given up and however late their answers come.
THEOREM AnswersAreOwn == Spec => []OwnAnswer
<1>1. Init => AnswerInv /\ OwnAnswer
  <2> SUFFICES ASSUME Init PROVE AnswerInv /\ OwnAnswer
    OBVIOUS
  <2>1. Stream = <<>> \o <<>> /\ Answers = <<>> \o <<>>
    BY DEF Init, Stream, Answers
  <2>2. Len(Stream) = 0 /\ Len(Answers) = 0
    BY <2>1
  <2>3. \A r \in Req : lines[r] = <<>> /\ result[r] = None
    BY DEF Init
  <2>4. OnceSent /\ InBetween /\ \A r \in Req : Clean(r) /\ Filed(r)
    BY <2>2, <2>3 DEF OnceSent, InBetween, OwnBetween, Clean, Filed, Coming, Has
  <2> QED  BY <2>3, <2>4 DEF AnswerInv, OwnAnswer, None
<1>2. TypeOK /\ AnswerInv /\ OwnAnswer /\ [Next]_vars => (AnswerInv /\ OwnAnswer)'
  BY AnswersNext
<1> QED  BY <1>1, <1>2, TypeCorrect, PTL DEF Spec
=============================================================================

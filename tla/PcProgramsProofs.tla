-------------------------- MODULE PcProgramsProofs --------------------------
(***************************************************************************)
(* Proofs about the parts of the PC programs that MCPcPrograms runs side   *)
(* by side, for any bounds.  Each part is proved about by itself, under    *)
(* the names of its instance, and the last section says that a behaviour   *)
(* of the composition is a behaviour of each part.                         *)
(***************************************************************************)
EXTENDS MCPcPrograms, PcEditorProofs, SequenceTheorems, FiniteSetTheorems, TLAPS

\* What the two ways to change a sequence do to it.
LEMMA AppendFacts ==
    ASSUME NEW S, NEW s \in Seq(S), NEW e \in S
    PROVE  /\ Append(s, e) \in Seq(S) /\ Len(Append(s, e)) = Len(s) + 1 /\ Len(s) \in Nat
           /\ Append(s, e)[Len(s) + 1] = e
           /\ \A i \in 1 .. Len(s) : Append(s, e)[i] = s[i]
OBVIOUS

LEMMA ShortFacts ==
    ASSUME NEW S
    PROVE  /\ <<>> \in Seq(S) /\ Len(<<>>) = 0
           /\ \A a \in S : <<a>> \in Seq(S) /\ Len(<<a>>) = 1 /\ <<a>>[1] = a
           /\ \A a, b \in S : /\ <<a, b>> \in Seq(S) /\ Len(<<a, b>>) = 2
                              /\ <<a, b>>[1] = a /\ <<a, b>>[2] = b
OBVIOUS

LEMMA ElementFacts ==
    ASSUME NEW S, NEW s \in Seq(S)
    PROVE  \A i \in 1 .. Len(s) : s[i] \in S
OBVIOUS

LEMMA TailFacts ==
    ASSUME NEW S, NEW s \in Seq(S), s # <<>>
    PROVE  /\ Head(s) \in S /\ Head(s) = s[1] /\ Tail(s) \in Seq(S)
           /\ Len(s) \in Nat /\ Len(s) > 0 /\ Len(Tail(s)) = Len(s) - 1
           /\ \A i \in 1 .. Len(Tail(s)) : Tail(s)[i] = s[i + 1]
           /\ 1 \in 1 .. Len(s) /\ \A i \in 1 .. Len(Tail(s)) : i + 1 \in 1 .. Len(s)
OBVIOUS
LEMMA ConcatFacts ==
    ASSUME NEW S, NEW s \in Seq(S), NEW t \in Seq(S)
    PROVE  /\ s \o t \in Seq(S) /\ Len(s \o t) = Len(s) + Len(t)
           /\ \A i \in 1 .. Len(s) : (s \o t)[i] = s[i]
           /\ \A i \in Len(s) + 1 .. Len(s) + Len(t) : (s \o t)[i] = t[i - Len(s)]
OBVIOUS

\* A finite set of numbers can be written in increasing order: each number's place is how
\* many numbers of the set are not above it.
LEMMA OrderFacts ==
    ASSUME NEW S \in SUBSET Nat, IsFiniteSet(S)
    PROVE  /\ Cardinality(S) \in Nat
           /\ \E q \in [1 .. Cardinality(S) -> S] :
                \A i, j \in 1 .. Cardinality(S) : i < j => q[i] < q[j]
<1> DEFINE N     == Cardinality(S)
           Up(x) == {y \in S : y <= x}
           place == [x \in S |-> Cardinality(Up(x))]
<1>1. N \in Nat
  BY FS_CardinalityType
<1>2. \A x \in S : IsFiniteSet(Up(x)) /\ Cardinality(Up(x)) <= N /\ x \in Up(x)
  BY FS_Subset
<1>3. \A x \in S : Cardinality(Up(x)) \in 1 .. N
  <2>1. TAKE x \in S
  <2>2. Up(x) # {} /\ IsFiniteSet(Up(x)) /\ Cardinality(Up(x)) <= N
    BY <1>2
  <2>3. Cardinality(Up(x)) \in Nat /\ Cardinality(Up(x)) # 0
    BY <2>2, FS_CardinalityType, FS_EmptySet
  <2> QED  BY <1>1, <2>2, <2>3
<1>4. ASSUME NEW x \in S, NEW y \in S, x < y
      PROVE  Cardinality(Up(x)) < Cardinality(Up(y))
  <2>1. x \in Nat /\ y \in Nat /\ S \subseteq Nat
    OBVIOUS
  <2>2. Up(x) \subseteq Up(y)
    <3>1. \A z \in S : z \in Nat /\ (z <= x => z <= y)
      BY <1>4, <2>1
    <3> QED  BY <3>1
  <2>3. y \in Up(y) /\ y \notin Up(x)
    BY <1>4, <2>1
  <2>4. Up(x) # Up(y)
    BY <2>3
  <2>5. Cardinality(Up(x)) <= Cardinality(Up(y)) /\ Cardinality(Up(x)) # Cardinality(Up(y))
    BY <1>2, <2>2, <2>4, FS_Subset
  <2> QED  BY <1>3, <2>5
<1>5. /\ place \in [S -> 1 .. N]
      /\ \A x, y \in S : x < y => place[x] < place[y]
  BY <1>3, <1>4
<1> HIDE DEF place
<1>6. \A x, y \in S : place[x] = place[y] => x = y
  <2>1. SUFFICES ASSUME NEW x \in S, NEW y \in S, place[x] = place[y] PROVE x = y
    OBVIOUS
  <2>2. place[x] \in 1 .. N /\ place[y] \in 1 .. N
    BY <1>5
  <2>3. ~(place[x] < place[y]) /\ ~(place[y] < place[x])
    BY <1>1, <2>1, <2>2
  <2>4. ~(x < y) /\ ~(y < x) /\ x \in Nat /\ y \in Nat
    BY <1>5, <2>3
  <2> QED  BY <2>4
<1>7. place \in Injection(S, 1 .. N)
  BY <1>5, <1>6 DEF Injection, IsInjective
<1>8. place \in Surjection(S, 1 .. N)
  <2>1. IsFiniteSet(1 .. N) /\ Cardinality(1 .. N) = N
    BY <1>1, FS_Interval
  <2> QED  BY <1>7, <2>1, FS_Injection
<1>9. \A k \in 1 .. N : \E x \in S : place[x] = k
  BY <1>8 DEF Surjection
<1> DEFINE q == [k \in 1 .. N |-> CHOOSE x \in S : place[x] = k]
<1>10. \A k \in 1 .. N : q[k] \in S /\ place[q[k]] = k
  BY <1>9
<1>11. q \in [1 .. N -> S]
  BY <1>10
<1> HIDE DEF q
<1>12. ASSUME NEW i \in 1 .. N, NEW j \in 1 .. N, i < j PROVE q[i] < q[j]
  <2>1. q[i] \in S /\ q[j] \in S /\ place[q[i]] < place[q[j]]
    BY <1>10, <1>12
  <2>2. place[q[i]] \in Nat /\ place[q[j]] \in Nat
    BY <1>10
  <2>3. ~(place[q[j]] < place[q[i]]) /\ place[q[i]] # place[q[j]]
    BY <2>1, <2>2
  <2>4. ~(q[j] < q[i]) /\ q[i] # q[j]
    BY <1>5, <2>1, <2>3
  <2>5. q[i] \in Nat /\ q[j] \in Nat
    BY <2>1
  <2> QED  BY <2>4, <2>5
<1> QED  BY <1>1, <1>11, <1>12
-----------------------------------------------------------------------------
(* The serial port. *)

PortLine == [id : Port!Ids, what : {"DATA", "OK", "ERR"}]
PortReq  == [id : Port!Ids, verb : {"SET", "INFO?"}]

LEMMA PortShapes ==
    /\ Port!Free \in Port!Call
    /\ \A job \in Port!Jobs, verb \in {"SET", "INFO?"} : Port!Begins(job, verb) \in Port!Call
    /\ \A c \in Port!Call :
         /\ c.at \in {"free", "begin", "wait", "end"}
         /\ c = Port!Free <=> c.at = "free"
         /\ c.at \in {"begin", "wait", "end"} => c.job \in Port!Jobs /\ c.verb \in {"SET", "INFO?"}
         /\ c.at = "wait" => c.id \in Port!Ids /\ c.data \in BOOLEAN
         /\ c.at = "end"  => c.id \in Port!Ids \cup {0} /\ c.data \in BOOLEAN /\ c.ok \in BOOLEAN
<1>1. Port!Free \in Port!Call
  BY DEF Port!Free, Port!Call
<1>2. ASSUME NEW job \in Port!Jobs, NEW verb \in {"SET", "INFO?"}
      PROVE  Port!Begins(job, verb) \in Port!Call
  BY <1>2 DEF Port!Begins, Port!Call
<1>3. ASSUME NEW c \in Port!Call
      PROVE  /\ c.at \in {"free", "begin", "wait", "end"}
             /\ c = Port!Free <=> c.at = "free"
             /\ c.at \in {"begin", "wait", "end"} => c.job \in Port!Jobs /\ c.verb \in {"SET", "INFO?"}
             /\ c.at = "wait" => c.id \in Port!Ids /\ c.data \in BOOLEAN
             /\ c.at = "end"  => c.id \in Port!Ids \cup {0} /\ c.data \in BOOLEAN /\ c.ok \in BOOLEAN
  <2>1. CASE c = Port!Free
    BY <2>1 DEF Port!Free
  <2>2. CASE c \in [at : {"begin"}, job : Port!Jobs, verb : {"SET", "INFO?"}]
    BY <2>2 DEF Port!Free
  <2>3. CASE c \in [at : {"wait"}, job : Port!Jobs, verb : {"SET", "INFO?"}, id : Port!Ids,
                    data : BOOLEAN]
    BY <2>3 DEF Port!Free
  <2>4. CASE c \in [at : {"end"}, job : Port!Jobs, verb : {"SET", "INFO?"},
                    id : Port!Ids \cup {0}, data : BOOLEAN, ok : BOOLEAN]
    BY <2>4 DEF Port!Free
  <2> QED  BY <1>3, <2>1, <2>2, <2>3, <2>4 DEF Port!Call
<1> QED  BY <1>1, <1>2, <1>3

\* What a changed call, or a call that ends, leaves of the types.
LEMMA PortEnds ==
    ASSUME Port!TypeOK, NEW t \in Port!Threads, NEW ok \in BOOLEAN, call[t].at = "wait",
           Port!End(t, ok)
    PROVE  /\ call' \in [Port!Threads -> Port!Call]
           /\ \A u \in Port!Threads : u # t => call'[u] = call[u]
           /\ call'[t].at = "end" /\ call'[t].id = call[t].id /\ call'[t].ok = ok
           /\ call'[t].verb = call[t].verb /\ call'[t].data = call[t].data
           /\ call'[t].job = call[t].job
<1> DEFINE c == [at |-> "end", job |-> call[t].job, verb |-> call[t].verb,
                 id |-> call[t].id, data |-> call[t].data, ok |-> ok]
<1>1. call[t] \in Port!Call /\ call \in [Port!Threads -> Port!Call]
  BY DEF Port!TypeOK
<1>2. c \in Port!Call
  BY <1>1, PortShapes DEF Port!Call
<1>3. call' = [call EXCEPT ![t] = c]
  BY DEF Port!End
<1>4. c.at = "end" /\ c.id = call[t].id /\ c.ok = ok /\ c.verb = call[t].verb
      /\ c.data = call[t].data /\ c.job = call[t].job
  OBVIOUS
<1> HIDE DEF c
<1> QED  BY <1>1, <1>2, <1>3, <1>4

LEMMA PortTypeStep ==
    ASSUME Port!TypeOK, [Port!Next]_(Port!vars)
    PROVE  Port!TypeOK'
<1> USE PortAssumption DEF Port!TypeOK, PortLine, PortReq
<1>1. ASSUME NEW w \in Workers, NEW job \in Port!Jobs, Port!Start(w, job) PROVE Port!TypeOK'
  <2>1. Port!Begins(job, Port!FirstVerb(job)) \in Port!Call
    BY PortShapes DEF Port!FirstVerb
  <2> QED  BY <1>1, <2>1 DEF Port!Start, Port!transport, Port!history
<1>2. ASSUME NEW w \in Workers, Port!ReadOn(w) PROVE Port!TypeOK'
  <2>1. Port!Begins("save", "INFO?") \in Port!Call
    BY PortShapes DEF Port!Jobs
  <2> QED  BY <1>2, <2>1 DEF Port!ReadOn, Port!transport, Port!history
<1>3. ASSUME NEW w \in Workers, Port!ReadDone(w) \/ Port!SetFailed(w) PROVE Port!TypeOK'
  BY <1>3, PortShapes DEF Port!ReadDone, Port!SetFailed, Port!transport, Port!history, Port!Shown
<1>4. ASSUME NEW w \in Workers, Port!TagDone(w) PROVE Port!TypeOK'
  <2>1. Port!Begins("tag", "INFO?") \in Port!Call
    BY PortShapes DEF Port!Jobs
  <2>2. Port!Waiting \subseteq Port!Ids
    BY PortShapes DEF Port!Waiting
  <2> QED  BY <1>4, <2>1, <2>2, PortShapes DEF Port!TagDone, Port!transport
<1>5. ASSUME NEW t \in Port!Threads, Port!Request(t) PROVE Port!TypeOK'
  <2> DEFINE id == req_id + 1
             c  == [at |-> "wait", job |-> call[t].job, verb |-> call[t].verb, id |-> id,
                    data |-> FALSE]
             r  == [id |-> id, verb |-> call[t].verb]
  <2>1. id \in Port!Ids /\ id \in 0..MaxRequests
    BY <1>5 DEF Port!Request, Port!Ids
  <2>2. c \in Port!Call /\ r \in PortReq
    BY <1>5, <2>1, PortShapes DEF Port!Request, Port!Call
  <2>3. /\ req_id' = id /\ tagged' = tagged \cup {id}
        /\ mailbox' = [mailbox EXCEPT ![id] = <<>>]
        /\ s_wire' = Append(s_wire, r)
        /\ call' = [call EXCEPT ![t] = c]
        /\ blind' \in {blind, blind \cup {id}}
        /\ UNCHANGED <<ser, info, s_lines, s_executed, lost>>
    BY <1>5 DEF Port!Request
  <2>4. s_wire' \in Seq(PortReq)
    BY <2>2, <2>3
  <2>5. mailbox' \in [Port!Ids -> Seq(PortLine)]
    BY <2>3, ShortFacts
  <2>6. call' \in [Port!Threads -> Port!Call]
    BY <2>2, <2>3
  <2> QED  BY <2>1, <2>3, <2>4, <2>5, <2>6
<1>6. ASSUME NEW t \in Port!Threads, Port!NotConnected(t) PROVE Port!TypeOK'
  <2> DEFINE c == [at |-> "end", job |-> call[t].job, verb |-> call[t].verb, id |-> 0,
                   data |-> FALSE, ok |-> FALSE]
  <2>1. c \in Port!Call
    BY <1>6, PortShapes DEF Port!NotConnected, Port!Call
  <2> QED  BY <1>6, <2>1 DEF Port!NotConnected, Port!transport, Port!history
<1>7. ASSUME NEW t \in Port!Threads, Port!Take(t) PROVE Port!TypeOK'
  <2> DEFINE id == call[t].id
  <2>1. id \in Port!Ids /\ mailbox[id] \in Seq(PortLine) /\ mailbox[id] # <<>>
    BY <1>7, PortShapes DEF Port!Take
  <2>2. Tail(mailbox[id]) \in Seq(PortLine)
    BY <2>1, TailFacts
  <2>3. mailbox' = [mailbox EXCEPT ![id] = Tail(mailbox[id])] /\ tagged' \subseteq tagged
        /\ UNCHANGED <<ser, req_id, info, s_wire, s_lines, s_executed, lost, blind>>
    BY <1>7 DEF Port!Take, Port!history
  <2>4. mailbox' \in [Port!Ids -> Seq(PortLine)]
    BY <2>2, <2>3
  <2>5. call' \in [Port!Threads -> Port!Call]
    <3>1. CASE call' = [call EXCEPT ![t].data = TRUE]
      <4>1. call[t] \in [at : {"wait"}, job : Port!Jobs, verb : {"SET", "INFO?"},
                         id : Port!Ids, data : BOOLEAN]
        BY <1>7, PortShapes DEF Port!Take, Port!Call
      <4>2. [call[t] EXCEPT !.data = TRUE] \in Port!Call
        BY <4>1 DEF Port!Call
      <4> QED  BY <3>1, <4>2
    <3>2. CASE Port!End(t, Head(mailbox[id]).what = "OK")
      BY <1>7, <3>2, PortEnds DEF Port!Take
    <3> QED  BY <1>7, <3>1, <3>2 DEF Port!Take
  <2> QED  BY <2>3, <2>4, <2>5
<1>8. ASSUME NEW t \in Port!Threads, Port!TimeOut(t) PROVE Port!TypeOK'
  <2>1. call' \in [Port!Threads -> Port!Call]
    BY <1>8, PortEnds DEF Port!TimeOut
  <2> QED  BY <1>8, <2>1 DEF Port!TimeOut, Port!history
<1>9. CASE Port!MainDone
  <2>1. call' \in [Port!Threads -> Port!Call]
    BY <1>9, PortShapes DEF Port!MainDone
  <2> QED  BY <1>9, <2>1 DEF Port!MainDone, Port!Shown, Port!transport, Port!history
<1>10. CASE Port!Deliver
  <2>1. Head(s_lines) \in PortLine /\ Tail(s_lines) \in Seq(PortLine)
    BY <1>10, TailFacts DEF Port!Deliver
  <2>2. mailbox' \in [Port!Ids -> Seq(PortLine)]
    <3> DEFINE id == Head(s_lines).id
    <3>1. id \in Port!Ids /\ mailbox[id] \in Seq(PortLine)
      BY <2>1
    <3>2. Append(mailbox[id], Head(s_lines)) \in Seq(PortLine)
      BY <2>1, <3>1, AppendFacts
    <3>3. mailbox' = mailbox \/ mailbox' = [mailbox EXCEPT ![id] = Append(mailbox[id], Head(s_lines))]
      BY <1>10 DEF Port!Deliver
    <3> HIDE DEF id
    <3> QED  BY <3>2, <3>3
  <2> QED  BY <1>10, <2>1, <2>2 DEF Port!Deliver, Port!history
<1>11. CASE Port!Disconnect
  <2>1. Port!Waiting \subseteq Port!Ids
    BY PortShapes DEF Port!Waiting
  <2> QED  BY <1>11, <2>1 DEF Port!Disconnect
<1>12. CASE Port!Handle
  <2> DEFINE r == Head(s_wire)
  <2>1. r \in PortReq /\ Tail(s_wire) \in Seq(PortReq)
    BY <1>12, TailFacts DEF Port!Handle
  <2>2. \A what \in {"DATA", "OK", "ERR"} : Port!Line(r.id, what) \in PortLine
    BY <2>1 DEF Port!Line
  <2>3. Port!Answer(r) \in Seq(PortLine)
    <3>1. CASE r.verb = "INFO?"
      BY <2>2, <3>1, ShortFacts DEF Port!Answer
    <3>2. CASE r.verb # "INFO?"
      BY <2>2, <3>2, ShortFacts DEF Port!Answer
    <3> QED  BY <3>1, <3>2
  <2>4. s_lines' \in Seq(PortLine)
    <3>1. s_lines \o Port!Answer(r) \in Seq(PortLine)
      BY <2>3
    <3>2. \A l \in PortLine : Append(s_lines, l) \in Seq(PortLine)
      BY AppendFacts
    <3>3. \A i \in 2..Len(Port!Answer(r)) : Port!Answer(r)[i] \in PortLine
      <4>1. \A i \in 2..Len(Port!Answer(r)) : i \in 1..Len(Port!Answer(r))
        BY <2>3
      <4> QED  BY <2>3, <4>1, ElementFacts
    <3>4. \/ s_lines' = s_lines \o Port!Answer(r)
          \/ s_lines' = Append(s_lines, Port!Line(r.id, "ERR"))
          \/ s_lines' = s_lines
          \/ \E i \in 2..Len(Port!Answer(r)) : s_lines' = Append(s_lines, Port!Answer(r)[i])
      BY <1>12 DEF Port!Handle
    <3> QED  BY ZenonT(40), <2>2, <3>1, <3>2, <3>3, <3>4
  <2>5. s_executed' \subseteq Port!Ids /\ lost' \subseteq Port!Ids
    BY <1>12, <2>1 DEF Port!Handle
  <2> QED  BY <1>12, <2>1, <2>4, <2>5 DEF Port!Handle, Port!transport
<1>13. CASE UNCHANGED Port!vars
  BY <1>13 DEF Port!vars, Port!transport, Port!history
<1> QED  BY <1>1, <1>2, <1>3, <1>4, <1>5, <1>6, <1>7, <1>8, <1>9, <1>10, <1>11, <1>12, <1>13
         DEF Port!Next

\* The requests that are waited for: each has an id of its own, with a mailbox.
PortAlone ==
    \A t \in Port!Threads : call[t].at = "wait" =>
        /\ call[t].id \in tagged /\ call[t].id <= req_id
        /\ \A u \in Port!Threads : call[u].at = "wait" /\ call[u].id = call[t].id => u = t

\* Ids are given in order, and nothing is on its way under an id not given.
PortGiven ==
    /\ \A k \in 1 .. Len(s_wire)  : s_wire[k].id <= req_id
    /\ \A k \in 1 .. Len(s_lines) : s_lines[k].id <= req_id
    /\ \A id \in s_executed \cup tagged : id <= req_id
    /\ \A t \in Port!Threads : call[t].at = "end" => call[t].id <= req_id

\* A request on its way is there once, has not been carried out and has no answer.
PortOnce ==
    \A k \in 1 .. Len(s_wire) :
        /\ s_wire[k].id \notin s_executed
        /\ mailbox[s_wire[k].id] = <<>>
        /\ \A j \in 1 .. Len(s_lines) : s_lines[j].id # s_wire[k].id
        /\ \A j \in 1 .. Len(s_wire) : s_wire[j].id = s_wire[k].id => j = k

\* OK comes from the beacon's having carried out the request, ERR from its not having.
PortTrue ==
    /\ \A k \in 1 .. Len(s_lines) :
          /\ s_lines[k].what = "OK"  => s_lines[k].id \in s_executed
          /\ s_lines[k].what = "ERR" => s_lines[k].id \notin s_executed
    /\ \A id \in Port!Ids : \A k \in 1 .. Len(mailbox[id]) :
          /\ mailbox[id][k].what = "OK"  => id \in s_executed
          /\ mailbox[id][k].what = "ERR" => id \notin s_executed

\* The OK of a reading follows its data, unless a line was lost.
BoxData(id, n) == \E j \in 1 .. Len(mailbox[id]) : j < n /\ mailbox[id][j].what = "DATA"
DataFirst(id) ==
    /\ \A k \in 1 .. Len(mailbox[id]) : mailbox[id][k].what = "OK" => BoxData(id, k)
    /\ \A k \in 1 .. Len(s_lines) :
          s_lines[k].id = id /\ s_lines[k].what = "OK" =>
              \/ \E j \in 1 .. Len(mailbox[id]) : mailbox[id][j].what = "DATA"
              \/ \E j \in 1 .. Len(s_lines) : j < k /\ s_lines[j] = Port!Line(id, "DATA")
PortData ==
    \A t \in Port!Threads, id \in Port!Ids :
        call[t].at = "wait" /\ call[t].verb = "INFO?" /\ call[t].id = id =>
            /\ \A k \in 1 .. Len(s_wire) : s_wire[k].id = id => s_wire[k].verb = "INFO?"
            /\ call[t].data \/ id \in lost \/ DataFirst(id)

\* Who waits while the main thread is busy is known to.
PortSeen == \A t \in Port!Threads : Port!Blocked /\ call[t].at = "wait" => call[t].id \in blind

\* What has ended, ended as it should, and no late execution changes that.
PortEnded ==
    \A t \in Port!Threads : call[t].at = "end" =>
        /\ call[t].ok => call[t].id \in s_executed
        /\ call[t].ok /\ call[t].verb = "INFO?" => call[t].data \/ call[t].id \in lost
        /\ ~call[t].ok => \/ call[t].id \in lost \cup blind
                          \/ /\ call[t].id \notin s_executed
                             /\ \A k \in 1 .. Len(s_wire) : s_wire[k].id # call[t].id

\* While the main thread waits nothing is delivered, and it ends with nothing.
PortMain ==
    /\ call[Main].at = "wait" => mailbox[call[Main].id] = <<>> /\ ~call[Main].data
    /\ call[Main].at = "end"  => ~call[Main].ok /\ ~call[Main].data

PortInv == /\ PortAlone /\ PortGiven /\ PortOnce /\ PortTrue
           /\ PortData /\ PortSeen /\ PortEnded /\ PortMain

\* The ids on their way are ids.
LEMMA PortIdsTyped ==
    ASSUME Port!TypeOK
    PROVE  /\ \A k \in 1 .. Len(s_wire) : s_wire[k] \in PortReq /\ s_wire[k].id \in Port!Ids
           /\ \A k \in 1 .. Len(s_lines) : s_lines[k] \in PortLine /\ s_lines[k].id \in Port!Ids
           /\ \A id \in Port!Ids : /\ mailbox[id] \in Seq(PortLine) /\ Len(mailbox[id]) \in Nat
                                  /\ \A k \in 1 .. Len(mailbox[id]) : mailbox[id][k] \in PortLine
           /\ \A t \in Port!Threads : call[t] \in Port!Call
           /\ Len(s_wire) \in Nat /\ Len(s_lines) \in Nat /\ req_id \in Nat
           /\ Main \in Port!Threads
<1>1. s_wire \in Seq(PortReq) /\ s_lines \in Seq(PortLine)
  BY DEF Port!TypeOK, PortReq, PortLine
<1>2. \A id \in Port!Ids : mailbox[id] \in Seq(PortLine)
  BY DEF Port!TypeOK, PortLine
<1>3. \A id \in Port!Ids : Len(mailbox[id]) \in Nat
  BY <1>2
<1>4. \A k \in 1 .. Len(s_wire) : s_wire[k] \in PortReq
  BY <1>1, ElementFacts
<1>5. \A k \in 1 .. Len(s_lines) : s_lines[k] \in PortLine
  BY <1>1, ElementFacts
<1>6. \A id \in Port!Ids : \A k \in 1 .. Len(mailbox[id]) : mailbox[id][k] \in PortLine
  BY <1>2, ElementFacts
<1>7. Len(s_wire) \in Nat /\ Len(s_lines) \in Nat
  BY <1>1
<1>8. req_id \in Nat
  BY PortAssumption DEF Port!TypeOK
<1> QED  BY <1>2, <1>3, <1>4, <1>5, <1>6, <1>7, <1>8 DEF Port!TypeOK, PortReq, PortLine, Port!Threads

\* Calls that become free, begin, or end without a request.
LEMMA PortCallsMove ==
    ASSUME Port!TypeOK, PortInv, PortSeen', blind \subseteq blind',
           UNCHANGED <<req_id, tagged, mailbox, s_wire, s_lines, s_executed, lost>>,
           \A t \in Port!Threads :
              \/ call'[t] = call[t]
              \/ call'[t].at \in {"free", "begin"}
              \/ call'[t].at = "end" /\ ~call'[t].ok /\ ~call'[t].data /\ call'[t].id = 0
    PROVE  PortInv'
<1>1. \A t \in Port!Threads : call'[t].at = "wait" => call'[t] = call[t]
  OBVIOUS
<1>2. PortAlone'
  BY <1>1 DEF PortInv, PortAlone
<1>3. (PortGiven /\ PortOnce /\ PortTrue)'
  <2>1. 0 <= req_id
    BY PortIdsTyped
  <2>2. PortGiven'
    BY <2>1 DEF PortInv, PortGiven
  <2> QED  BY <2>2 DEF PortInv, PortOnce, PortTrue
<1>4. PortData'
  BY <1>1 DEF PortInv, PortData, DataFirst, BoxData
<1>5. PortEnded'
  <2> SUFFICES ASSUME NEW t \in Port!Threads, call'[t].at = "end"
               PROVE  /\ call'[t].ok => call'[t].id \in s_executed
                      /\ call'[t].ok /\ call'[t].verb = "INFO?" => call'[t].data \/ call'[t].id \in lost
                      /\ ~call'[t].ok => \/ call'[t].id \in lost \cup blind'
                                         \/ /\ call'[t].id \notin s_executed
                                            /\ \A k \in 1 .. Len(s_wire) : s_wire[k].id # call'[t].id
    BY DEF PortEnded
  <2>1. CASE call'[t] = call[t]
    BY <2>1 DEF PortInv, PortEnded
  <2>2. CASE ~call'[t].ok /\ call'[t].id = 0
    <3>1. 0 \notin Port!Ids
      BY PortAssumption DEF Port!Ids
    <3> QED  BY <2>2, <3>1, PortIdsTyped DEF Port!TypeOK
  <2> QED  BY <2>1, <2>2
<1>6. PortMain'
  BY PortIdsTyped DEF PortInv, PortMain
<1> QED  BY <1>2, <1>3, <1>4, <1>5, <1>6 DEF PortInv

\* A request opens an empty mailbox under an id that nobody had.
LEMMA PortRequest ==
    ASSUME Port!TypeOK, PortInv, NEW t \in Port!Threads, Port!Request(t)
    PROVE  PortInv'
<1>0. PICK id : id = req_id + 1
  OBVIOUS
<1>a. PICK r : r = [id |-> id, verb |-> call[t].verb]
  OBVIOUS
<1>1. /\ req_id' = id /\ tagged' = tagged \cup {id} /\ mailbox' = [mailbox EXCEPT ![id] = <<>>]
      /\ s_wire' = Append(s_wire, r)
      /\ blind' = IF Port!Blocked THEN blind \cup {id} ELSE blind
      /\ UNCHANGED <<s_lines, s_executed, lost>>
      /\ call[t].at = "begin" /\ req_id < MaxRequests
  BY <1>0, <1>a DEF Port!Request
<1>2. /\ id \in Port!Ids /\ id \in Nat /\ id > req_id /\ req_id \in Nat /\ r \in PortReq
      /\ \A i \in Port!Ids : i \in Nat /\ (i <= req_id => i # id /\ i <= id)
  BY <1>0, <1>a, <1>1, PortAssumption, PortIdsTyped, PortShapes DEF PortReq, Port!Ids
<1>3. /\ call'[t].at = "wait" /\ call'[t].id = id /\ call'[t].verb = call[t].verb /\ ~call'[t].data
      /\ \A u \in Port!Threads : u # t => call'[u] = call[u]
  BY <1>0 DEF Port!Request, Port!TypeOK
<1>4. /\ mailbox'[id] = <<>> /\ Len(mailbox'[id]) = 0
      /\ \A i \in Port!Ids : i # id => mailbox'[i] = mailbox[i]
  BY <1>1, <1>2, ShortFacts DEF Port!TypeOK
<1>5. /\ s_wire' \in Seq(PortReq) /\ Len(s_wire') = Len(s_wire) + 1 /\ Len(s_wire) \in Nat
      /\ s_wire'[Len(s_wire) + 1] = r /\ r.id = id /\ r.verb = call[t].verb
      /\ \A k \in 1 .. Len(s_wire) : s_wire'[k] = s_wire[k]
  BY <1>a, <1>1, <1>2, AppendFacts DEF Port!TypeOK, PortReq
<1>6. \A k \in 1 .. Len(s_wire') : k \in 1 .. Len(s_wire) \/ k = Len(s_wire) + 1
  BY <1>5
<1>7. \A u \in Port!Threads : call[u].at = "wait" => call[u].id \in Port!Ids /\ call[u].id # id
  BY <1>2, PortIdsTyped, PortShapes DEF PortInv, PortAlone
<1>8. id \notin s_executed /\ \A k \in 1 .. Len(s_lines) : s_lines[k].id # id
  BY <1>2, PortIdsTyped DEF PortInv, PortGiven
<1>9. \A k \in 1 .. Len(s_wire) : s_wire[k].id # id /\ s_wire[k].id \in Port!Ids
  BY <1>2, PortIdsTyped DEF PortInv, PortGiven
<1>10. PortAlone'
  <2>1. id \in tagged' /\ id <= req_id'
    BY <1>1, <1>2
  <2>2. \A u \in Port!Threads : call[u].at = "wait" =>
            call[u].id \in tagged' /\ call[u].id <= req_id'
    BY <1>1, <1>2, <1>7 DEF PortInv, PortAlone
  <2> QED  BY <1>3, <1>7, <2>1, <2>2 DEF PortInv, PortAlone
<1>11. PortGiven'
  <2>1. \A i \in s_executed \cup tagged : i \in Port!Ids
    BY DEF Port!TypeOK
  <2>2. id <= id
    BY <1>2
  <2>3. \A u \in Port!Threads : call'[u].at = "end" => call'[u].id <= req_id'
    <3> SUFFICES ASSUME NEW u \in Port!Threads, call'[u].at = "end" PROVE call'[u].id <= req_id'
      OBVIOUS
    <3>1. call'[u] = call[u] /\ call[u].id \in Port!Ids \cup {0} /\ call[u].id <= req_id
      BY <1>3, PortIdsTyped, PortShapes DEF PortInv, PortGiven
    <3>2. call[u].id \in Nat
      BY <3>1, PortAssumption DEF Port!Ids
    <3>3. \A i \in Nat : i <= req_id => i <= id
      BY <1>0, <1>2
    <3> QED  BY <1>1, <3>1, <3>2, <3>3
  <2>4. /\ \A k \in 1 .. Len(s_wire')  : s_wire'[k].id <= req_id'
        /\ \A k \in 1 .. Len(s_lines) : s_lines[k].id <= req_id'
    BY <1>1, <1>2, <1>5, <1>6, <2>2, PortIdsTyped DEF PortInv, PortGiven
  <2>5. \A i \in s_executed \cup tagged \cup {id} : i <= req_id'
    BY <1>1, <1>2, <2>1, <2>2 DEF PortInv, PortGiven
  <2> QED  BY <1>1, <2>3, <2>4, <2>5 DEF PortGiven
<1>12. PortOnce'
  BY <1>1, <1>4, <1>5, <1>6, <1>8, <1>9 DEF PortInv, PortOnce
<1>13. PortTrue'
  BY <1>1, <1>4 DEF PortInv, PortTrue
<1>14. PortData'
  <2> SUFFICES ASSUME NEW u \in Port!Threads, NEW i \in Port!Ids,
                      call'[u].at = "wait", call'[u].verb = "INFO?", call'[u].id = i
               PROVE  /\ \A k \in 1 .. Len(s_wire') : s_wire'[k].id = i => s_wire'[k].verb = "INFO?"
                      /\ call'[u].data \/ i \in lost' \/ DataFirst(i)'
    BY DEF PortData
  <2>1. CASE u = t
    <3>1. i = id
      BY <1>3, <2>1
    <3>2. DataFirst(id)'
      BY <1>1, <1>4, <1>8 DEF DataFirst
    <3> QED  BY <1>3, <1>5, <1>6, <1>9, <2>1, <3>1, <3>2
  <2>2. CASE u # t
    <3>1. call'[u] = call[u] /\ i # id /\ mailbox'[i] = mailbox[i]
      BY <1>3, <1>4, <1>7, <2>2
    <3>2. DataFirst(i) => DataFirst(i)'
      BY <1>1, <3>1 DEF DataFirst, BoxData
    <3> QED  BY <1>1, <1>5, <1>6, <3>1, <3>2 DEF PortInv, PortData
  <2> QED  BY <2>1, <2>2
<1>15. PortSeen'
  <2>1. Port!Blocked' => Port!Blocked
    BY <1>1, <1>3, PortIdsTyped, PortShapes DEF Port!Blocked
  <2> QED  BY <1>1, <1>3, <2>1 DEF PortInv, PortSeen
<1>16. PortEnded'
  <2> SUFFICES ASSUME NEW u \in Port!Threads, call'[u].at = "end"
               PROVE  /\ u # t /\ call'[u] = call[u] /\ call[u].id # id /\ blind \subseteq blind'
                      /\ \A k \in 1 .. Len(s_wire') : k \in 1 .. Len(s_wire) \/ s_wire'[k].id = id
    BY <1>1, <1>5 DEF PortInv, PortEnded
  <2>1. u # t /\ call'[u] = call[u] /\ call[u].id \in Port!Ids \cup {0} /\ call[u].id <= req_id
    BY <1>3, PortIdsTyped, PortShapes DEF PortInv, PortGiven
  <2>2. call[u].id # id
    BY <1>0, <1>2, <2>1
  <2> QED  BY <1>1, <1>5, <1>6, <2>1, <2>2
<1>17. PortMain'
  BY <1>3, <1>4, <1>7, PortIdsTyped DEF PortInv, PortMain
<1> QED  BY <1>10, <1>11, <1>12, <1>13, <1>14, <1>15, <1>16, <1>17 DEF PortInv

\* Only a thread with a line in its mailbox takes one: not the main thread.
LEMMA PortTake ==
    ASSUME Port!TypeOK, PortInv, NEW t \in Port!Threads, Port!Take(t)
    PROVE  PortInv'
<1>0. PICK id : id = call[t].id
  OBVIOUS
<1>1. PICK line : line = Head(mailbox[id])
  OBVIOUS
<1>2. /\ call[t].at = "wait" /\ id \in Port!Ids /\ mailbox[id] # <<>> /\ mailbox[id] \in Seq(PortLine)
      /\ mailbox \in [Port!Ids -> Seq(PortLine)] /\ line \in PortLine /\ line = mailbox[id][1]
      /\ t # Main
  BY ZenonT(40), <1>0, <1>1, PortIdsTyped, PortShapes, TailFacts DEF Port!Take, PortInv, PortMain, Port!TypeOK, PortLine
<1>3. /\ Len(mailbox'[id]) \in Nat /\ Len(mailbox[id]) = Len(mailbox'[id]) + 1
      /\ \A k \in 1 .. Len(mailbox'[id]) :
            mailbox'[id][k] = mailbox[id][k + 1] /\ k + 1 \in 1 .. Len(mailbox[id])
      /\ 1 \in 1 .. Len(mailbox[id])
      /\ \A i \in Port!Ids : i # id => mailbox'[i] = mailbox[i]
  <2>1. mailbox' = [mailbox EXCEPT ![id] = Tail(mailbox[id])]
    BY <1>0 DEF Port!Take
  <2> QED  BY <1>2, <2>1, TailFacts
<1>4. /\ UNCHANGED <<req_id, s_wire, s_lines, s_executed, lost, blind>> /\ tagged' \subseteq tagged
      /\ tagged \ {id} \subseteq tagged'
  BY <1>0 DEF Port!Take, Port!history
<1>5. /\ \A u \in Port!Threads : u # t => call'[u] = call[u]
      /\ call'[t].id = id /\ call'[t].verb = call[t].verb
      /\ \/ /\ line.what = "DATA" /\ call'[t].at = "wait" /\ call'[t].data /\ tagged' = tagged
         \/ /\ line.what # "DATA" /\ call'[t].at = "end" /\ call'[t].data = call[t].data
            /\ call'[t].ok = (line.what = "OK")
  <2>1. CASE line.what = "DATA"
    <3>1. call' = [call EXCEPT ![t].data = TRUE] /\ tagged' = tagged
      BY <1>0, <1>1, <2>1 DEF Port!Take
    <3>2. call[t] \in [at : {"wait"}, job : Port!Jobs, verb : {"SET", "INFO?"},
                       id : Port!Ids, data : BOOLEAN]
      BY <1>2, PortIdsTyped DEF Port!Call, Port!Free
    <3> QED  BY <1>0, <1>2, <2>1, <3>1, <3>2 DEF Port!TypeOK
  <2>2. CASE line.what # "DATA"
    <3>1. Port!End(t, line.what = "OK")
      BY <1>0, <1>1, <2>2 DEF Port!Take
    <3> QED  BY <1>0, <1>2, <2>2, <3>1, PortEnds
  <2> QED  BY <2>1, <2>2
<1>6. \A u \in Port!Threads : call[u].at = "wait" /\ u # t => call[u].id # id
  BY <1>0, <1>2 DEF PortInv, PortAlone
<1>7. PortAlone'
  BY <1>0, <1>2, <1>4, <1>5, <1>6 DEF PortInv, PortAlone
<1>8. PortGiven'
  BY <1>0, <1>2, <1>4, <1>5 DEF PortInv, PortGiven, PortAlone
<1>9. PortOnce'
  BY <1>2, <1>3, <1>4, PortIdsTyped DEF PortInv, PortOnce
<1>10. PortTrue'
  BY ZenonT(40), <1>3, <1>4 DEF PortInv, PortTrue
<1>11. PortData'
  <2> SUFFICES ASSUME NEW u \in Port!Threads, NEW i \in Port!Ids,
                      call'[u].at = "wait", call'[u].verb = "INFO?", call'[u].id = i
               PROVE  /\ \A k \in 1 .. Len(s_wire') : s_wire'[k].id = i => s_wire'[k].verb = "INFO?"
                      /\ call'[u].data \/ i \in lost' \/ DataFirst(i)'
    BY DEF PortData
  <2>1. CASE u = t
    BY <1>0, <1>2, <1>4, <1>5, <2>1 DEF PortInv, PortData
  <2>2. CASE u # t
    <3>1. call'[u] = call[u] /\ mailbox'[i] = mailbox[i]
      BY <1>3, <1>5, <1>6, <2>2
    <3>2. DataFirst(i) => DataFirst(i)'
      BY <1>4, <3>1 DEF DataFirst, BoxData
    <3> QED  BY <1>4, <3>1, <3>2 DEF PortInv, PortData
  <2> QED  BY <2>1, <2>2
<1>12. PortSeen'
  <2>1. call'[Main] = call[Main]
    BY <1>2, <1>5, PortIdsTyped
  <2> QED  BY <1>0, <1>2, <1>4, <1>5, <2>1 DEF PortInv, PortSeen, Port!Blocked
<1>13. PortEnded'
  <2> SUFFICES ASSUME NEW u \in Port!Threads, call'[u].at = "end"
               PROVE  /\ call'[u].ok => call'[u].id \in s_executed
                      /\ call'[u].ok /\ call'[u].verb = "INFO?" => call'[u].data \/ call'[u].id \in lost
                      /\ ~call'[u].ok => \/ call'[u].id \in lost \cup blind
                                         \/ /\ call'[u].id \notin s_executed
                                            /\ \A k \in 1 .. Len(s_wire) : s_wire[k].id # call'[u].id
    BY <1>4 DEF PortEnded
  <2>1. CASE u # t
    BY <1>5, <2>1 DEF PortInv, PortEnded
  <2>2. CASE u = t
    <3>1. line.what \in {"OK", "ERR"} /\ call'[t].ok = (line.what = "OK")
      BY <1>2, <1>5, <2>2 DEF PortLine
    <3>2. line.what = "OK" => id \in s_executed
      BY <1>2, <1>3 DEF PortInv, PortTrue
    <3>3. line.what = "ERR" => id \notin s_executed
      BY <1>2, <1>3 DEF PortInv, PortTrue
    <3>4. \A k \in 1 .. Len(s_wire) : s_wire[k].id # id
      BY <1>2 DEF PortInv, PortOnce
    <3>5. line.what = "OK" /\ call[t].verb = "INFO?" => call[t].data \/ id \in lost
      <4>1. line.what = "OK" => ~DataFirst(id)
        BY <1>2, <1>3 DEF DataFirst, BoxData
      <4> QED  BY <1>0, <1>2, <4>1 DEF PortInv, PortData
    <3> QED  BY <1>5, <2>2, <3>1, <3>2, <3>3, <3>4, <3>5
  <2> QED  BY <2>1, <2>2
<1>14. PortMain'
  <2>1. call'[Main] = call[Main]
    BY <1>2, <1>5, PortIdsTyped
  <2>2. call[Main].at = "wait" => call[Main].id \in Port!Ids /\ call[Main].id # id
    BY <1>2, <1>6, PortIdsTyped, PortShapes
  <2> QED  BY <1>3, <2>1, <2>2 DEF PortInv, PortMain
<1> QED  BY <1>7, <1>8, <1>9, <1>10, <1>11, <1>12, <1>13, <1>14 DEF PortInv

\* A request that times out had lost a line, or waited while the main thread did.
LEMMA PortTimeOut ==
    ASSUME Port!TypeOK, PortInv, NEW t \in Port!Threads, Port!TimeOut(t)
    PROVE  PortInv'
<1>0. PICK id : id = call[t].id
  OBVIOUS
<1>1. /\ UNCHANGED <<req_id, mailbox, s_wire, s_lines, s_executed, lost, blind>>
      /\ tagged' = tagged \ {id} /\ call[t].at = "wait"
      /\ id \in lost \/ Port!Blocked
  BY <1>0 DEF Port!TimeOut, Port!history
<1>2. /\ \A u \in Port!Threads : u # t => call'[u] = call[u]
      /\ call'[t].at = "end" /\ call'[t].id = id /\ call'[t].ok = FALSE
      /\ call'[t].data = call[t].data
  BY <1>0, PortEnds DEF Port!TimeOut
<1>3. \A u \in Port!Threads : call[u].at = "wait" /\ u # t => call[u].id # id
  BY <1>0, <1>1 DEF PortInv, PortAlone
<1>4. id \in lost \cup blind /\ id <= req_id
  BY <1>0, <1>1 DEF PortInv, PortSeen, PortAlone
<1>5. PortAlone'
  BY <1>1, <1>2, <1>3 DEF PortInv, PortAlone
<1>6. PortGiven'
  BY <1>1, <1>2, <1>4 DEF PortInv, PortGiven
<1>7. PortOnce' /\ PortTrue'
  BY <1>1 DEF PortInv, PortOnce, PortTrue
<1>8. PortData'
  BY <1>1, <1>2 DEF PortInv, PortData, DataFirst, BoxData
<1>9. PortSeen'
  <2>1. \A u \in Port!Threads : call'[u].at = "wait" => call'[u] = call[u] /\ u # t
    BY <1>2
  <2>2. Port!Blocked' => Port!Blocked
    BY <1>1, <1>2, PortIdsTyped, PortShapes DEF Port!Blocked
  <2> QED  BY <1>1, <2>1, <2>2 DEF PortInv, PortSeen
<1>10. PortEnded'
  BY <1>1, <1>2, <1>4 DEF PortInv, PortEnded
<1>11. PortMain'
  BY <1>1, <1>2, PortIdsTyped DEF PortInv, PortMain
<1> QED  BY <1>5, <1>6, <1>7, <1>8, <1>9, <1>10, <1>11 DEF PortInv

\* A delivery finds the main thread free.
LEMMA PortDeliver ==
    ASSUME Port!TypeOK, PortInv, Port!Deliver
    PROVE  PortInv'
<1>0. PICK line : line = Head(s_lines)
  OBVIOUS
<1>1. PICK id : id = line.id
  OBVIOUS
<1>2. /\ s_lines # <<>> /\ s_lines \in Seq(PortLine) /\ line \in PortLine /\ id \in Port!Ids
      /\ line = s_lines[1] /\ s_lines[1].id = id /\ call[Main] = Port!Free /\ call[Main].at = "free"
      /\ mailbox \in [Port!Ids -> Seq(PortLine)]
  <2>1. s_lines # <<>> /\ s_lines \in Seq(PortLine) /\ mailbox \in [Port!Ids -> Seq(PortLine)]
    BY DEF Port!Deliver, Port!TypeOK, PortLine
  <2>2. line \in PortLine /\ line = s_lines[1]
    BY <1>0, <2>1, TailFacts
  <2>3. call[Main] = Port!Free /\ call[Main].at = "free"
    BY DEF Port!Deliver, Port!Blocked, Port!Free
  <2> QED  BY <1>1, <2>1, <2>2, <2>3 DEF PortLine
<1>3. /\ Len(s_lines') \in Nat /\ Len(s_lines) = Len(s_lines') + 1
      /\ \A k \in 1 .. Len(s_lines') : s_lines'[k] = s_lines[k + 1] /\ k + 1 \in 1 .. Len(s_lines)
      /\ 1 \in 1 .. Len(s_lines)
  BY <1>2, TailFacts DEF Port!Deliver
<1>4. UNCHANGED <<req_id, tagged, call, s_wire, s_executed, lost, blind>>
  BY DEF Port!Deliver, Port!history
<1>5. \/ id \notin tagged /\ mailbox' = mailbox
      \/ /\ id \in tagged
         /\ \A i \in Port!Ids : i # id => mailbox'[i] = mailbox[i]
         /\ Len(mailbox'[id]) = Len(mailbox[id]) + 1 /\ Len(mailbox[id]) \in Nat
         /\ mailbox'[id][Len(mailbox[id]) + 1] = line
         /\ \A k \in 1 .. Len(mailbox[id]) : mailbox'[id][k] = mailbox[id][k]
         /\ \A k \in 1 .. Len(mailbox'[id]) : k \in 1 .. Len(mailbox[id]) \/ k = Len(mailbox[id]) + 1
         /\ Len(mailbox[id]) + 1 \in 1 .. Len(mailbox'[id])
  <2>1. CASE id \notin tagged
    BY <1>0, <1>1, <2>1 DEF Port!Deliver
  <2>2. CASE id \in tagged
    <3>1. mailbox' = [mailbox EXCEPT ![id] = Append(mailbox[id], line)]
      BY <1>0, <1>1, <2>2 DEF Port!Deliver
    <3>2. mailbox[id] \in Seq(PortLine) /\ mailbox'[id] = Append(mailbox[id], line)
      BY <1>2, <3>1
    <3>3. /\ Len(mailbox'[id]) = Len(mailbox[id]) + 1 /\ Len(mailbox[id]) \in Nat
          /\ mailbox'[id][Len(mailbox[id]) + 1] = line
          /\ \A k \in 1 .. Len(mailbox[id]) : mailbox'[id][k] = mailbox[id][k]
      BY <1>2, <3>2, AppendFacts
    <3>4. /\ \A k \in 1 .. Len(mailbox'[id]) : k \in 1 .. Len(mailbox[id]) \/ k = Len(mailbox[id]) + 1
          /\ Len(mailbox[id]) + 1 \in 1 .. Len(mailbox'[id])
      BY <3>3
    <3> QED  BY <1>2, <2>2, <3>1, <3>3, <3>4
  <2> QED  BY <2>1, <2>2
<1>6. PortAlone' /\ PortEnded'
  BY <1>4 DEF PortInv, PortAlone, PortEnded
<1>7. PortGiven'
  BY <1>3, <1>4 DEF PortInv, PortGiven
<1>8. PortOnce'
  <2>1. \A k \in 1 .. Len(s_wire) : s_wire[k].id # id /\ s_wire[k].id \in Port!Ids
    BY <1>2, <1>3, PortIdsTyped DEF PortInv, PortOnce
  <2>2. \A k \in 1 .. Len(s_wire) : mailbox'[s_wire[k].id] = mailbox[s_wire[k].id]
    BY <1>5, <2>1
  <2> QED  BY SMTT(25), <1>3, <1>4, <2>2 DEF PortInv, PortOnce
<1>9. PortTrue'
  <2>1. /\ line.what = "OK"  => id \in s_executed
        /\ line.what = "ERR" => id \notin s_executed
    BY <1>2, <1>3 DEF PortInv, PortTrue
  <2>2. \A k \in 1 .. Len(s_lines') :
          /\ s_lines'[k].what = "OK"  => s_lines'[k].id \in s_executed
          /\ s_lines'[k].what = "ERR" => s_lines'[k].id \notin s_executed
    BY <1>3 DEF PortInv, PortTrue
  <2>3. ASSUME NEW i \in Port!Ids, NEW k \in 1 .. Len(mailbox'[i])
        PROVE  /\ mailbox'[i][k].what = "OK"  => i \in s_executed
               /\ mailbox'[i][k].what = "ERR" => i \notin s_executed
    <3>1. CASE mailbox'[i] = mailbox[i]
      BY <3>1 DEF PortInv, PortTrue
    <3>2. CASE mailbox'[i] # mailbox[i]
      <4>1. i = id /\ id \in tagged
        BY <1>5, <3>2
      <4>2. \/ k \in 1 .. Len(mailbox[id]) /\ mailbox'[id][k] = mailbox[id][k]
            \/ mailbox'[id][k] = line
        BY <1>5, <4>1
      <4> QED  BY <2>1, <4>1, <4>2 DEF PortInv, PortTrue
    <3> QED  BY <3>1, <3>2
  <2> QED  BY <1>4, <2>2, <2>3 DEF PortTrue
<1>10. PortData'
  <2> SUFFICES ASSUME NEW t \in Port!Threads, NEW i \in Port!Ids,
                      call[t].at = "wait", call[t].verb = "INFO?", call[t].id = i, DataFirst(i)
               PROVE  DataFirst(i)'
    BY <1>4 DEF PortInv, PortData
  <2>1. i \in tagged
    BY DEF PortInv, PortAlone
  <2>2. CASE i # id
    <3>1. mailbox'[i] = mailbox[i]
      BY <1>5, <2>2
    <3>2. ASSUME NEW k \in 1 .. Len(s_lines'), s_lines'[k].id = i, s_lines'[k].what = "OK"
          PROVE  \/ \E j \in 1 .. Len(mailbox[i]) : mailbox[i][j].what = "DATA"
                 \/ \E j \in 1 .. Len(s_lines') : j < k /\ s_lines'[j] = Port!Line(i, "DATA")
      <4>1. CASE \E j \in 1 .. Len(mailbox[i]) : mailbox[i][j].what = "DATA"
        BY <4>1
      <4>2. CASE ~ \E j \in 1 .. Len(mailbox[i]) : mailbox[i][j].what = "DATA"
        <5>1. PICK j \in 1 .. Len(s_lines) : j < k + 1 /\ s_lines[j] = Port!Line(i, "DATA")
          BY <1>3, <3>2, <4>2 DEF DataFirst
        <5>2. j # 1
          BY <1>2, <2>2, <5>1 DEF Port!Line
        <5>3. j - 1 \in 1 .. Len(s_lines') /\ j - 1 < k /\ s_lines'[j - 1] = s_lines[j]
          BY <1>3, <5>1, <5>2
        <5> QED  BY <5>1, <5>3
      <4> QED  BY <4>1, <4>2
    <3> QED  BY <3>1, <3>2 DEF DataFirst, BoxData
  <2>3. CASE i = id
    <3> DEFINE n == Len(mailbox[id]) + 1
    <3>1. /\ Len(mailbox'[id]) = n /\ mailbox'[id][n] = line /\ n \in 1 .. Len(mailbox'[id])
          /\ \A k \in 1 .. Len(mailbox[id]) : /\ k \in 1 .. Len(mailbox'[id]) /\ k < n
                                             /\ mailbox'[id][k] = mailbox[id][k]
          /\ \A k \in 1 .. Len(mailbox'[id]) : k \in 1 .. Len(mailbox[id]) \/ k = n
      BY <1>5, <2>1, <2>3
    <3> HIDE DEF n
    <3>2. ASSUME NEW k \in 1 .. Len(mailbox'[id]), mailbox'[id][k].what = "OK"
          PROVE  \E j \in 1 .. Len(mailbox'[id]) : j < k /\ mailbox'[id][j].what = "DATA"
      <4>1. CASE k \in 1 .. Len(mailbox[id])
        BY SMTT(25), <2>3, <3>1, <3>2, <4>1 DEF DataFirst, BoxData
      <4>2. CASE k = n
        <5>1. line.what = "OK"
          BY <3>1, <3>2, <4>2
        <5>2. PICK j \in 1 .. Len(mailbox[id]) : mailbox[id][j].what = "DATA"
          <6>1. ~ \E j \in 1 .. Len(s_lines) : j < 1 /\ s_lines[j] = Port!Line(id, "DATA")
            OBVIOUS
          <6> QED  BY <1>2, <1>3, <2>3, <5>1, <6>1 DEF DataFirst
        <5> QED  BY <3>1, <4>2, <5>2
      <4> QED  BY <3>1, <4>1, <4>2
    <3>3. ASSUME NEW k \in 1 .. Len(s_lines'), s_lines'[k].id = id, s_lines'[k].what = "OK"
          PROVE  \/ \E j \in 1 .. Len(mailbox'[id]) : mailbox'[id][j].what = "DATA"
                 \/ \E j \in 1 .. Len(s_lines') : j < k /\ s_lines'[j] = Port!Line(id, "DATA")
      <4>1. CASE \E j \in 1 .. Len(mailbox[id]) : mailbox[id][j].what = "DATA"
        BY <3>1, <4>1
      <4>2. CASE ~ \E j \in 1 .. Len(mailbox[id]) : mailbox[id][j].what = "DATA"
        <5>1. PICK j \in 1 .. Len(s_lines) : j < k + 1 /\ s_lines[j] = Port!Line(id, "DATA")
          BY <1>3, <2>3, <3>3, <4>2 DEF DataFirst
        <5>2. CASE j = 1
          <6>1. line.what = "DATA"
            BY <1>2, <5>1, <5>2 DEF Port!Line
          <6> QED  BY <3>1, <6>1
        <5>3. CASE j # 1
          <6>1. j - 1 \in 1 .. Len(s_lines') /\ j - 1 < k /\ s_lines'[j - 1] = s_lines[j]
            BY <1>3, <5>1, <5>3
          <6> QED  BY <5>1, <6>1
        <5> QED  BY <5>2, <5>3
      <4> QED  BY <4>1, <4>2
    <3> QED  BY <2>3, <3>2, <3>3 DEF DataFirst, BoxData
  <2> QED  BY <2>2, <2>3
<1>11. PortSeen' /\ PortMain'
  BY <1>2, <1>4 DEF PortInv, PortSeen, PortMain, Port!Blocked
<1> QED  BY <1>6, <1>7, <1>8, <1>9, <1>10, <1>11 DEF PortInv

\* What the beacon does with a request: it carries it out and answers in full, it refuses
\* it, or a part of it is lost.
LEMMA PortHandle ==
    ASSUME Port!TypeOK, PortInv, Port!Handle
    PROVE  PortInv'
<1>0. PICK r : r = Head(s_wire)
  OBVIOUS
<1>1. PICK id : id = r.id
  OBVIOUS
<1>2. PICK sent : sent = Len(s_lines)
  OBVIOUS
<1>3. /\ s_wire # <<>> /\ s_wire \in Seq(PortReq) /\ s_wire' = Tail(s_wire)
      /\ UNCHANGED <<ser, req_id, tagged, mailbox, call, blind>>
  BY DEF Port!Handle, Port!TypeOK, PortReq, Port!transport
<1>4. r \in PortReq /\ id \in Port!Ids /\ r = s_wire[1] /\ s_wire[1].id = id
  <2>1. r \in PortReq /\ r = s_wire[1]
    BY <1>0, <1>3, TailFacts
  <2> QED  BY <1>1, <2>1 DEF PortReq
<1>5. /\ Len(s_wire') \in Nat /\ Len(s_wire) = Len(s_wire') + 1 /\ 1 \in 1 .. Len(s_wire)
      /\ \A k \in 1 .. Len(s_wire') : s_wire'[k] = s_wire[k + 1] /\ k + 1 \in 1 .. Len(s_wire)
  BY <1>3, TailFacts
<1>6. /\ id \notin s_executed /\ mailbox[id] = <<>> /\ Len(mailbox[id]) = 0 /\ id <= req_id
      /\ \A j \in 1 .. Len(s_lines) : s_lines[j].id # id
  BY <1>4, <1>5, ShortFacts DEF PortInv, PortOnce, PortGiven
<1>7. \A k \in 1 .. Len(s_wire') : s_wire'[k].id # id
  <2> SUFFICES ASSUME NEW k \in 1 .. Len(s_wire') PROVE s_wire[k + 1].id # s_wire[1].id
    BY <1>4, <1>5
  <2>1. k + 1 # 1 /\ k + 1 \in 1 .. Len(s_wire)
    BY <1>5
  <2> QED  BY <1>5, <2>1 DEF PortInv, PortOnce
\* The lines that are added, of which only OK and DATA say that it was carried out.
<1>8. /\ s_lines' \in Seq(PortLine) /\ sent \in Nat /\ Len(s_lines') \in Nat /\ Len(s_lines') >= sent
      /\ \A k \in 1 .. sent : s_lines'[k] = s_lines[k] /\ k \in 1 .. Len(s_lines')
      /\ \A k \in 1 .. Len(s_lines') : k \in 1 .. sent \/ s_lines'[k].id = id
      /\ \A k \in 1 .. Len(s_lines') : s_lines'[k].what = "OK" /\ k \notin 1 .. sent =>
            /\ id \in s_executed'
            /\ r.verb = "INFO?" => \/ id \in lost'
                                   \/ k = sent + 2 /\ s_lines'[sent + 1] = Port!Line(id, "DATA")
      /\ \A k \in 1 .. Len(s_lines') : s_lines'[k].what = "ERR" /\ k \notin 1 .. sent => id \notin s_executed'
      /\ s_executed' \in {s_executed, s_executed \cup {id}} /\ lost' \in {lost, lost \cup {id}}
  <2> DEFINE ok   == Port!Line(id, "OK")
             data == Port!Line(id, "DATA")
             err  == Port!Line(id, "ERR")
  <2>1. /\ ok \in PortLine /\ ok.id = id /\ ok.what = "OK"
        /\ data \in PortLine /\ data.id = id /\ data.what = "DATA"
        /\ err \in PortLine /\ err.id = id /\ err.what = "ERR"
    BY <1>4 DEF Port!Line, PortLine
  <2>2. s_lines \in Seq(PortLine) /\ sent \in Nat
    BY <1>2 DEF Port!TypeOK, PortLine
  <2> HIDE DEF ok, data, err
  <2>3. \/ /\ r.verb = "INFO?" /\ s_lines' = s_lines \o <<data, ok>>
           /\ s_executed' = s_executed \cup {id} /\ lost' = lost
        \/ /\ r.verb # "INFO?" /\ s_lines' = s_lines \o <<ok>>
           /\ s_executed' = s_executed \cup {id} /\ lost' = lost
        \/ /\ s_lines' = Append(s_lines, err) /\ s_executed' = s_executed /\ lost' = lost
        \/ /\ s_lines' = s_lines
           /\ s_executed' \in {s_executed, s_executed \cup {id}} /\ lost' = lost \cup {id}
        \/ /\ s_lines' = Append(s_lines, ok)
           /\ s_executed' = s_executed \cup {id} /\ lost' = lost \cup {id}
    <3>1. Port!Answer(r) = IF r.verb = "INFO?" THEN <<data, ok>> ELSE <<ok>>
      BY <1>1 DEF Port!Answer, ok, data
    <3>2. \A i \in 2 .. Len(Port!Answer(r)) : Port!Answer(r)[i] = ok
      <4>1. CASE r.verb = "INFO?"
        <5>1. Port!Answer(r) = <<data, ok>> /\ Len(<<data, ok>>) = 2 /\ <<data, ok>>[2] = ok
          BY <2>1, <3>1, <4>1, ShortFacts
        <5>2. \A i \in 2 .. 2 : i = 2
          OBVIOUS
        <5> QED  BY <5>1, <5>2
      <4>2. CASE r.verb # "INFO?"
        <5>1. Len(Port!Answer(r)) = 1
          BY <2>1, <3>1, <4>2, ShortFacts
        <5> QED  BY <5>1
      <4> QED  BY <4>1, <4>2
    <3>3. \/ s_executed' = s_executed \cup {id} /\ s_lines' = s_lines \o Port!Answer(r) /\ lost' = lost
          \/ s_lines' = Append(s_lines, err) /\ s_executed' = s_executed /\ lost' = lost
          \/ /\ s_executed' \in {s_executed, s_executed \cup {id}} /\ lost' = lost \cup {id}
             /\ s_lines' = s_lines
          \/ /\ s_executed' \in {s_executed, s_executed \cup {id}} /\ s_executed' # s_executed
             /\ lost' = lost \cup {id}
             /\ \E i \in 2 .. Len(Port!Answer(r)) : s_lines' = Append(s_lines, Port!Answer(r)[i])
      BY <1>0, <1>1 DEF Port!Handle, err
    <3> QED  BY <3>1, <3>2, <3>3
  <2>4. CASE /\ r.verb = "INFO?" /\ s_lines' = s_lines \o <<data, ok>>
             /\ s_executed' = s_executed \cup {id} /\ lost' = lost
    <3>1. /\ s_lines' \in Seq(PortLine) /\ Len(s_lines') = sent + 2
          /\ s_lines'[sent + 1] = data /\ s_lines'[sent + 2] = ok
          /\ \A k \in 1 .. sent : s_lines'[k] = s_lines[k]
      BY <1>2, <2>1, <2>2, <2>4
    <3>2. \A k \in 1 .. Len(s_lines') : k \in 1 .. sent \/ k = sent + 1 \/ k = sent + 2
      BY <2>2, <3>1
    <3>3. Len(s_lines') \in Nat /\ Len(s_lines') >= sent /\ \A k \in 1 .. sent : k \in 1 .. Len(s_lines')
      BY <2>2, <3>1
    <3>4. ASSUME NEW k \in 1 .. Len(s_lines'), k \notin 1 .. sent
          PROVE  /\ s_lines'[k].id = id /\ s_lines'[k].what \in {"OK", "DATA"}
                 /\ s_lines'[k].what = "OK" => k = sent + 2
      BY <2>1, <3>1, <3>2, <3>4
    <3>5. s_lines'[sent + 1] = Port!Line(id, "DATA") /\ id \in s_executed'
      BY <2>4, <3>1 DEF data
    <3> QED  BY <2>2, <2>4, <3>1, <3>3, <3>4, <3>5
  <2>5. CASE /\ r.verb # "INFO?" /\ s_lines' = s_lines \o <<ok>>
             /\ s_executed' = s_executed \cup {id} /\ lost' = lost
    <3>1. /\ s_lines' \in Seq(PortLine) /\ Len(s_lines') = sent + 1
          /\ s_lines'[sent + 1] = ok
          /\ \A k \in 1 .. sent : s_lines'[k] = s_lines[k]
      BY <1>2, <2>1, <2>2, <2>5
    <3>2. \A k \in 1 .. Len(s_lines') : k \in 1 .. sent \/ k = sent + 1
      BY <2>2, <3>1
    <3> QED  BY <2>1, <2>2, <2>5, <3>1, <3>2
  <2>6. ASSUME NEW l \in {ok, err}, s_lines' = Append(s_lines, l)
        PROVE  /\ s_lines' \in Seq(PortLine) /\ Len(s_lines') = sent + 1
               /\ s_lines'[sent + 1] = l
               /\ \A k \in 1 .. sent : s_lines'[k] = s_lines[k]
               /\ \A k \in 1 .. Len(s_lines') : k \in 1 .. sent \/ k = sent + 1
    <3>1. /\ s_lines' \in Seq(PortLine) /\ Len(s_lines') = sent + 1
          /\ s_lines'[sent + 1] = l
          /\ \A k \in 1 .. sent : s_lines'[k] = s_lines[k]
      BY <1>2, <2>1, <2>2, <2>6, AppendFacts
    <3> QED  BY <2>2, <3>1
  <2>a. ASSUME Len(s_lines') = sent + 1
        PROVE  Len(s_lines') \in Nat /\ Len(s_lines') >= sent /\ \A k \in 1 .. sent : k \in 1 .. Len(s_lines')
    BY <2>2, <2>a
  <2>7. CASE s_lines' = Append(s_lines, err) /\ s_executed' = s_executed /\ lost' = lost
    BY <1>6, <2>1, <2>2, <2>6, <2>7, <2>a
  <2>8. CASE /\ s_lines' = s_lines
             /\ s_executed' \in {s_executed, s_executed \cup {id}} /\ lost' = lost \cup {id}
    BY <1>2, <2>2, <2>8
  <2>9. CASE /\ s_lines' = Append(s_lines, ok)
             /\ s_executed' = s_executed \cup {id} /\ lost' = lost \cup {id}
    <3>1. id \in s_executed' /\ id \in lost'
      BY <2>9
    <3>2. /\ s_lines' \in Seq(PortLine) /\ Len(s_lines') = sent + 1 /\ s_lines'[sent + 1] = ok
          /\ \A k \in 1 .. sent : s_lines'[k] = s_lines[k]
          /\ \A k \in 1 .. Len(s_lines') : k \in 1 .. sent \/ k = sent + 1
      BY <2>6, <2>9
    <3>3. \A k \in 1 .. Len(s_lines') : k \notin 1 .. sent =>
              s_lines'[k] = ok /\ s_lines'[k].id = id /\ s_lines'[k].what # "ERR"
      BY <2>1, <3>2
    <3>4. Len(s_lines') \in Nat /\ Len(s_lines') >= sent /\ \A k \in 1 .. sent : k \in 1 .. Len(s_lines')
      BY <2>a, <3>2
    <3>5. s_executed' \in {s_executed, s_executed \cup {id}} /\ lost' \in {lost, lost \cup {id}}
      BY <2>9
    <3>6. \A k \in 1 .. Len(s_lines') : s_lines'[k].what = "OK" /\ k \notin 1 .. sent =>
              /\ id \in s_executed'
              /\ r.verb = "INFO?" => \/ id \in lost'
                                     \/ k = sent + 2 /\ s_lines'[sent + 1] = Port!Line(id, "DATA")
      BY <3>1
    <3>7. \A k \in 1 .. Len(s_lines') : k \in 1 .. sent \/ s_lines'[k].id = id
      BY <3>3
    <3>8. \A k \in 1 .. Len(s_lines') : s_lines'[k].what = "ERR" /\ k \notin 1 .. sent => id \notin s_executed'
      BY <3>3
    <3> QED  BY <2>2, <3>2, <3>4, <3>5, <3>6, <3>7, <3>8
  <2> QED  BY <2>3, <2>4, <2>5, <2>7, <2>8, <2>9
<1>9. PortAlone' /\ PortSeen' /\ PortMain'
  BY <1>3 DEF PortInv, PortAlone, PortSeen, PortMain, Port!Blocked
<1>10. PortGiven'
  <2>1. \A k \in 1 .. Len(s_lines') : s_lines'[k].id <= req_id
    BY <1>2, <1>6, <1>8 DEF PortInv, PortGiven
  <2>2. \A k \in 1 .. Len(s_wire') : s_wire'[k].id <= req_id
    BY <1>5 DEF PortInv, PortGiven
  <2> QED  BY <1>3, <1>6, <1>8, <2>1, <2>2 DEF PortInv, PortGiven
<1>11. PortOnce'
  <2> SUFFICES ASSUME NEW k \in 1 .. Len(s_wire')
               PROVE  /\ s_wire'[k].id \notin s_executed' /\ mailbox[s_wire'[k].id] = <<>>
                      /\ \A j \in 1 .. Len(s_lines') : s_lines'[j].id # s_wire'[k].id
                      /\ \A j \in 1 .. Len(s_wire') : s_wire'[j].id = s_wire'[k].id => j = k
    BY <1>3 DEF PortOnce
  <2>1. PICK n \in 1 .. Len(s_wire) : n = k + 1 /\ s_wire'[k] = s_wire[n]
    BY <1>5
  <2>2. s_wire[n].id \notin s_executed' /\ mailbox[s_wire[n].id] = <<>>
    BY <1>7, <1>8, <2>1 DEF PortInv, PortOnce
  <2>3. \A j \in 1 .. Len(s_lines') : s_lines'[j].id # s_wire[n].id
    BY <1>2, <1>7, <1>8, <2>1 DEF PortInv, PortOnce
  <2>4. \A j \in 1 .. Len(s_wire') : s_wire'[j].id = s_wire[n].id => j + 1 = n
    BY <1>5 DEF PortInv, PortOnce
  <2>5. \A j \in 1 .. Len(s_wire') : j + 1 = k + 1 => j = k
    BY <1>5
  <2> QED  BY <2>1, <2>2, <2>3, <2>4, <2>5
<1>12. PortTrue'
  <2>1. \A k \in 1 .. Len(s_lines') :
          /\ s_lines'[k].what = "OK"  => s_lines'[k].id \in s_executed'
          /\ s_lines'[k].what = "ERR" => s_lines'[k].id \notin s_executed'
    <3> SUFFICES ASSUME NEW k \in 1 .. Len(s_lines')
                 PROVE  /\ s_lines'[k].what = "OK"  => s_lines'[k].id \in s_executed'
                        /\ s_lines'[k].what = "ERR" => s_lines'[k].id \notin s_executed'
      OBVIOUS
    <3>1. CASE k \in 1 .. sent
      <4>1. s_lines'[k] = s_lines[k] /\ s_lines[k].id # id
        BY <1>2, <1>6, <1>8, <3>1
      <4> QED  BY <1>2, <1>8, <3>1, <4>1 DEF PortInv, PortTrue
    <3>2. CASE k \notin 1 .. sent
      BY <1>8, <3>2
    <3> QED  BY <3>1, <3>2
  <2>2. ASSUME NEW i \in Port!Ids, NEW k \in 1 .. Len(mailbox[i])
        PROVE  /\ mailbox[i][k].what = "OK"  => i \in s_executed'
               /\ mailbox[i][k].what = "ERR" => i \notin s_executed'
    <3>1. i # id
      BY <1>6
    <3> QED  BY <1>8, <3>1 DEF PortInv, PortTrue
  <2> QED  BY <1>3, <2>1, <2>2 DEF PortTrue
<1>13. PortData'
  <2> SUFFICES ASSUME NEW t \in Port!Threads, NEW i \in Port!Ids,
                      call[t].at = "wait", call[t].verb = "INFO?", call[t].id = i
               PROVE  /\ \A k \in 1 .. Len(s_wire') : s_wire'[k].id = i => s_wire'[k].verb = "INFO?"
                      /\ call[t].data \/ i \in lost' \/ DataFirst(i)'
    BY <1>3 DEF PortData
  <2>1. \A k \in 1 .. Len(s_wire') : s_wire'[k].id = i => s_wire'[k].verb = "INFO?"
    BY <1>5 DEF PortInv, PortData
  <2>2. CASE i # id
    <3>1. DataFirst(i) => DataFirst(i)'
      <4> SUFFICES ASSUME DataFirst(i), NEW k \in 1 .. Len(s_lines'),
                          s_lines'[k].id = i, s_lines'[k].what = "OK"
                   PROVE  \/ \E j \in 1 .. Len(mailbox[i]) : mailbox[i][j].what = "DATA"
                          \/ \E j \in 1 .. Len(s_lines') : j < k /\ s_lines'[j] = Port!Line(i, "DATA")
        BY SMTT(25), <1>3 DEF DataFirst, BoxData
      <4>1. k \in 1 .. Len(s_lines) /\ s_lines'[k] = s_lines[k]
        BY <1>2, <1>8, <2>2
      <4> QED  BY <1>2, <1>8, <4>1 DEF DataFirst
    <3> QED  BY <1>8, <2>1, <3>1 DEF PortInv, PortData
  <2>3. CASE i = id
    <3>1. r.verb = "INFO?"
      BY <1>4, <1>5, <2>3 DEF PortInv, PortData
    <3>2. id \in lost' \/ DataFirst(id)'
      <4> SUFFICES ASSUME id \notin lost', NEW k \in 1 .. Len(s_lines'),
                          s_lines'[k].id = id, s_lines'[k].what = "OK"
                   PROVE  \E j \in 1 .. Len(s_lines') : j < k /\ s_lines'[j] = Port!Line(id, "DATA")
        BY <1>3, <1>6 DEF DataFirst, BoxData
      <4>1. k \notin 1 .. sent
        BY <1>2, <1>6, <1>8
      <4>2. k = sent + 2 /\ s_lines'[sent + 1] = Port!Line(id, "DATA")
        BY <1>8, <3>1, <4>1
      <4>3. sent + 1 \in 1 .. Len(s_lines') /\ sent + 1 < k
        BY <1>8, <4>2
      <4> QED  BY <4>2, <4>3
    <3> QED  BY <2>1, <2>3, <3>2
  <2> QED  BY <2>2, <2>3
<1>14. PortEnded'
  <2> SUFFICES ASSUME NEW t \in Port!Threads, call[t].at = "end"
               PROVE  /\ call[t].ok => call[t].id \in s_executed'
                      /\ call[t].ok /\ call[t].verb = "INFO?" => call[t].data \/ call[t].id \in lost'
                      /\ ~call[t].ok => \/ call[t].id \in lost' \cup blind
                                        \/ /\ call[t].id \notin s_executed'
                                           /\ \A k \in 1 .. Len(s_wire') : s_wire'[k].id # call[t].id
    BY <1>3 DEF PortEnded
  <2>1. CASE call[t].id \notin s_executed /\ \A k \in 1 .. Len(s_wire) : s_wire[k].id # call[t].id
    <3>1. call[t].id # id
      BY <1>4, <1>5, <2>1
    <3> QED  BY <1>5, <1>8, <2>1, <3>1 DEF PortInv, PortEnded
  <2>2. CASE ~(call[t].id \notin s_executed /\ \A k \in 1 .. Len(s_wire) : s_wire[k].id # call[t].id)
    BY <1>8, <2>2 DEF PortInv, PortEnded
  <2> QED  BY <2>1, <2>2
<1> QED  BY <1>9, <1>10, <1>11, <1>12, <1>13, <1>14 DEF PortInv

LEMMA PortStep ==
    ASSUME Port!TypeOK, PortInv, [Port!Next]_(Port!vars)
    PROVE  PortInv'
<1>1. ASSUME NEW w \in Workers, NEW job \in Port!Jobs, Port!Start(w, job) PROVE PortInv'
  <2>1. /\ UNCHANGED <<req_id, tagged, mailbox, s_wire, s_lines, s_executed, lost, blind>>
        /\ \A t \in Port!Threads : call'[t] = call[t] \/ call'[t].at = "begin"
        /\ call'[Main] = call[Main] /\ ~Port!Blocked
    BY <1>1, PortAssumption DEF Port!Start, Port!transport, Port!history, Port!Begins, Port!TypeOK,
       Port!Threads
  <2>2. PortSeen'
    BY <2>1 DEF PortSeen, Port!Blocked
  <2> QED  BY <2>1, <2>2, PortCallsMove
<1>2. ASSUME NEW w \in Workers, Port!ReadOn(w) \/ Port!ReadDone(w) \/ Port!SetFailed(w) PROVE PortInv'
  <2>1. /\ UNCHANGED <<req_id, tagged, mailbox, s_wire, s_lines, s_executed, lost, blind>>
        /\ \A t \in Port!Threads : call'[t] = call[t] \/ call'[t].at \in {"free", "begin"}
        /\ call'[Main] = call[Main]
    BY <1>2, PortAssumption DEF Port!ReadOn, Port!ReadDone, Port!SetFailed, Port!transport,
       Port!history, Port!Begins, Port!Free, Port!TypeOK, Port!Threads
  <2>2. PortSeen'
    BY <2>1 DEF PortInv, PortSeen, Port!Blocked
  <2> QED  BY <2>1, <2>2, PortCallsMove
<1>3. ASSUME NEW w \in Workers, Port!TagDone(w) PROVE PortInv'
  <2>1. /\ UNCHANGED <<req_id, tagged, mailbox, s_wire, s_lines, s_executed, lost>>
        /\ blind' = blind \cup Port!Waiting
        /\ \A t \in Port!Threads : call'[t] = call[t] \/ call'[t].at \in {"free", "begin"}
    BY <1>3, PortAssumption DEF Port!TagDone, Port!transport, Port!Begins, Port!Free, Port!TypeOK,
       Port!Threads
  <2>2. PortSeen'
    BY <2>1 DEF PortSeen, Port!Waiting
  <2> QED  BY <2>1, <2>2, PortCallsMove
<1>4. CASE Port!MainDone
  <2>1. /\ UNCHANGED <<req_id, tagged, mailbox, s_wire, s_lines, s_executed, lost, blind>>
        /\ \A t \in Port!Threads : call'[t] = call[t] \/ call'[t].at = "free"
        /\ call'[Main] = Port!Free
    BY <1>4 DEF Port!MainDone, Port!transport, Port!history, Port!Free, Port!TypeOK, Port!Threads
  <2>2. PortSeen'
    BY <2>1 DEF PortSeen, Port!Blocked
  <2> QED  BY <2>1, <2>2, PortCallsMove
<1>5. ASSUME NEW t \in Port!Threads, Port!NotConnected(t) PROVE PortInv'
  <2>1. /\ UNCHANGED <<req_id, tagged, mailbox, s_wire, s_lines, s_executed, lost, blind>>
        /\ \A u \in Port!Threads : u # t => call'[u] = call[u]
        /\ call'[t].at = "end" /\ ~call'[t].ok /\ ~call'[t].data /\ call'[t].id = 0
        /\ call[t].at = "begin"
    BY <1>5 DEF Port!NotConnected, Port!transport, Port!history, Port!TypeOK
  <2>2. PortSeen'
    <3>1. Port!Blocked' => Port!Blocked
      BY <2>1, PortIdsTyped, PortShapes DEF Port!Blocked
    <3> QED  BY <2>1, <3>1 DEF PortInv, PortSeen
  <2> QED  BY <2>1, <2>2, PortCallsMove
<1>6. CASE Port!Disconnect
  <2>1. UNCHANGED <<req_id, tagged, mailbox, call, s_wire, s_lines, s_executed, blind>> /\ lost \subseteq lost'
    BY <1>6 DEF Port!Disconnect
  <2>2. PortData'
    BY SMTT(25), <2>1 DEF PortInv, PortData, DataFirst, BoxData
  <2>3. PortEnded'
    BY <2>1 DEF PortInv, PortEnded
  <2> QED  BY <2>1, <2>2, <2>3 DEF PortInv, PortAlone, PortGiven, PortOnce, PortTrue, PortSeen, PortMain,
              Port!Blocked
<1>7. CASE UNCHANGED Port!vars
  <2>1. UNCHANGED <<req_id, tagged, mailbox, call, s_wire, s_lines, s_executed, lost, blind>>
    BY <1>7 DEF Port!vars, Port!transport, Port!history
  <2> QED  BY <2>1 DEF PortInv, PortAlone, PortGiven, PortOnce, PortTrue, PortData, DataFirst, BoxData,
              PortSeen, PortEnded, PortMain, Port!Blocked
<1> QED  BY <1>1, <1>2, <1>3, <1>4, <1>5, <1>6, <1>7, PortRequest, PortTake, PortTimeOut, PortDeliver,
            PortHandle DEF Port!Next

LEMMA PortStart ==
    ASSUME Port!Init
    PROVE  Port!TypeOK /\ PortInv
<1>1. \A t \in Port!Threads : call[t] = Port!Free /\ call[t].at = "free"
  BY DEF Port!Init, Port!Free
<1>2. Port!TypeOK
  BY PortAssumption, PortShapes, ShortFacts DEF Port!Init, Port!TypeOK
<1>3. Main \in Port!Threads
  BY DEF Port!Threads
<1>4. \A id \in Port!Ids : Len(mailbox[id]) = 0
  BY ShortFacts DEF Port!Init
<1>5. Len(s_wire) = 0 /\ Len(s_lines) = 0 /\ s_executed = {} /\ tagged = {}
  BY ShortFacts DEF Port!Init
<1>6. PortAlone /\ PortData /\ PortSeen /\ PortEnded /\ PortMain
  BY <1>1, <1>3 DEF PortAlone, PortData, PortSeen, PortEnded, PortMain
<1>7. PortGiven /\ PortOnce /\ PortTrue
  BY <1>1, <1>4, <1>5 DEF PortGiven, PortOnce, PortTrue
<1> QED  BY <1>2, <1>6, <1>7 DEF PortInv

\* What the serial port promises follows.
LEMMA PortKeeps ==
    Port!Spec => [](Port!TypeOK /\ Port!EndsAsAnswered /\ Port!MainReadsNothing)
<1>1. ASSUME Port!TypeOK, PortInv PROVE Port!EndsAsAnswered /\ Port!MainReadsNothing
  <2>1. Port!EndsAsAnswered
    BY <1>1 DEF PortInv, PortEnded, Port!EndsAsAnswered, Port!Ended
  <2>2. Port!MainReadsNothing
    BY <1>1 DEF PortInv, PortMain, Port!MainReadsNothing, Port!Ended
  <2> QED  BY <2>1, <2>2
<1>2. Port!Init => Port!TypeOK /\ PortInv
  BY PortStart
<1>3. Port!TypeOK /\ PortInv /\ [Port!Next]_(Port!vars) => Port!TypeOK' /\ PortInv'
  BY PortTypeStep, PortStep
<1> QED  BY <1>1, <1>2, <1>3, PTL DEF Port!Spec
-----------------------------------------------------------------------------
(* The download. *)

\* The beacon's log fits its pages.
LogFits == first <= last + 1 /\ last + 1 - first <= Capacity

LEMMA DownShapes ==
    /\ Download!Idle \in Download!Task /\ Download!Fmt \in Download!Task /\ Download!Shot \in Download!Task
    /\ \A off \in Nat, n \in 1 .. Batch : Download!Read(off, n) \in Download!Task
    /\ \A d \in Seq(0 .. MaxSerial) : Download!Got(d) \in Download!Task
    /\ \A off, n : /\ Download!Read(off, n).at = "read"
                   /\ Download!Read(off, n).off = off /\ Download!Read(off, n).count = n
    /\ \A d : Download!Got(d).at = "got" /\ Download!Got(d).data = d
    /\ Download!Idle.at = "idle" /\ Download!Fmt.at = "fmt" /\ Download!Shot.at = "shot"
    /\ \A c \in Download!Task :
         /\ c.at \in {"idle", "fmt", "shot", "read", "got"}
         /\ c.at = "idle" => c = Download!Idle
         /\ c.at = "read" => c.off \in Nat /\ c.count \in 1 .. Batch
         /\ c.at = "got"  => c.data \in Seq(0 .. MaxSerial)
<1>1. ASSUME NEW c \in Download!Task
      PROVE  /\ c.at \in {"idle", "fmt", "shot", "read", "got"}
             /\ c.at = "idle" => c = Download!Idle
             /\ c.at = "read" => c.off \in Nat /\ c.count \in 1 .. Batch
             /\ c.at = "got"  => c.data \in Seq(0 .. MaxSerial)
  <2>1. CASE c \in {Download!Idle, Download!Fmt, Download!Shot}
    BY <2>1 DEF Download!Idle, Download!Fmt, Download!Shot
  <2>2. CASE c \in [at : {"read"}, off : Nat, count : 1 .. Batch]
    BY <2>2
  <2>3. CASE c \in [at : {"got"}, data : Seq(0 .. MaxSerial)]
    BY <2>3
  <2> QED  BY <1>1, <2>1, <2>2, <2>3 DEF Download!Task
<1>2. /\ \A off \in Nat, n \in 1 .. Batch : Download!Read(off, n) \in Download!Task
      /\ \A d \in Seq(0 .. MaxSerial) : Download!Got(d) \in Download!Task
  BY DEF Download!Read, Download!Got, Download!Task
<1> QED  BY <1>1, <1>2 DEF Download!Idle, Download!Fmt, Download!Shot, Download!Read, Download!Got,
            Download!Task

\* The next batch, or the end of the chain.
LEMMA BatchFacts ==
    ASSUME Download!TypeOK, NEW c \in Chains, NEW off \in Nat, NEW tot \in Nat, NEW rs,
           Download!NextBatch(c, off, tot, rs)
    PROVE  /\ chain' \in [Chains -> Download!Task] /\ polling' \in BOOLEAN
           /\ \A d \in Chains : d # c => chain'[d] = chain[d]
           /\ \/ /\ chain'[c] = Download!Idle /\ rows' = Download!Merge(rs)
                 /\ polling' = (polling \/ d_connected)
              \/ /\ chain'[c].at = "read" /\ chain'[c].off = off
                 /\ rows' = rows /\ polling' = polling
<1>1. CASE tot <= off
  BY <1>1, DownShapes DEF Download!NextBatch, Download!Finish, Download!TypeOK
<1>2. CASE ~(tot <= off)
  <2> DEFINE n == Download!Least(Batch, tot - off)
  <2>1. n \in 1 .. Batch
    BY <1>2, DownloadAssumption DEF Download!Least
  <2>2. Download!Read(off, n) \in Download!Task
    BY <2>1, DownShapes
  <2>3. chain' = [chain EXCEPT ![c] = Download!Read(off, n)] /\ UNCHANGED <<rows, polling>>
    BY <1>2 DEF Download!NextBatch
  <2> HIDE DEF n
  <2> QED  BY <2>2, <2>3, DownShapes DEF Download!TypeOK
<1> QED  BY <1>1, <1>2

\* The records of a reading.
LEMMA LogFacts ==
    ASSUME Download!TypeOK, LogFits, NEW off \in Nat, NEW count \in 1 .. Batch,
           NEW data \in Download!LogAt(off, count)
    PROVE  /\ data \in Seq(0 .. MaxSerial)
           /\ \E n \in 0 .. Len(data) :
                /\ \A i \in 1 .. n : data[i] = first + off + i - 1 /\ data[i] # 0
                /\ \A i \in 1 .. Len(data) : i > n => data[i] = 0
<1> DEFINE there == IF first + off <= last THEN Download!Least(count, last + 1 - (first + off)) ELSE 0
           recs  == [i \in 1 .. there |-> first + off + i - 1]
           tail  == [i \in 1 .. count - there |-> 0]
<1>1. /\ first \in Nat \ {0} /\ last \in Nat /\ last <= MaxSerial /\ MaxSerial \in Nat /\ count \in Nat
  BY DownloadAssumption DEF Download!TypeOK
<1>2. there \in Nat /\ there <= count /\ (there > 0 => first + off + there - 1 <= last)
  <2>1. CASE first + off <= last
    BY <1>1, <2>1 DEF Download!Least
  <2>2. CASE ~(first + off <= last)
    BY <1>1, <2>2
  <2> QED  BY <2>1, <2>2
<1>3. data = recs \/ data = recs \o tail
  BY DEF Download!LogAt, Download!Empty
<1> HIDE DEF there
<1>4. \A i \in 1 .. there : first + off + i - 1 \in 1 .. MaxSerial
  BY <1>1, <1>2
<1>5. /\ recs \in Seq(0 .. MaxSerial) /\ Len(recs) = there
      /\ \A i \in 1 .. there : recs[i] = first + off + i - 1 /\ recs[i] # 0
  BY <1>2, <1>4
<1>6. tail \in Seq(0 .. MaxSerial) /\ Len(tail) = count - there /\ \A i \in 1 .. Len(tail) : tail[i] = 0
  BY <1>1, <1>2
<1> HIDE DEF recs, tail
<1>7. CASE data = recs
  <2>1. there \in 0 .. Len(data) /\ \A i \in 1 .. Len(data) : ~(i > there)
    BY <1>2, <1>5, <1>7
  <2> QED  BY <1>5, <1>7, <2>1
<1>8. CASE data = recs \o tail
  <2>1. /\ data \in Seq(0 .. MaxSerial) /\ Len(data) = there + (count - there)
        /\ \A i \in 1 .. there : data[i] = recs[i]
        /\ \A i \in 1 .. Len(data) : i > there => data[i] = tail[i - there]
    BY <1>1, <1>2, <1>5, <1>6, <1>8
  <2>2. there \in 0 .. Len(data) /\ \A i \in 1 .. Len(data) : i > there => i - there \in 1 .. Len(tail)
    BY <1>1, <1>2, <1>6, <2>1
  <2>3. \A i \in 1 .. there : data[i] = first + off + i - 1 /\ data[i] # 0
    BY <1>5, <2>1
  <2>4. \A i \in 1 .. Len(data) : i > there => data[i] = 0
    BY <1>6, <2>1, <2>2
  <2> QED  BY <2>1, <2>2, <2>3, <2>4
<1> QED  BY <1>3, <1>7, <1>8

\* The records that a batch adds.
LEMMA TakenFacts ==
    ASSUME NEW data \in Seq(0 .. MaxSerial), NEW n \in 0 .. Len(data), Download!Received(data, n)
    PROVE  /\ SubSeq(data, 1, n) \in Seq(1 .. MaxSerial) /\ Len(SubSeq(data, 1, n)) = n
           /\ \A i \in 1 .. n : SubSeq(data, 1, n)[i] = data[i] /\ data[i] # 0
<1>1. Len(data) \in Nat /\ MaxSerial \in Nat
  BY DownloadAssumption
<1>2. \A i \in 1 .. n : i \in 1 .. Len(data) /\ data[i] # 0
  BY <1>1 DEF Download!Received, Download!Empty
<1>3. \A i \in 1 .. n : data[i] \in 0 .. MaxSerial
  BY <1>2, ElementFacts
<1>4. \A i \in 1 .. n : data[i] \in 1 .. MaxSerial
  BY <1>1, <1>2, <1>3
<1>5. SubSeq(data, 1, n) = [i \in 1 .. n |-> data[i]]
  <2>1. n \in Nat /\ 1 + n - 1 = n
    BY <1>1
  <2>2. SubSeq(data, 1, n) = [i \in 1 .. (1 + n - 1) |-> data[i + 1 - 1]]
    BY <1>1
  <2>3. \A i \in 1 .. n : i + 1 - 1 = i
    BY <2>1
  <2> QED  BY <2>1, <2>2, <2>3
<1>6. n \in Nat
  BY <1>1
<1>7. [i \in 1 .. n |-> data[i]] \in Seq(1 .. MaxSerial) /\ Len([i \in 1 .. n |-> data[i]]) = n
  BY <1>4, <1>6
<1> QED  BY <1>2, <1>5, <1>7

LEMMA DownTypeStep ==
    ASSUME Download!TypeOK, LogFits, [Download!Next]_(Download!vars)
    PROVE  Download!TypeOK' /\ LogFits'
<1> USE DownloadAssumption DEF Download!TypeOK
<1>1. CASE UNCHANGED Download!vars
  BY <1>1 DEF Download!vars, Download!dl, Download!log, LogFits
<1>2. ASSUME NEW c \in Chains, Download!StartDownload(c) PROVE Download!TypeOK' /\ LogFits'
  <2>1. Download!Least(stat, Capacity) \in Nat
    BY DEF Download!Least
  <2>2. polling' \in BOOLEAN /\ single' \in BOOLEAN /\ UNCHANGED <<d_connected, circular, erasing, doomed>>
    BY <1>2 DEF Download!StartDownload, Download!log
  <2>3. chain' \in [Chains -> Download!Task] /\ starts' \in 0 .. MaxStarts
    BY <1>2, DownShapes DEF Download!StartDownload
  <2>4. total' \in Nat /\ offset' \in Nat /\ retries' \in 0 .. MaxRetries /\ from' \in 0 .. MaxSerial + 1
    BY <1>2, <2>1 DEF Download!StartDownload, Download!dl
  <2>5. records' \in Seq(1 .. MaxSerial) /\ UNCHANGED <<stat, first, last>>
    <3>1. (records' = <<>> \/ records' = records) /\ UNCHANGED <<stat, first, last>>
      BY <1>2 DEF Download!StartDownload, Download!dl, Download!log
    <3>2. <<>> \in Seq(1 .. MaxSerial)
      BY ShortFacts
    <3> QED  BY <3>1, <3>2
  <2> QED  BY <2>2, <2>3, <2>4, <2>5 DEF LogFits
<1>3. ASSUME NEW c \in Chains, Download!FmtDone(c) \/ Download!ShotFires(c)
      PROVE  Download!TypeOK' /\ LogFits'
  <2>1. Download!NextBatch(c, offset, total, records)
    BY <1>3 DEF Download!FmtDone, Download!ShotFires
  <2>2. chain' \in [Chains -> Download!Task] /\ polling' \in BOOLEAN
    BY <2>1, BatchFacts
  <2> QED  BY <1>3, <2>2 DEF Download!FmtDone, Download!ShotFires, Download!log, LogFits
<1>4. ASSUME NEW c \in Chains, Download!ReadReturns(c) PROVE Download!TypeOK' /\ LogFits'
  <2>1. chain[c].off \in Nat /\ chain[c].count \in 1 .. Batch
    BY <1>4, DownShapes DEF Download!ReadReturns
  <2>2. \A data \in Download!LogAt(chain[c].off, chain[c].count) : data \in Seq(0 .. MaxSerial)
    BY <2>1, LogFacts
  <2>3. PICK data \in Seq(0 .. MaxSerial) : chain' = [chain EXCEPT ![c] = Download!Got(data)]
    BY <1>4, <2>2, ShortFacts DEF Download!ReadReturns
  <2>4. chain' \in [Chains -> Download!Task]
    BY <2>3, DownShapes
  <2> QED  BY <1>4, <2>4 DEF Download!ReadReturns, Download!dl, Download!log, LogFits
<1>5. ASSUME NEW c \in Chains, Download!NoRecords(c) PROVE Download!TypeOK' /\ LogFits'
  <2>1. chain' \in [Chains -> Download!Task]
    BY <1>5, DownShapes DEF Download!NoRecords, Download!Finish
  <2>2. polling' \in BOOLEAN
    BY <1>5 DEF Download!NoRecords, Download!Finish
  <2>3. retries' \in 0 .. MaxRetries
    BY <1>5 DEF Download!NoRecords, Download!Finish
  <2> QED  BY <1>5, <2>1, <2>2, <2>3 DEF Download!NoRecords, Download!log, LogFits
<1>6. ASSUME NEW c \in Chains, Download!SomeRecords(c) PROVE Download!TypeOK' /\ LogFits'
  <2>1. chain[c].data \in Seq(0 .. MaxSerial)
    BY <1>6, DownShapes DEF Download!SomeRecords
  <2>2. PICK n \in 0 .. Len(chain[c].data) :
            LET taken == SubSeq(chain[c].data, 1, n)
                tot   == IF n < Len(chain[c].data) THEN offset + n ELSE total
            IN  /\ Download!Received(chain[c].data, n)
                /\ records' = records \o taken
                /\ offset' = offset + n /\ total' = tot /\ retries' = 0
                /\ Download!NextBatch(c, offset + n, tot, records \o taken)
    BY <1>6 DEF Download!SomeRecords
  <2>3. SubSeq(chain[c].data, 1, n) \in Seq(1 .. MaxSerial) /\ offset' \in Nat /\ total' \in Nat
    BY <2>1, <2>2, TakenFacts
  <2>4. records' \in Seq(1 .. MaxSerial)
    BY <2>2, <2>3
  <2>5. chain' \in [Chains -> Download!Task] /\ polling' \in BOOLEAN
    BY <2>2, <2>3, BatchFacts
  <2> QED  BY SMTT(25), <1>6, <2>2, <2>3, <2>4, <2>5 DEF Download!SomeRecords, Download!log, LogFits
<1>7. ASSUME NEW c \in Chains, Download!WorkerDies(c) PROVE Download!TypeOK' /\ LogFits'
  BY <1>7, DownShapes DEF Download!WorkerDies, Download!dl, Download!log, LogFits
<1>8. CASE Download!EraseLog
  <2>1. polling' \in BOOLEAN /\ erasing' \in BOOLEAN
    BY <1>8 DEF Download!EraseLog
  <2>2. /\ UNCHANGED <<d_connected, stat, total, offset, retries, records, chain, circular, first, last,
                       doomed, single, from>>
        /\ starts' \in 0 .. MaxStarts
    BY <1>8 DEF Download!EraseLog, Download!dl, Download!log
  <2> QED  BY <2>1, <2>2 DEF LogFits
<1>9. CASE Download!EraseDone
  <2>1. polling' \in BOOLEAN /\ erasing' \in BOOLEAN /\ doomed' \in BOOLEAN /\ single' \in BOOLEAN
    BY <1>9 DEF Download!EraseDone
  <2>2. total' \in Nat /\ offset' \in Nat /\ records' \in Seq(1 .. MaxSerial)
    <3>1. records' = <<>> \/ records' = records
      BY <1>9 DEF Download!EraseDone, Download!dl
    <3>2. total' \in Nat /\ offset' \in Nat
      BY <1>9 DEF Download!EraseDone, Download!dl
    <3>3. <<>> \in Seq(1 .. MaxSerial)
      BY ShortFacts
    <3> QED  BY <3>1, <3>2, <3>3
  <2>3. UNCHANGED <<d_connected, stat, retries, chain, circular, first, last, starts, from>>
    BY <1>9 DEF Download!EraseDone, Download!dl
  <2> QED  BY <2>1, <2>2, <2>3 DEF LogFits
<1>10. CASE Download!Poll \/ Download!Disconnect \/ Download!Connect
  <2>1. polling' \in BOOLEAN /\ d_connected' \in BOOLEAN
    BY <1>10 DEF Download!Poll, Download!Disconnect, Download!Connect
  <2>2. stat' \in 0 .. Capacity
    BY <1>10 DEF Download!Poll, Download!Disconnect, Download!Connect, Download!Used, LogFits
  <2>3. UNCHANGED <<total, offset, retries, records, chain, erasing, circular, first, last, doomed,
                    starts, single, from>>
    BY <1>10 DEF Download!Poll, Download!Disconnect, Download!Connect, Download!dl, Download!log
  <2> QED  BY <2>1, <2>2, <2>3 DEF LogFits
<1>11. CASE Download!BeaconWrites
  BY <1>11 DEF Download!BeaconWrites, Download!Used, Download!dl, LogFits
<1>12. CASE Download!BeaconErases
  <2>1. doomed' \in BOOLEAN
    BY <1>12 DEF Download!BeaconErases
  <2>2. /\ first' = last + 1 /\ from' = 0
        /\ UNCHANGED <<d_connected, polling, stat, total, offset, retries, records, chain, erasing,
                       circular, last, starts, single>>
    BY <1>12 DEF Download!BeaconErases, Download!dl
  <2> QED  BY <2>1, <2>2 DEF LogFits
<1> QED  BY <1>1, <1>2, <1>3, <1>4, <1>5, <1>6, <1>7, <1>8, <1>9, <1>10, <1>11, <1>12
         DEF Download!Next, Download!ChainStep

\* A chain that ends turns the polling on again.
LEMMA PausedStep ==
    ASSUME Download!TypeOK, Download!PausedForAReason, [Download!Next]_(Download!vars)
    PROVE  Download!PausedForAReason'
<1> USE DEF Download!PausedForAReason, Download!TypeOK
<1> DEFINE Busy(d) == chain[d] # Download!Idle
<1>1. CASE UNCHANGED Download!vars
  BY <1>1 DEF Download!vars
<1>2. ASSUME NEW c \in Chains, Download!StartDownload(c) PROVE Download!PausedForAReason'
  <2>1. Download!Fmt # Download!Idle
    BY DownShapes
  <2> QED  BY <1>2, <2>1 DEF Download!StartDownload
<1>3. ASSUME NEW c \in Chains, NEW off \in Nat, NEW tot \in Nat, NEW rs,
             Download!NextBatch(c, off, tot, rs), UNCHANGED <<d_connected, erasing>>
      PROVE  Download!PausedForAReason'
  <2>1. chain'[c].at = "read" => chain'[c] # Download!Idle
    BY DownShapes
  <2> QED  BY <1>3, <2>1, BatchFacts
<1>4. ASSUME NEW c \in Chains, Download!FmtDone(c) \/ Download!ShotFires(c)
      PROVE  Download!PausedForAReason'
  BY <1>3, <1>4 DEF Download!FmtDone, Download!ShotFires
<1>5. ASSUME NEW c \in Chains, Download!ReadReturns(c) PROVE Download!PausedForAReason'
  <2>1. PICK data : chain' = [chain EXCEPT ![c] = Download!Got(data)]
    BY <1>5 DEF Download!ReadReturns
  <2>2. Download!Got(data) # Download!Idle
    BY DownShapes
  <2> QED  BY <1>5, <2>1, <2>2 DEF Download!ReadReturns
<1>6. ASSUME NEW c \in Chains, Download!NoRecords(c) PROVE Download!PausedForAReason'
  BY <1>6, DownShapes DEF Download!NoRecords, Download!Finish
<1>7. ASSUME NEW c \in Chains, Download!SomeRecords(c) PROVE Download!PausedForAReason'
  <2>1. Len(chain[c].data) \in Nat
    BY <1>7, DownShapes DEF Download!SomeRecords
  <2> QED  BY <1>3, <1>7, <2>1 DEF Download!SomeRecords
<1>8. ASSUME NEW c \in Chains, Download!WorkerDies(c) PROVE Download!PausedForAReason'
  BY <1>8 DEF Download!WorkerDies
<1>9. CASE Download!EraseLog \/ Download!EraseDone \/ Download!Poll \/ Download!Disconnect
           \/ Download!Connect \/ Download!BeaconWrites \/ Download!BeaconErases
  BY <1>9 DEF Download!EraseLog, Download!EraseDone, Download!Poll, Download!Disconnect,
     Download!Connect, Download!BeaconWrites, Download!BeaconErases
<1> QED  BY <1>1, <1>2, <1>4, <1>5, <1>6, <1>7, <1>8, <1>9 DEF Download!Next, Download!ChainStep

LEMMA InOrderFacts ==
    ASSUME NEW S \in SUBSET Nat, IsFiniteSet(S)
    PROVE  /\ Download!InOrder(S) \in [1 .. Cardinality(S) -> S]
           /\ \A i, j \in 1 .. Cardinality(S) : i < j => Download!InOrder(S)[i] < Download!InOrder(S)[j]
<1> DEFINE Q     == [1 .. Cardinality(S) -> S]
           Up(q) == \A i, j \in 1 .. Cardinality(S) : i < j => q[i] < q[j]
<1>1. \E q \in Q : Up(q)
  BY OrderFacts
<1>2. Download!InOrder(S) = CHOOSE q \in Q : Up(q)
  BY DEF Download!InOrder, Download!Cardinality, Cardinality
<1>3. Download!InOrder(S) \in Q /\ Up(Download!InOrder(S))
  <2> HIDE DEF Q, Up
  <2> QED  BY <1>1, <1>2
<1> QED  BY <1>3

\* The rows of increasing records have increasing timestamps.
LEMMA MergeClimbs ==
    ASSUME NEW s \in Seq(1 .. MaxSerial),
           \A i, j \in 1 .. Len(s) : i < j => s[i] < s[j]
    PROVE  \A i \in 1 .. Len(Download!Merge(s)) - 1 : Download!Merge(s)[i].ts < Download!Merge(s)[i + 1].ts
<1> DEFINE F == Download!Firsts(s)
           N == Cardinality(F)
           q == Download!InOrder(F)
<1>1. Len(s) \in Nat /\ F \in SUBSET (1 .. Len(s)) /\ MaxSerial \in Nat
  BY DownloadAssumption DEF Download!Firsts
<1>2. F \in SUBSET Nat /\ IsFiniteSet(F)
  <2>1. IsFiniteSet(1 .. Len(s)) /\ 1 .. Len(s) \subseteq Nat
    BY <1>1, FS_Interval
  <2> HIDE DEF F
  <2> QED  BY <1>1, <2>1, FS_Subset
<1>3. N \in Nat
  BY <1>2, OrderFacts
<1>4. q \in [1 .. N -> F] /\ \A i, j \in 1 .. N : i < j => q[i] < q[j]
  <2> HIDE DEF F
  <2> QED  BY <1>2, InOrderFacts
<1>5. \A i \in F : \A j \in 1 .. i - 1 : Download!Ts(s[j]) # Download!Ts(s[i])
  BY DEF Download!Firsts
<1>6. Download!Merge(s) = [k \in 1 .. Len(q) |->
                   [ts     |-> Download!Ts(s[q[k]]),
                    fields |-> {n \in Download!ToSet(s) : Download!Ts(n) = Download!Ts(s[q[k]])}]]
  BY DEF Download!Merge
<1> HIDE DEF F, N, q
<1>7. Len(q) = N
  BY <1>3, <1>4
<1>8. Len(Download!Merge(s)) = N /\ \A k \in 1 .. N : Download!Merge(s)[k].ts = Download!Ts(s[q[k]])
  BY <1>3, <1>6, <1>7
<1>9. ASSUME NEW i \in 1 .. N - 1
      PROVE  Download!Ts(s[q[i]]) < Download!Ts(s[q[i + 1]])
  <2>1. i \in 1 .. N /\ i + 1 \in 1 .. N /\ i < i + 1
    BY <1>3
  <2>2. q[i] \in F /\ q[i + 1] \in F /\ q[i] < q[i + 1]
    BY <1>4, <2>1
  <2>3. /\ q[i] \in 1 .. Len(s) /\ q[i + 1] \in 1 .. Len(s)
    BY <1>1, <2>2
  <2>4. q[i] \in 1 .. q[i + 1] - 1
    BY <1>1, <2>2, <2>3
  <2>5. Download!Ts(s[q[i]]) # Download!Ts(s[q[i + 1]])
    BY <1>5, <2>2, <2>4
  <2>6. s[q[i]] < s[q[i + 1]]
    BY <2>2, <2>3
  <2>7. s[q[i]] \in Nat /\ s[q[i + 1]] \in Nat
    BY <1>1, <2>3, ElementFacts
  <2> QED  BY <2>5, <2>6, <2>7 DEF Download!Ts
<1>10. \A i \in 1 .. N - 1 : i \in 1 .. N /\ i + 1 \in 1 .. N
  BY <1>3
<1> QED  BY <1>8, <1>9, <1>10

\* One chain at a time, which reads where the records end.
ChainAlone == \A c, d \in Chains : chain[c] # Download!Idle /\ chain[d] # Download!Idle => c = d
ReadsOn    == \A c \in Chains : chain[c].at = "read" => chain[c].off = offset

\* The records are increasing, none is from further on in the log than its place, and it
\* is the one of its place while nothing was erased.
Climbs(s) == \A i, j \in 1 .. Len(s) : i < j => s[i] < s[j]
TsPlaces(s) == \A i \in 1 .. Len(s) : s[i] <= first + i - 1 /\ (from # 0 => s[i] = from + i - 1)

\* A batch that has come goes on from there.
GotOn(s)  == \A i \in 1 .. Len(s) : s[i] # 0 =>
               /\ s[i] <= first + offset + i - 1
               /\ from # 0 => s[i] = from + offset + i - 1
               /\ \A j \in 1 .. i - 1 : s[j] < s[i]
               /\ \A k \in 1 .. Len(records) : records[k] < s[i]
RowsClimb == \A i \in 1 .. Len(rows) - 1 : rows[i].ts < rows[i + 1].ts
DownInv ==
    /\ offset = Len(records)
    /\ from # 0 => from = first
    /\ single => /\ ChainAlone /\ ReadsOn /\ RowsClimb
                 /\ Climbs(records) /\ TsPlaces(records)
                 /\ \A c \in Chains : chain[c].at = "got" => GotOn(chain[c].data)

\* A step that leaves the records alone and at most moves the log on.
LEMMA DownFrame ==
    ASSUME Download!TypeOK, DownInv, Download!TypeOK', single' => single, UNCHANGED <<records, offset>>,
           rows' = rows \/ rows' = Download!Merge(records),
           \/ from' = from /\ first' = first
           \/ from' = 0 /\ first <= first',
           \A d \in Chains : \/ chain'[d] = chain[d]
                             \/ chain'[d] = Download!Idle
                             \/ /\ chain[d] # Download!Idle /\ chain'[d].at # "got"
                                /\ chain'[d].at = "read" => chain'[d].off = offset
    PROVE  DownInv'
<1>1. first \in Nat /\ first' \in Nat /\ from \in Nat /\ first <= first' /\ offset \in Nat
  BY DownloadAssumption DEF Download!TypeOK
<1>2. offset' = Len(records') /\ (from' # 0 => from' = first')
  BY DEF DownInv
<1>3. ASSUME single' PROVE ChainAlone' /\ ReadsOn' /\ RowsClimb'
  <2>1. ChainAlone' /\ ReadsOn'
    BY <1>3, DownShapes DEF DownInv, ChainAlone, ReadsOn
  <2>2. RowsClimb'
    BY <1>3, MergeClimbs DEF DownInv, RowsClimb, Climbs, Download!TypeOK
  <2> QED  BY <2>1, <2>2
<1>4. ASSUME single' PROVE Climbs(records)' /\ TsPlaces(records)'
  <2>1. Climbs(records)'
    BY <1>3, <1>4 DEF DownInv, Climbs
  <2>2. \A i \in 1 .. Len(records) : records[i] \in Nat
    BY SMTT(25), DownloadAssumption, ElementFacts DEF Download!TypeOK
  <2>3. TsPlaces(records)'
    BY <1>1, <1>4, <2>2 DEF DownInv, TsPlaces
  <2> QED  BY <2>1, <2>3
<1>5. ASSUME single', NEW c \in Chains, chain'[c].at = "got" PROVE GotOn(chain[c].data)'
  <2>1. chain'[c] = chain[c] /\ GotOn(chain[c].data)
    BY <1>5, DownShapes DEF DownInv
  <2>2. chain[c].data \in Seq(0 .. MaxSerial) /\ MaxSerial \in Nat
    BY <1>5, <2>1, DownShapes, DownloadAssumption DEF Download!TypeOK
  <2>3. \A i \in 1 .. Len(chain[c].data) : chain[c].data[i] \in Nat
    BY <2>2, ElementFacts
  <2> QED  BY <1>1, <2>1, <2>3 DEF GotOn
<1> QED  BY <1>2, <1>3, <1>4, <1>5 DEF DownInv

LEMMA DownBegins ==
    ASSUME Download!TypeOK, DownInv, Download!TypeOK', NEW c \in Chains, Download!StartDownload(c)
    PROVE  DownInv'
<1>1. CASE stat = 0
  <2>1. UNCHANGED <<records, offset, rows, chain, first, from, single>>
    BY <1>1 DEF Download!StartDownload, Download!dl, Download!log
  <2> QED  BY <2>1, DownFrame
<1>2. CASE stat # 0
  <2>1. /\ records' = <<>> /\ offset' = 0 /\ from' = first /\ first' = first /\ rows' = rows
        /\ chain' = [chain EXCEPT ![c] = Download!Fmt]
        /\ single' = (single /\ \A d \in Chains : chain[d] = Download!Idle)
    BY <1>2 DEF Download!StartDownload, Download!log
  <2>2. Len(records') = 0
    BY <2>1, ShortFacts
  <2>3. single' => \A d \in Chains : d # c => chain'[d] = Download!Idle
    BY <2>1 DEF Download!TypeOK
  <2>4. chain'[c] = Download!Fmt
    BY <2>1 DEF Download!TypeOK
  <2>5. single' => ChainAlone' /\ ReadsOn' /\ \A d \in Chains : chain'[d].at # "got"
    BY <2>3, <2>4, DownShapes DEF ChainAlone, ReadsOn
  <2>6. single' => RowsClimb'
    BY <2>1 DEF DownInv, RowsClimb
  <2>7. Climbs(records)' /\ TsPlaces(records)'
    BY <2>2 DEF Climbs, TsPlaces
  <2> QED  BY <2>1, <2>2, <2>5, <2>6, <2>7 DEF DownInv
<1> QED  BY <1>1, <1>2

LEMMA DownReads ==
    ASSUME Download!TypeOK, LogFits, DownInv, Download!TypeOK', NEW c \in Chains, Download!ReadReturns(c)
    PROVE  DownInv'
<1> DEFINE off == chain[c].off
<1>1. off \in Nat /\ chain[c].count \in 1 .. Batch /\ chain[c] # Download!Idle
  BY DownShapes DEF Download!ReadReturns, Download!TypeOK
<1>2. PICK data \in {<<>>} \cup Download!LogAt(off, chain[c].count) :
             chain' = [chain EXCEPT ![c] = Download!Got(data)]
  BY DEF Download!ReadReturns
<1>3. UNCHANGED <<records, offset, rows, first, from, single>>
  BY DEF Download!ReadReturns, Download!dl, Download!log
<1>4. chain'[c] = Download!Got(data) /\ \A d \in Chains : d # c => chain'[d] = chain[d]
  BY <1>2 DEF Download!TypeOK
<1>5. chain'[c].at = "got" /\ chain'[c].data = data
  BY <1>4, DownShapes
<1>6. PICK n \in 0 .. Len(data) : /\ \A i \in 1 .. n : data[i] = first + off + i - 1 /\ data[i] # 0
                                  /\ \A i \in 1 .. Len(data) : i > n => data[i] = 0
  <2>1. CASE data = <<>>
    BY <2>1, ShortFacts
  <2>2. CASE data \in Download!LogAt(off, chain[c].count)
    BY <1>1, <2>2, LogFacts
  <2> QED  BY <1>2, <2>1, <2>2
<1>7. Len(data) \in Nat
  <2>1. data \in Seq(0 .. MaxSerial)
    BY <1>1, <1>2, LogFacts, ShortFacts
  <2> QED  BY <2>1
<1>8. first \in Nat \ {0} /\ offset \in Nat /\ Len(records) \in Nat /\ \A k \in 1 .. Len(records) : records[k] \in Nat
  <2>1. records \in Seq(1 .. MaxSerial) /\ MaxSerial \in Nat
    BY DownloadAssumption DEF Download!TypeOK
  <2>2. \A k \in 1 .. Len(records) : records[k] \in 1 .. MaxSerial
    BY <2>1, ElementFacts
  <2> QED  BY SMTT(25), <2>1, <2>2, DownloadAssumption DEF Download!TypeOK
<1>9. ASSUME single PROVE GotOn(data)'
  <2>1. off = offset /\ offset = Len(records) /\ Climbs(records) /\ TsPlaces(records) /\ (from # 0 => from = first)
    BY <1>9 DEF DownInv, ReadsOn, Download!ReadReturns
  <2>2. SUFFICES ASSUME NEW i \in 1 .. Len(data), data[i] # 0
                 PROVE  /\ data[i] <= first + offset + i - 1
                        /\ from # 0 => data[i] = from + offset + i - 1
                        /\ \A j \in 1 .. i - 1 : data[j] < data[i]
                        /\ \A k \in 1 .. Len(records) : records[k] < data[i]
    BY <1>3 DEF GotOn
  <2>3. i \in 1 .. n /\ data[i] = first + offset + i - 1
    BY <1>6, <1>7, <2>1, <2>2
  <2>4. \A j \in 1 .. i - 1 : data[j] < data[i]
    <3>1. TAKE j \in 1 .. i - 1
    <3>2. j \in 1 .. n /\ data[j] = first + offset + j - 1
      BY <1>6, <1>7, <2>1, <2>3
    <3> QED  BY <1>7, <1>8, <2>3, <3>2
  <2>5. \A k \in 1 .. Len(records) : records[k] < data[i]
    <3>1. TAKE k \in 1 .. Len(records)
    <3>2. records[k] <= first + k - 1 /\ k <= offset /\ records[k] \in Nat
      BY <1>8, <2>1 DEF TsPlaces
    <3> QED  BY <1>7, <1>8, <2>3, <3>2
  <2> QED  BY <1>8, <2>1, <2>3, <2>4, <2>5
<1>10. ASSUME single' PROVE ChainAlone' /\ ReadsOn' /\ RowsClimb'
  BY <1>1, <1>3, <1>4, <1>5, <1>10 DEF DownInv, ChainAlone, ReadsOn, RowsClimb
<1>11. ASSUME single' PROVE Climbs(records)' /\ TsPlaces(records)'
  BY <1>3, <1>11 DEF DownInv, Climbs, TsPlaces
<1>12. ASSUME single', NEW d \in Chains, chain'[d].at = "got" PROVE GotOn(chain[d].data)'
  <2>1. CASE d = c
    BY <1>3, <1>5, <1>9, <1>12, <2>1 DEF GotOn
  <2>2. CASE d # c
    BY <1>3, <1>4, <1>12, <2>2 DEF DownInv, GotOn
  <2> QED  BY <2>1, <2>2
<1> QED  BY <1>3, <1>10, <1>11, <1>12 DEF DownInv

LEMMA DownTakes ==
    ASSUME Download!TypeOK, DownInv, Download!TypeOK', NEW c \in Chains, Download!SomeRecords(c)
    PROVE  DownInv'
<1>1. PICK data : data = chain[c].data
  OBVIOUS
<1>2. data \in Seq(0 .. MaxSerial) /\ Len(data) \in Nat /\ chain[c] # Download!Idle /\ chain[c].at = "got"
  <2>1. chain[c] \in Download!Task /\ chain[c].at = "got"
    BY DEF Download!SomeRecords, Download!TypeOK
  <2>2. data \in Seq(0 .. MaxSerial) /\ chain[c] # Download!Idle
    BY <1>1, <2>1, DownShapes
  <2> QED  BY <2>1, <2>2
<1>3. PICK n \in 0 .. Len(data) :
            LET tot == IF n < Len(data) THEN offset + n ELSE total
            IN  /\ Download!Received(data, n)
                /\ records' = records \o SubSeq(data, 1, n)
                /\ offset' = offset + n /\ total' = tot
                /\ Download!NextBatch(c, offset + n, tot, records \o SubSeq(data, 1, n))
  BY <1>1 DEF Download!SomeRecords
<1>4. PICK taken : taken = SubSeq(data, 1, n)
  OBVIOUS
<1>5. /\ taken \in Seq(1 .. MaxSerial) /\ Len(taken) = n /\ n \in Nat
      /\ \A i \in 1 .. n : taken[i] = data[i] /\ data[i] # 0
  BY <1>2, <1>3, <1>4, TakenFacts
<1>6. PICK len : len = Len(records)
  OBVIOUS
<1>7. /\ len \in Nat /\ offset \in Nat /\ first \in Nat /\ records \in Seq(1 .. MaxSerial) /\ len = offset
      /\ \A k \in 1 .. len : records[k] \in Nat
      /\ \A k \in 1 .. n : taken[k] \in Nat
  <2>1. /\ len \in Nat /\ offset \in Nat /\ first \in Nat /\ records \in Seq(1 .. MaxSerial) /\ len = offset
        /\ MaxSerial \in Nat
    BY <1>6, DownloadAssumption DEF Download!TypeOK, DownInv
  <2>2. \A k \in 1 .. len : records[k] \in 1 .. MaxSerial
    BY <1>6, <2>1, ElementFacts
  <2>3. \A k \in 1 .. n : taken[k] \in 1 .. MaxSerial
    BY <1>5, ElementFacts
  <2> QED  BY <2>1, <2>2, <2>3
<1>8. records' = records \o taken
  BY <1>3, <1>4
<1>9. /\ Len(records') = len + n /\ offset' = len + n
      /\ \A i \in 1 .. len : records'[i] = records[i]
      /\ \A i \in len + 1 .. len + n : records'[i] = taken[i - len]
  <2>1. /\ Len(records \o taken) = len + n
        /\ \A i \in 1 .. len : (records \o taken)[i] = records[i]
        /\ \A i \in len + 1 .. len + n : (records \o taken)[i] = taken[i - len]
    <3>1. records \in Seq(1 .. MaxSerial) /\ taken \in Seq(1 .. MaxSerial)
      BY <1>5, <1>7
    <3>2. /\ Len(records \o taken) = Len(records) + Len(taken)
          /\ \A i \in 1 .. Len(records) : (records \o taken)[i] = records[i]
          /\ \A i \in Len(records) + 1 .. Len(records) + Len(taken) : (records \o taken)[i] = taken[i - Len(records)]
      BY <3>1, ConcatFacts
    <3> QED  BY <1>5, <1>6, <3>2
  <2>2. offset' = len + n
    BY <1>3, <1>7
  <2> QED  BY <1>8, <2>1, <2>2
<1>10. UNCHANGED <<first, from, single>>
  BY DEF Download!SomeRecords, Download!log
<1>11. /\ \A d \in Chains : d # c => chain'[d] = chain[d]
       /\ \/ chain'[c] = Download!Idle /\ rows' = Download!Merge(records')
          \/ chain'[c].at = "read" /\ chain'[c].off = offset' /\ rows' = rows
  <2>1. offset' \in Nat /\ total' \in Nat
    BY DEF Download!TypeOK
  <2>2. Download!NextBatch(c, offset', total', records')
    BY <1>3
  <2> QED  BY <2>1, <2>2, BatchFacts
<1>12. ASSUME single'
       PROVE  /\ Climbs(records) /\ TsPlaces(records) /\ ChainAlone /\ ReadsOn /\ RowsClimb
              /\ \A i \in 1 .. n : /\ taken[i] <= first + len + i - 1
                                   /\ from # 0 => taken[i] = from + len + i - 1
                                   /\ \A j \in 1 .. i - 1 : taken[j] < taken[i]
                                   /\ \A k \in 1 .. len : records[k] < taken[i]
  <2>1. Climbs(records) /\ TsPlaces(records) /\ ChainAlone /\ ReadsOn /\ RowsClimb /\ GotOn(data)
    BY <1>1, <1>2, <1>10, <1>12 DEF DownInv
  <2>2. ASSUME NEW i \in 1 .. n
        PROVE  /\ taken[i] <= first + len + i - 1
               /\ from # 0 => taken[i] = from + len + i - 1
               /\ \A j \in 1 .. i - 1 : taken[j] < taken[i]
               /\ \A k \in 1 .. len : records[k] < taken[i]
    <3>1. i \in 1 .. Len(data) /\ data[i] # 0 /\ taken[i] = data[i]
      BY <1>2, <1>5
    <3>2. \A j \in 1 .. i - 1 : taken[j] = data[j]
      BY <1>2, <1>5
    <3> QED  BY <1>6, <1>7, <2>1, <3>1, <3>2 DEF GotOn
  <2> QED  BY <2>1, <2>2
<1>13. ASSUME single' PROVE Climbs(records)'
  <2>1. SUFFICES ASSUME NEW i \in 1 .. len + n, NEW j \in 1 .. len + n, i < j PROVE records'[i] < records'[j]
    BY <1>9 DEF Climbs
  <2>2. CASE j <= len
    <3>1. i \in 1 .. len /\ j \in 1 .. len
      BY <1>5, <1>7, <2>1, <2>2
    <3> QED  BY <1>6, <1>9, <1>12, <1>13, <2>1, <3>1 DEF Climbs
  <2>3. CASE i <= len /\ j > len
    <3>1. i \in 1 .. len /\ j \in len + 1 .. len + n /\ j - len \in 1 .. n
      BY <1>5, <1>7, <2>1, <2>3
    <3> QED  BY <1>9, <1>12, <1>13, <3>1
  <2>4. CASE i > len
    <3>1. /\ i \in len + 1 .. len + n /\ j \in len + 1 .. len + n
          /\ j - len \in 1 .. n /\ i - len \in 1 .. (j - len) - 1
      BY <1>5, <1>7, <2>1, <2>4
    <3> QED  BY <1>9, <1>12, <1>13, <3>1
  <2> QED  BY <1>5, <1>7, <2>2, <2>3, <2>4
<1>14. ASSUME single' PROVE TsPlaces(records)'
  <2>1. SUFFICES ASSUME NEW i \in 1 .. len + n
                 PROVE  records'[i] <= first + i - 1 /\ (from # 0 => records'[i] = from + i - 1)
    BY <1>9, <1>10 DEF TsPlaces
  <2>2. CASE i <= len
    <3>1. i \in 1 .. len
      BY <1>5, <1>7, <2>1, <2>2
    <3> QED  BY <1>6, <1>9, <1>12, <1>14, <3>1 DEF TsPlaces
  <2>3. CASE i > len
    <3>1. i \in len + 1 .. len + n /\ i - len \in 1 .. n /\ len + (i - len) - 1 = i - 1
      BY <1>5, <1>7, <2>1, <2>3
    <3>2. from \in Nat
      BY DownloadAssumption DEF Download!TypeOK
    <3>3. first + len + (i - len) - 1 = first + i - 1 /\ from + len + (i - len) - 1 = from + i - 1
      BY <1>7, <3>1, <3>2
    <3> QED  BY <1>9, <1>12, <1>14, <3>1, <3>3
  <2> QED  BY <1>5, <1>7, <2>2, <2>3
<1>15. ASSUME single' PROVE ChainAlone' /\ ReadsOn' /\ \A d \in Chains : chain'[d].at # "got"
  <2>1. \A d \in Chains : d # c => chain'[d] = Download!Idle
    BY <1>2, <1>11, <1>12, <1>15 DEF ChainAlone
  <2> QED  BY <1>11, <2>1, DownShapes DEF ChainAlone, ReadsOn
<1>16. ASSUME single' PROVE RowsClimb'
  <2>1. CASE rows' = rows
    BY <1>12, <1>16, <2>1 DEF RowsClimb
  <2>2. CASE rows' = Download!Merge(records')
    <3>1. records' \in Seq(1 .. MaxSerial) /\ \A i, j \in 1 .. Len(records') : i < j => records'[i] < records'[j]
      BY <1>13, <1>16 DEF Climbs, Download!TypeOK
    <3> QED  BY <2>2, <3>1, MergeClimbs DEF RowsClimb
  <2> QED  BY <1>11, <2>1, <2>2
<1>17. offset' = Len(records') /\ (from' # 0 => from' = first')
  BY <1>9, <1>10 DEF DownInv
<1> QED  BY <1>13, <1>14, <1>15, <1>16, <1>17 DEF DownInv

LEMMA DownStep ==
    ASSUME Download!TypeOK, LogFits, DownInv, [Download!Next]_(Download!vars)
    PROVE  DownInv'
<1>1. Download!TypeOK'
  BY DownTypeStep
<1>2. CASE UNCHANGED Download!vars
  BY <1>1, <1>2, DownFrame DEF Download!vars, Download!dl, Download!log
<1>3. ASSUME NEW c \in Chains, NEW off \in Nat, NEW tot \in Nat, chain[c] # Download!Idle,
             Download!NextBatch(c, off, tot, records), off = offset,
             UNCHANGED <<records, offset, first, from, single>>
      PROVE  DownInv'
  <2>1. /\ \A d \in Chains : d # c => chain'[d] = chain[d]
        /\ \/ chain'[c] = Download!Idle /\ rows' = Download!Merge(records)
           \/ chain'[c].at = "read" /\ chain'[c].off = offset /\ rows' = rows
    BY <1>3, BatchFacts
  <2> QED  BY <1>1, <1>3, <2>1, DownFrame
<1>4. ASSUME NEW c \in Chains, Download!FmtDone(c) \/ Download!ShotFires(c) PROVE DownInv'
  <2>1. chain[c] # Download!Idle /\ offset \in Nat /\ total \in Nat
    BY <1>4, DownShapes DEF Download!FmtDone, Download!ShotFires, Download!TypeOK
  <2>2. Download!NextBatch(c, offset, total, records) /\ UNCHANGED <<records, offset, first, from, single>>
    BY <1>4 DEF Download!FmtDone, Download!ShotFires, Download!log
  <2> QED  BY <1>3, <2>1, <2>2
<1>5. ASSUME NEW c \in Chains, Download!NoRecords(c) PROVE DownInv'
  <2>1. chain[c] # Download!Idle /\ Download!Shot.at = "shot"
    BY <1>5, DownShapes DEF Download!NoRecords
  <2>2. UNCHANGED <<records, offset, first, from, single>> /\ (rows' = rows \/ rows' = Download!Merge(records))
    BY <1>5 DEF Download!NoRecords, Download!Finish, Download!log
  <2>3. \/ chain' = [chain EXCEPT ![c] = Download!Idle]
        \/ chain' = [chain EXCEPT ![c] = Download!Shot]
    BY <1>5 DEF Download!NoRecords, Download!Finish
  <2>4. \A d \in Chains : chain'[d] = chain[d] \/ (d = c /\ chain'[d] \in {Download!Idle, Download!Shot})
    BY <2>3 DEF Download!TypeOK
  <2> QED  BY <1>1, <2>1, <2>2, <2>4, DownFrame
<1>6. ASSUME NEW c \in Chains, Download!WorkerDies(c) PROVE DownInv'
  <2>1. /\ UNCHANGED <<records, offset, first, from, single, rows>>
        /\ chain' = [chain EXCEPT ![c] = Download!Idle]
    BY <1>6 DEF Download!WorkerDies, Download!dl, Download!log
  <2>2. \A d \in Chains : chain'[d] = chain[d] \/ chain'[d] = Download!Idle
    BY <2>1 DEF Download!TypeOK
  <2> QED  BY <1>1, <2>1, <2>2, DownFrame
<1>7. CASE Download!EraseLog \/ Download!Poll \/ Download!Disconnect \/ Download!Connect
  <2>1. UNCHANGED <<records, offset, first, from, single, rows, chain>>
    BY <1>7 DEF Download!EraseLog, Download!Poll, Download!Disconnect, Download!Connect, Download!dl,
       Download!log
  <2> QED  BY <1>1, <2>1, DownFrame
<1>8. CASE Download!EraseDone
  <2>1. UNCHANGED <<first, from, chain>>
    BY <1>8 DEF Download!EraseDone
  <2>2. CASE UNCHANGED <<Download!dl, single>>
    BY <1>1, <2>1, <2>2, DownFrame DEF Download!dl
  <2>3. CASE /\ records' = <<>> /\ rows' = <<>> /\ offset' = 0
             /\ single' = (single /\ \A c \in Chains : chain[c] = Download!Idle)
    <3>1. Len(records') = 0 /\ Len(rows') = 0
      BY <2>3, ShortFacts
    <3>2. single' => \A c \in Chains : chain'[c] = Download!Idle
      BY <2>1, <2>3
    <3>3. single' => ChainAlone' /\ ReadsOn' /\ \A c \in Chains : chain'[c].at # "got"
      BY <3>2, DownShapes DEF ChainAlone, ReadsOn
    <3>4. Climbs(records)' /\ TsPlaces(records)' /\ RowsClimb'
      BY <3>1 DEF Climbs, TsPlaces, RowsClimb
    <3> QED  BY <2>1, <2>3, <3>1, <3>3, <3>4 DEF DownInv
  <2> QED  BY <1>8, <2>2, <2>3 DEF Download!EraseDone
<1>9. CASE Download!BeaconWrites \/ Download!BeaconErases
  <2>1. UNCHANGED <<records, offset, single, rows, chain>>
    BY <1>9 DEF Download!BeaconWrites, Download!BeaconErases, Download!dl
  <2>2. \/ from' = from /\ first' = first
        \/ from' = 0 /\ first <= first'
    BY <1>9, DownloadAssumption DEF Download!BeaconWrites, Download!BeaconErases, Download!TypeOK, LogFits
  <2> QED  BY <1>1, <2>1, <2>2, DownFrame
<1> QED  BY <1>1, <1>2, <1>4, <1>5, <1>6, <1>7, <1>8, <1>9, DownBegins, DownReads, DownTakes
         DEF Download!Next, Download!ChainStep

LEMMA DownStart ==
    ASSUME Download!Init
    PROVE  Download!TypeOK /\ LogFits /\ Download!PausedForAReason /\ DownInv
<1>1. records \in Seq(1 .. MaxSerial) /\ chain \in [Chains -> Download!Task]
  BY ShortFacts, DownShapes DEF Download!Init
<1>2. /\ d_connected \in BOOLEAN /\ polling \in BOOLEAN /\ circular \in BOOLEAN
      /\ erasing \in BOOLEAN /\ doomed \in BOOLEAN /\ single \in BOOLEAN
  BY DEF Download!Init
<1>3. /\ stat = Capacity /\ total = 0 /\ offset = 0 /\ retries = 0 /\ first = 1 /\ last = 1 /\ starts = 0
      /\ from = 0 /\ polling
  BY DEF Download!Init
<1>4. MaxSerial \in Nat /\ 1 <= MaxSerial /\ Capacity \in Nat /\ 1 <= Capacity /\ MaxRetries \in Nat
  BY DownloadAssumption
<1>5. Download!TypeOK /\ LogFits /\ Download!PausedForAReason
  BY <1>1, <1>2, <1>3, <1>4, DownloadAssumption DEF Download!TypeOK, LogFits, Download!PausedForAReason
<1>6. /\ Len(records) = 0 /\ Len(rows) = 0 /\ offset = 0 /\ from = 0
      /\ \A c \in Chains : chain[c] = Download!Idle
  BY ShortFacts DEF Download!Init
<1>7. DownInv
  BY <1>6, DownShapes DEF DownInv, ChainAlone, ReadsOn, RowsClimb, Climbs, TsPlaces
<1> QED  BY <1>5, <1>7

LEMMA DownKeeps ==
    Download!Spec => [](Download!TypeOK /\ Download!PausedForAReason /\ Download!DownloadExact)
<1>1. ASSUME Download!TypeOK, DownInv PROVE Download!DownloadExact
  <2>1. Len(records) \in Nat
    BY <1>1 DEF Download!TypeOK
  <2>2. SUFFICES ASSUME single
                 PROVE  /\ \A i \in 1 .. Len(records) - 1 : records[i] < records[i + 1]
                        /\ from # 0 => \A i \in 1 .. Len(records) : records[i] = from + i - 1
                        /\ \A i \in 1 .. Len(rows) - 1 : rows[i].ts < rows[i + 1].ts
    BY DEF Download!DownloadExact
  <2>3. \A i \in 1 .. Len(records) - 1 : i \in 1 .. Len(records) /\ i + 1 \in 1 .. Len(records) /\ i < i + 1
    BY <2>1
  <2> QED  BY <1>1, <2>2, <2>3 DEF DownInv, Climbs, TsPlaces, RowsClimb
<1> DEFINE Kept == Download!TypeOK /\ LogFits /\ Download!PausedForAReason /\ DownInv
<1>2. Download!Init => Kept
  BY DownStart
<1>3. Kept /\ [Download!Next]_(Download!vars) => Kept'
  BY DownTypeStep, PausedStep, DownStep
<1>4. Kept => Download!TypeOK /\ Download!PausedForAReason /\ Download!DownloadExact
  BY <1>1
<1> QED  BY <1>2, <1>3, <1>4, PTL DEF Download!Spec
-----------------------------------------------------------------------------
(* The command queue. *)

Busy == current # Queue!NoCmd

\* What waits is a setting or the save of the program.
QueueShape ==
    /\ q_timer => Busy
    /\ \A i \in 1 .. Len(queue) : queue[i] \in {"mode", "hours", "save"}
    /\ Busy => current.cmd # "hwsave"
    /\ \A k \in 1 .. Len(wire) : wire[k].n \in 1 .. sends

\* While no other command has its tag, a line with the tag says that the current command was
\* executed, and an automatic saving after that line that it was saved.
QueueOwn == Busy /\ current.clear =>
    /\ Queue!Ack(current.cmd) \in {"mode", "saved OK"}
    /\ \A k \in 1 .. Len(wire) : Queue!Ack(wire[k].cmd) = Queue!Ack(current.cmd) =>
            wire[k].n = current.n /\ wire[k].cmd = current.cmd
    /\ \A k \in 1 .. Len(lines) : lines[k] = Queue!Ack(current.cmd) =>
            /\ current.n \in executed
            /\ current.cmd = "save" => current.n \in saved
            /\ \A m \in k + 1 .. Len(lines) : lines[m] = Queue!Autosaved => current.n \in saved

\* The latest result in RAM is in flash once the beacon has said that it saved.
QueueRam == ramIdx # 0 =>
    /\ ramIdx \in 1 .. Len(results) /\ results[ramIdx].status = "ram"
    /\ results[ramIdx].clear =>
         \A k \in 1 .. Len(lines) : lines[k] = Queue!Autosaved => results[ramIdx].n \in saved

Line     == {"ERR", "auto-saved", "sched", "saved OK", "mode"}
Order    == [cmd : Queue!Cmd, n : 1 .. MaxSends]
Reported == [status : {"ram", "flash", "failed", "TIMEOUT"}, cmd : Queue!Cmd, n : 1 .. MaxSends,
             clear : BOOLEAN]

LEMMA QueueShapes ==
    /\ Queue!Cmd = {"mode", "hours", "save", "hwsave", "reset"}
    /\ \A c \in Queue!Cmd : Queue!Ack(c) = (CASE c = "hours" -> "sched" [] c = "mode" -> "mode"
                                              [] c = "reset" -> "" [] OTHER -> "saved OK")
    /\ Queue!NoCmd \notin Queue!InFlight
    /\ \A f \in Queue!InFlight : f.cmd \in Queue!Cmd /\ f.n \in 1 .. MaxSends /\ f.clear \in BOOLEAN
    /\ Queue!Autosaved = "auto-saved" /\ Queue!Inactive = "sched"
<1>1. Queue!ToSet(<<"mode", "hours", "save">>) = {"mode", "hours", "save"}
  BY DEF Queue!ToSet
<1>2. Queue!Cmd = {"mode", "hours", "save", "hwsave", "reset"}
  BY <1>1 DEF Queue!Cmd, Queue!SaveCmds, Queue!Single
<1>3. \A c \in Queue!Cmd : Queue!Ack(c) = (CASE c = "hours" -> "sched" [] c = "mode" -> "mode"
                                              [] c = "reset" -> "" [] OTHER -> "saved OK")
  BY <1>2 DEF Queue!Ack
<1>4. Queue!NoCmd.cmd = "none" /\ \A f \in Queue!InFlight : f.cmd \in Queue!Cmd
  BY DEF Queue!NoCmd, Queue!InFlight
<1>5. Queue!NoCmd \notin Queue!InFlight
  BY <1>2, <1>4
<1> QED  BY <1>2, <1>3, <1>5 DEF Queue!InFlight, Queue!Autosaved, Queue!Inactive

\* A sequence from which nothing but its head was taken.
LinesLeft == /\ lines' \in Seq(Line)
             /\ \A k \in 1 .. Len(lines') : \E j \in 1 .. Len(lines) : lines'[k] = lines[j]

\* What a step that sends the next command, if any, leaves.
QueueMoved ==
    /\ current' \in Queue!InFlight \cup {Queue!NoCmd} /\ queue' \in Seq(Queue!Cmd)
    /\ q_timer' \in BOOLEAN /\ polls' \in BOOLEAN /\ wire' \in Seq(Order)
    /\ sends' \in sends .. MaxSends
    /\ QueueShape' /\ QueueOwn'

LEMMA QueueSends ==
    ASSUME Queue!TypeOK, QueueShape, LinesLeft, NEW c \in {"mode", "hours", "save", "reset"},
           NEW todo \in Seq(Queue!Cmd), \A i \in 1 .. Len(todo) : todo[i] \in {"mode", "hours", "save"},
           NEW h \in BOOLEAN, Queue!Send(c, todo, h)
    PROVE  QueueMoved
<1>1. /\ c \in Queue!Cmd /\ sends \in Nat /\ MaxSends \in Nat /\ sends + 1 \in 1 .. MaxSends /\ sends' = sends + 1
      /\ queue' = todo /\ wire \in Seq(Order)
  <2>1. c \in Queue!Cmd /\ MaxSends \in Nat
    BY QueueShapes, QueueAssumption
  <2>2. sends \in 0 .. MaxSends /\ wire \in Seq(Order)
    BY DEF Queue!TypeOK, Order
  <2>3. sends < MaxSends /\ sends' = sends + 1 /\ queue' = todo
    BY DEF Queue!Send, Queue!Transmit
  <2> QED  BY <2>1, <2>2, <2>3
<1>2. PICK clear \in BOOLEAN : clear = Queue!Clear(c)
  BY DEF Queue!Clear
<1>3. current' = [cmd |-> c, n |-> sends + 1, clear |-> clear]
  BY <1>2 DEF Queue!Send
<1>4. /\ current' \in Queue!InFlight /\ current'.cmd = c /\ current'.n = sends + 1 /\ current'.clear = clear
      /\ Busy'
  <2>1. current' \in Queue!InFlight
    BY <1>1, <1>3 DEF Queue!InFlight
  <2> QED  BY <1>3, <2>1, QueueShapes DEF Busy
<1>5. q_timer' \in BOOLEAN /\ polls' \in BOOLEAN
  BY DEF Queue!Send, Queue!TypeOK
<1>6. PICK e \in Order : e = [cmd |-> c, n |-> sends + 1]
  BY <1>1 DEF Order
<1>7. e.cmd = c /\ e.n = sends + 1
  BY <1>6
<1>8. wire' = wire \/ wire' = Append(wire, e)
  BY <1>6 DEF Queue!Send, Queue!Transmit
<1>9. /\ wire' \in Seq(Order)
      /\ \A k \in 1 .. Len(wire') : \/ wire'[k] = e
                                    \/ \E j \in 1 .. Len(wire) : wire'[k] = wire[j]
  <2>1. CASE wire' = wire
    BY <1>1, <2>1
  <2>2. CASE wire' = Append(wire, e)
    <3>1. /\ wire' \in Seq(Order) /\ Len(wire') = Len(wire) + 1 /\ Len(wire) \in Nat /\ wire'[Len(wire) + 1] = e
          /\ \A i \in 1 .. Len(wire) : wire'[i] = wire[i]
      BY <1>1, <2>2, AppendFacts
    <3>2. \A k \in 1 .. Len(wire') : k \in 1 .. Len(wire) \/ k = Len(wire) + 1
      BY <3>1
    <3> QED  BY <3>1, <3>2
  <2> QED  BY <1>8, <2>1, <2>2
<1>10. QueueShape'
  <2>1. \A k \in 1 .. Len(wire') : wire'[k].n \in 1 .. sends'
    BY <1>1, <1>7, <1>9 DEF QueueShape
  <2> QED  BY <1>1, <1>4, <2>1 DEF QueueShape
<1>11. ASSUME clear PROVE QueueOwn'
  <2>1. /\ Queue!Ack(c) \notin {"", "sched"}
        /\ \A k \in 1 .. Len(wire)  : Queue!Ack(wire[k].cmd) # Queue!Ack(c)
        /\ \A k \in 1 .. Len(lines) : lines[k] # Queue!Ack(c)
    BY <1>2, <1>11 DEF Queue!Clear
  <2>2. Queue!Ack(c) \in {"mode", "saved OK"}
    BY <1>1, <2>1, QueueShapes
  <2>3. \A k \in 1 .. Len(wire') : Queue!Ack(wire'[k].cmd) = Queue!Ack(c) => wire'[k] = e
    BY <1>9, <2>1
  <2>4. \A k \in 1 .. Len(lines') : lines'[k] # Queue!Ack(c)
    BY <2>1 DEF LinesLeft
  <2>5. \A k \in 1 .. Len(wire') : Queue!Ack(wire'[k].cmd) = Queue!Ack(c) =>
            wire'[k].n = current'.n /\ wire'[k].cmd = current'.cmd
    BY <1>4, <1>7, <2>3
  <2> QED  BY <1>4, <2>2, <2>4, <2>5 DEF QueueOwn
<1>12. ASSUME ~clear PROVE QueueOwn'
  <2>1. ~current'.clear
    BY <1>4, <1>12
  <2> QED  BY <2>1 DEF QueueOwn
<1>13. sends' \in sends .. MaxSends
  BY <1>1
<1> QED  BY <1>1, <1>4, <1>5, <1>9, <1>10, <1>11, <1>12, <1>13 DEF QueueMoved

\* A run, and the next command or the end of the run.
LEMMA QueueRuns ==
    ASSUME Queue!TypeOK, QueueShape, LinesLeft, NEW h \in BOOLEAN,
           NEW cmds \in {Queue!SaveCmds, Queue!ProfileCmds, <<"reset">>},
           NEW done \in {"none", "save", "report"}, Queue!Run(cmds, done, h)
    PROVE  QueueMoved /\ results' = <<>> /\ ramIdx' = 0 /\ onDone' \in {"none", "save", "report"}
<1>1. /\ Head(cmds) \in {"mode", "hours", "save", "reset"} /\ Tail(cmds) \in Seq({"mode", "hours", "save"})
  <2>1. CASE cmds = <<"reset">>
    BY <2>1
  <2>2. CASE cmds = <<"mode", "hours", "save">>
    <3>1. cmds \in Seq({"mode", "hours", "save"}) /\ cmds # <<>>
      BY <2>2
    <3> QED  BY <3>1, TailFacts
  <2>3. CASE cmds = <<"mode", "hours">>
    <3>1. cmds \in Seq({"mode", "hours", "save"}) /\ cmds # <<>>
      BY <2>3
    <3> QED  BY <3>1, TailFacts
  <2> QED  BY <2>1, <2>2, <2>3 DEF Queue!SaveCmds, Queue!ProfileCmds
<1>2. /\ Tail(cmds) \in Seq(Queue!Cmd)
      /\ \A i \in 1 .. Len(Tail(cmds)) : Tail(cmds)[i] \in {"mode", "hours", "save"}
  <2>1. {"mode", "hours", "save"} \subseteq Queue!Cmd
    BY QueueShapes
  <2>2. \A i \in 1 .. Len(Tail(cmds)) : Tail(cmds)[i] \in {"mode", "hours", "save"}
    BY <1>1, ElementFacts
  <2> QED  BY <1>1, <2>1, <2>2
<1> QED  BY <1>1, <1>2, QueueSends DEF Queue!Run

LEMMA QueueNext ==
    ASSUME Queue!TypeOK, QueueShape, LinesLeft, NEW h \in BOOLEAN, NEW rs, NEW idx, Queue!SendNext(rs, idx, h)
    PROVE  /\ QueueMoved /\ onDone' \in {"none", "save", "report"}
           /\ \/ results' = rs /\ ramIdx' = idx
              \/ results' = <<>> /\ ramIdx' = 0
<1>1. CASE queue # <<>>
  <2>1. /\ Head(queue) \in {"mode", "hours", "save"} /\ Tail(queue) \in Seq(Queue!Cmd)
        /\ \A i \in 1 .. Len(Tail(queue)) : Tail(queue)[i] \in {"mode", "hours", "save"}
    BY <1>1, TailFacts DEF Queue!TypeOK, QueueShape
  <2> QED  BY <1>1, <2>1, QueueSends DEF Queue!SendNext, Queue!TypeOK
<1>2. CASE queue = <<>> /\ Queue!Run(<<"reset">>, "none", h)
  BY <1>2, QueueRuns
<1>3. CASE /\ results' = rs /\ ramIdx' = idx /\ q_timer' = FALSE /\ current' = Queue!NoCmd
           /\ UNCHANGED <<queue, onDone, polls, wire, sends>>
  <2>1. sends' \in sends .. MaxSends
    <3>1. sends' = sends /\ sends \in 0 .. MaxSends /\ MaxSends \in Nat
      BY <1>3, QueueAssumption DEF Queue!TypeOK
    <3> QED  BY <3>1
  <2>2. QueueShape' /\ QueueOwn'
    BY <1>3 DEF QueueShape, QueueOwn, Busy
  <2> QED  BY <1>3, <2>1, <2>2 DEF QueueMoved, Queue!TypeOK, Order
<1> QED  BY <1>1, <1>2, <1>3 DEF Queue!SendNext

QueueInv == QueueShape /\ QueueOwn /\ QueueRam /\ Queue!ReportIsTrue

\* A step of the beacon, or of the port: it may print a line.
LEMMA QueueBeacon ==
    ASSUME Queue!TypeOK, QueueInv, open' \in BOOLEAN, q_pending' \in BOOLEAN,
           UNCHANGED <<queue, current, results, ramIdx, q_timer, onDone, polls, sends>>,
           executed \subseteq executed', saved \subseteq saved',
           executed' \subseteq 1 .. sends, saved' \subseteq executed', wire' \in Seq(Order),
           \A k \in 1 .. Len(wire') : \E j \in 1 .. Len(wire) : wire'[k] = wire[j],
           \/ lines' = lines
           \/ \E l \in Line : /\ lines' = Append(lines, l)
                              /\ Busy /\ current.clear /\ l = Queue!Ack(current.cmd) =>
                                    /\ current.n \in executed'
                                    /\ current.cmd = "save" => current.n \in saved'
                              /\ l = Queue!Autosaved => executed \subseteq saved'
    PROVE  Queue!TypeOK' /\ QueueInv'
<1>1. lines \in Seq(Line) /\ Len(lines) \in Nat
  <2>1. lines \in Seq(Line)
    BY DEF Queue!TypeOK, Line
  <2> QED  BY <2>1
<1>2. /\ lines' \in Seq(Line) /\ Len(lines') \in Nat
      /\ Len(lines) <= Len(lines') /\ Len(lines') <= Len(lines) + 1
      /\ \A k \in 1 .. Len(lines) : lines'[k] = lines[k]
      /\ \A k \in 1 .. Len(lines') : k \in 1 .. Len(lines) \/ k = Len(lines) + 1
      /\ Len(lines') = Len(lines) + 1 =>
           /\ Busy /\ current.clear /\ lines'[Len(lines) + 1] = Queue!Ack(current.cmd) =>
                 /\ current.n \in executed'
                 /\ current.cmd = "save" => current.n \in saved'
           /\ lines'[Len(lines) + 1] = Queue!Autosaved => executed \subseteq saved'
  <2>1. CASE lines' = lines
    BY <1>1, <2>1
  <2>2. ASSUME NEW l \in Line, lines' = Append(lines, l) 
        PROVE  /\ lines' \in Seq(Line) /\ Len(lines') = Len(lines) + 1 /\ lines'[Len(lines) + 1] = l
               /\ \A k \in 1 .. Len(lines) : lines'[k] = lines[k]
    BY <1>1, <2>2, AppendFacts
  <2>3. CASE lines' # lines
    <3>1. PICK l \in Line : /\ lines' = Append(lines, l)
                            /\ Busy /\ current.clear /\ l = Queue!Ack(current.cmd) =>
                                  /\ current.n \in executed'
                                  /\ current.cmd = "save" => current.n \in saved'
                            /\ l = Queue!Autosaved => executed \subseteq saved'
      BY <2>3
    <3>2. /\ lines' \in Seq(Line) /\ Len(lines') = Len(lines) + 1 /\ lines'[Len(lines) + 1] = l
          /\ \A k \in 1 .. Len(lines) : lines'[k] = lines[k]
      BY <2>2, <3>1
    <3> QED  BY <1>1, <3>1, <3>2
  <2> QED  BY <2>1, <2>3
<1>3. QueueShape'
  BY DEF QueueInv, QueueShape, Busy
<1>4. QueueOwn'
  <2>1. SUFFICES ASSUME Busy, current.clear PROVE QueueOwn'
    BY DEF QueueOwn, Busy
  <2>2. /\ Queue!Ack(current.cmd) \in {"mode", "saved OK"} /\ Queue!Autosaved = "auto-saved"
        /\ QueueOwn
    BY <2>1, QueueShapes DEF QueueInv, QueueOwn
  <2>3. \A k \in 1 .. Len(wire') : Queue!Ack(wire'[k].cmd) = Queue!Ack(current.cmd) =>
            wire'[k].n = current.n /\ wire'[k].cmd = current.cmd
    BY <2>1, <2>2 DEF QueueOwn
  <2>4. ASSUME NEW k \in 1 .. Len(lines'), lines'[k] = Queue!Ack(current.cmd)
        PROVE  /\ current.n \in executed'
               /\ current.cmd = "save" => current.n \in saved'
               /\ \A m \in k + 1 .. Len(lines') : lines'[m] = Queue!Autosaved => current.n \in saved'
    <3>1. CASE k \in 1 .. Len(lines)
      <4>1. /\ current.n \in executed /\ (current.cmd = "save" => current.n \in saved)
            /\ \A m \in k + 1 .. Len(lines) : lines[m] = Queue!Autosaved => current.n \in saved
        BY <1>2, <2>1, <2>2, <2>4, <3>1 DEF QueueOwn
      <4>2. ASSUME NEW m \in k + 1 .. Len(lines'), lines'[m] = Queue!Autosaved PROVE current.n \in saved'
        <5>1. CASE m \in k + 1 .. Len(lines)
          <6>1. lines[m] = Queue!Autosaved
            BY <1>1, <1>2, <3>1, <4>2, <5>1
          <6> QED  BY <4>1, <5>1, <6>1
        <5>2. CASE m \notin k + 1 .. Len(lines)
          <6>1. m = Len(lines) + 1 /\ Len(lines') = Len(lines) + 1
            BY <1>1, <1>2, <3>1, <5>2
          <6> QED  BY <1>2, <4>1, <4>2, <6>1
        <5> QED  BY <5>1, <5>2
      <4> QED  BY <4>1, <4>2
    <3>2. CASE k = Len(lines) + 1
      <4>1. Len(lines') = Len(lines) + 1
        BY <1>1, <1>2, <3>2
      <4>2. \A m \in k + 1 .. Len(lines') : FALSE
        BY <1>1, <3>2, <4>1
      <4> QED  BY <1>2, <2>1, <2>4, <3>2, <4>1, <4>2
    <3> QED  BY <1>2, <3>1, <3>2
  <2> QED  BY <2>2, <2>3, <2>4 DEF QueueOwn
<1>5. QueueRam'
  <2>1. SUFFICES ASSUME ramIdx # 0, results[ramIdx].clear, NEW k \in 1 .. Len(lines'), lines'[k] = Queue!Autosaved
                 PROVE  results[ramIdx].n \in saved'
    BY DEF QueueInv, QueueRam
  <2>2. /\ ramIdx \in 1 .. Len(results) /\ results[ramIdx].status = "ram"
        /\ \A j \in 1 .. Len(lines) : lines[j] = Queue!Autosaved => results[ramIdx].n \in saved
        /\ results[ramIdx].n \in executed
    BY <2>1 DEF QueueInv, QueueRam, Queue!ReportIsTrue
  <2>3. CASE k \in 1 .. Len(lines)
    BY <1>2, <2>1, <2>2, <2>3
  <2>4. CASE k = Len(lines) + 1
    <3>1. Len(lines') = Len(lines) + 1
      BY <1>1, <1>2, <2>4
    <3> QED  BY <1>2, <2>1, <2>2, <2>4, <3>1
  <2> QED  BY <1>2, <2>3, <2>4
<1>6. Queue!ReportIsTrue'
  BY DEF QueueInv, Queue!ReportIsTrue
<1>7. Queue!TypeOK'
  BY <1>2 DEF Queue!TypeOK, Order, Line
<1> QED  BY <1>3, <1>4, <1>5, <1>6, <1>7 DEF QueueInv

\* A step of the program: what it sends, and the results it keeps.
LEMMA QueueProgram ==
    ASSUME Queue!TypeOK, QueueInv, QueueMoved, UNCHANGED <<open, executed, saved, q_pending>>,
           lines' \in Seq(Line), onDone' \in {"none", "save", "report"},
           results' \in Seq(Reported), ramIdx' \in 0 .. Len(results'), QueueRam', Queue!ReportIsTrue'
    PROVE  Queue!TypeOK' /\ QueueInv'
<1>1. executed \subseteq 1 .. sends' /\ sends' \in 0 .. MaxSends
  <2>1. sends' \in sends .. MaxSends /\ sends \in 0 .. MaxSends /\ MaxSends \in Nat /\ executed \subseteq 1 .. sends
    BY QueueAssumption DEF Queue!TypeOK, QueueMoved
  <2>2. \A i \in 1 .. sends : i \in 1 .. sends'
    BY <2>1
  <2> QED  BY <2>1, <2>2
<1>2. /\ open' \in BOOLEAN /\ q_pending' \in BOOLEAN /\ saved' \subseteq executed'
      /\ executed' \subseteq 1 .. sends'
  BY <1>1 DEF Queue!TypeOK
<1> QED  BY <1>1, <1>2 DEF QueueMoved, QueueInv, Queue!TypeOK, Reported, Order, Line

\* "[CFG] auto-saved" is believed only when it is so.
LEMMA QueueUpgrade ==
    ASSUME Queue!TypeOK, QueueInv, lines # <<>>, NEW old, old = Queue!Upgraded(Head(lines))
    PROVE  /\ old \in Seq(Reported) /\ Len(old) = Len(results) /\ Len(results) \in Nat
           /\ \A i \in 1 .. Len(old) :
                old[i].clear => /\ old[i].status = "ram"   => old[i].n \in executed
                                /\ old[i].status = "flash" => old[i].n \in saved
           /\ Queue!RamLeft(Head(lines)) # 0 => /\ old = results /\ Queue!RamLeft(Head(lines)) = ramIdx
<1>1. results \in Seq(Reported) /\ Len(results) \in Nat /\ ramIdx \in 0 .. Len(results)
  <2>1. results \in Seq(Reported)
    BY DEF Queue!TypeOK, Reported
  <2>2. ramIdx \in 0 .. Len(results)
    BY DEF Queue!TypeOK
  <2> QED  BY <2>1, <2>2
<1>2. \A i \in 1 .. Len(results) :
        results[i].clear => /\ results[i].status = "ram"   => results[i].n \in executed
                            /\ results[i].status = "flash" => results[i].n \in saved
  BY DEF QueueInv, Queue!ReportIsTrue
<1>3. CASE old = results /\ (Queue!RamLeft(Head(lines)) = 0 \/ Queue!RamLeft(Head(lines)) = ramIdx)
  BY <1>1, <1>2, <1>3
<1>4. CASE /\ Head(lines) = Queue!Autosaved /\ ramIdx \in 1 .. Len(results)
           /\ old = [results EXCEPT ![ramIdx].status = "flash"]
  <2>1. 1 \in 1 .. Len(lines) /\ lines[1] = Queue!Autosaved
    BY <1>4, TailFacts DEF Queue!TypeOK
  <2>2. ramIdx # 0
    BY <1>4
  <2>3. results[ramIdx].clear => results[ramIdx].n \in saved
    BY <2>1, <2>2 DEF QueueInv, QueueRam
  <2>4. PICK r \in Reported : r = [results[ramIdx] EXCEPT !.status = "flash"]
    <3>1. results[ramIdx] \in Reported
      BY <1>1, <1>4, ElementFacts
    <3> QED  BY <3>1 DEF Reported
  <2>5. results[ramIdx] \in Reported
    BY <1>1, <1>4, ElementFacts
  <2>6. r.clear = results[ramIdx].clear /\ r.n = results[ramIdx].n /\ r.status = "flash"
    BY <2>4, <2>5 DEF Reported
  <2>7. old = [results EXCEPT ![ramIdx] = r]
    BY <1>4, <2>4
  <2>8. /\ old \in Seq(Reported) /\ Len(old) = Len(results)
        /\ \A i \in 1 .. Len(results) : old[i] = (IF i = ramIdx THEN r ELSE results[i])
    BY <1>1, <1>4, <2>7
  <2>9. Queue!RamLeft(Head(lines)) = 0
    BY <1>4 DEF Queue!RamLeft
  <2>10. ASSUME NEW i \in 1 .. Len(old), old[i].clear
         PROVE  /\ old[i].status = "ram"   => old[i].n \in executed
                /\ old[i].status = "flash" => old[i].n \in saved
    <3>1. CASE i = ramIdx
      <4>1. old[i] = r
        BY <2>8, <3>1
      <4> QED  BY <2>3, <2>6, <2>10, <4>1
    <3>2. CASE i # ramIdx
      <4>1. old[i] = results[i] /\ i \in 1 .. Len(results)
        BY <2>8, <3>2
      <4> QED  BY <1>2, <2>10, <4>1
    <3> QED  BY <3>1, <3>2
  <2> QED  BY <1>1, <2>8, <2>9, <2>10
<1>5. Queue!RamLeft(Head(lines)) = 0 \/ Queue!RamLeft(Head(lines)) = ramIdx
  BY DEF Queue!RamLeft
<1> QED  BY <1>3, <1>4, <1>5 DEF Queue!Upgraded

\* The result of the current command.
LEMMA QueueResult ==
    ASSUME Queue!TypeOK, Busy, NEW old \in Seq(Reported), NEW st \in {"ram", "flash", "failed", "TIMEOUT"},
           \A i \in 1 .. Len(old) :
             old[i].clear => /\ old[i].status = "ram"   => old[i].n \in executed
                             /\ old[i].status = "flash" => old[i].n \in saved,
           current.clear => /\ st = "ram"   => current.n \in executed
                            /\ st = "flash" => current.n \in saved,
           NEW rs, rs = Append(old, Queue!Result(st))
    PROVE  /\ rs \in Seq(Reported) /\ Len(rs) = Len(old) + 1 /\ Len(old) \in Nat
           /\ rs[Len(rs)].status = st /\ rs[Len(rs)].clear = current.clear /\ rs[Len(rs)].n = current.n
           /\ \A i \in 1 .. Len(rs) :
                rs[i].clear => /\ rs[i].status = "ram"   => rs[i].n \in executed
                               /\ rs[i].status = "flash" => rs[i].n \in saved
<1>1. current \in Queue!InFlight
  BY DEF Queue!TypeOK, Busy
<1>2. current.cmd \in Queue!Cmd /\ current.n \in 1 .. MaxSends /\ current.clear \in BOOLEAN
  BY <1>1, QueueShapes
<1>3. PICK r \in Reported : r = Queue!Result(st)
  BY <1>2 DEF Reported, Queue!Result
<1>4. r.status = st /\ r.clear = current.clear /\ r.n = current.n
  BY <1>3 DEF Queue!Result
<1>5. /\ rs \in Seq(Reported) /\ Len(rs) = Len(old) + 1 /\ Len(old) \in Nat
      /\ rs[Len(old) + 1] = r
      /\ \A i \in 1 .. Len(old) : rs[i] = old[i]
  BY <1>3, AppendFacts
<1>6. ASSUME NEW i \in 1 .. Len(rs), rs[i].clear
      PROVE  /\ rs[i].status = "ram"   => rs[i].n \in executed
             /\ rs[i].status = "flash" => rs[i].n \in saved
  <2>1. CASE i \in 1 .. Len(old)
    BY <1>5, <1>6, <2>1
  <2>2. CASE i = Len(old) + 1
    <3>1. rs[i] = r
      BY <1>5, <2>2
    <3> QED  BY <1>4, <1>6, <3>1
  <2>3. i \in 1 .. Len(old) \/ i = Len(old) + 1
    BY <1>5
  <2> QED  BY <2>1, <2>2, <2>3
<1> QED  BY <1>4, <1>5, <1>6

LEMMA QueueAck ==
    ASSUME Queue!TypeOK, QueueInv, Queue!OnAck
    PROVE  Queue!TypeOK' /\ QueueInv'
<1>1. lines \in Seq(Line) /\ lines # <<>> /\ Queue!Hits(Head(lines)) /\ lines' = Tail(lines)
  BY DEF Queue!OnAck, Queue!TypeOK, Line
<1>2. PICK line : line = Head(lines)
  OBVIOUS
<1>3. /\ lines' \in Seq(Line) /\ Len(lines) \in Nat /\ Len(lines') = Len(lines) - 1 /\ line = lines[1] /\ 1 \in 1 .. Len(lines)
      /\ \A k \in 1 .. Len(lines') : lines'[k] = lines[k + 1] /\ k + 1 \in 1 .. Len(lines)
  BY <1>1, <1>2, TailFacts
<1>4. LinesLeft
  BY <1>3 DEF LinesLeft
<1>5. PICK old : old = Queue!Upgraded(line)
  OBVIOUS
<1>6. PICK st \in {"ram", "flash"} : st = (IF line = "saved OK" THEN "flash" ELSE "ram")
  OBVIOUS
<1>7. PICK rs : rs = Append(old, Queue!Result(st))
  OBVIOUS
<1>8. Busy /\ (Queue!Ack(current.cmd) = "" \/ line = Queue!Ack(current.cmd))
  BY <1>1, <1>2 DEF Queue!Hits, Busy
<1>9. /\ old \in Seq(Reported)
      /\ \A i \in 1 .. Len(old) :
           old[i].clear => /\ old[i].status = "ram"   => old[i].n \in executed
                           /\ old[i].status = "flash" => old[i].n \in saved
  BY <1>1, <1>2, <1>5, QueueUpgrade
<1>10. ASSUME current.clear
       PROVE  /\ current.n \in executed
              /\ st = "flash" => current.n \in saved
              /\ \A k \in 1 .. Len(lines') : lines'[k] = Queue!Autosaved => current.n \in saved
  <2>1. QueueOwn /\ current.cmd \in Queue!Cmd /\ current.cmd # "hwsave"
    BY <1>8, QueueShapes DEF QueueInv, QueueShape, Queue!TypeOK, Busy
  <2>2. Queue!Ack(current.cmd) \in {"mode", "saved OK"} /\ line = Queue!Ack(current.cmd)
    BY <1>8, <1>10, <2>1 DEF QueueOwn
  <2>3. /\ current.n \in executed /\ (current.cmd = "save" => current.n \in saved)
        /\ \A m \in 2 .. Len(lines) : lines[m] = Queue!Autosaved => current.n \in saved
    <3>1. lines[1] = Queue!Ack(current.cmd) /\ 1 \in 1 .. Len(lines)
      BY <1>3, <2>2
    <3>2. /\ current.n \in executed /\ (current.cmd = "save" => current.n \in saved)
          /\ \A m \in 1 + 1 .. Len(lines) : lines[m] = Queue!Autosaved => current.n \in saved
      BY <1>8, <1>10, <2>1, <3>1 DEF QueueOwn
    <3> QED  BY <3>2
  <2>4. st = "flash" => current.cmd = "save"
    BY <1>6, <2>1, <2>2, QueueShapes
  <2>5. \A k \in 1 .. Len(lines') : k + 1 \in 2 .. Len(lines)
    BY <1>3
  <2> QED  BY <1>3, <2>3, <2>4, <2>5
<1>11. /\ rs \in Seq(Reported) /\ Len(rs) = Len(old) + 1 /\ Len(old) \in Nat
       /\ rs[Len(rs)].status = st /\ rs[Len(rs)].clear = current.clear /\ rs[Len(rs)].n = current.n
       /\ \A i \in 1 .. Len(rs) :
            rs[i].clear => /\ rs[i].status = "ram"   => rs[i].n \in executed
                           /\ rs[i].status = "flash" => rs[i].n \in saved
  <2>1. current.clear => /\ st = "ram"   => current.n \in executed
                         /\ st = "flash" => current.n \in saved
    BY <1>10
  <2>2. st \in {"ram", "flash", "failed", "TIMEOUT"}
    OBVIOUS
  <2> QED  BY ZenonT(40), <1>7, <1>8, <1>9, <2>1, <2>2, QueueResult
<1>12. PICK idx : idx = (IF st = "ram" THEN Len(rs) ELSE 0)
  OBVIOUS
<1>13. Queue!SendNext(rs, idx, TRUE) /\ UNCHANGED <<open, executed, saved, q_pending>>
  BY <1>2, <1>5, <1>6, <1>7, <1>12 DEF Queue!OnAck, Queue!beacon
<1>14. /\ QueueMoved /\ onDone' \in {"none", "save", "report"}
       /\ \/ results' = rs /\ ramIdx' = idx
          \/ results' = <<>> /\ ramIdx' = 0
  BY <1>4, <1>13, QueueNext DEF QueueInv
<1>15. results' \in Seq(Reported) /\ ramIdx' \in 0 .. Len(results') /\ QueueRam' /\ Queue!ReportIsTrue'
  <2>1. CASE results' = <<>> /\ ramIdx' = 0
    <3>1. results' \in Seq(Reported) /\ Len(results') = 0
      BY <2>1, ShortFacts
    <3> QED  BY <2>1, <3>1 DEF QueueRam, Queue!ReportIsTrue
  <2>2. CASE results' = rs /\ ramIdx' = idx
    <3>1. ramIdx' \in 0 .. Len(results')
      BY <1>11, <1>12, <2>2
    <3>2. QueueRam'
      <4>1. CASE st = "ram"
        BY <1>10, <1>11, <1>12, <1>13, <2>2, <4>1 DEF QueueRam, Queue!Autosaved
      <4>2. CASE st # "ram"
        BY <1>12, <2>2, <4>2 DEF QueueRam
      <4> QED  BY <4>1, <4>2
    <3>3. Queue!ReportIsTrue'
      BY <1>11, <1>13, <2>2 DEF Queue!ReportIsTrue
    <3> QED  BY <1>11, <2>2, <3>1, <3>2, <3>3
  <2> QED  BY <1>14, <2>1, <2>2
<1> QED  BY <1>3, <1>13, <1>14, <1>15, QueueProgram

\* An error of some command, or no answer in time.
LEMMA QueueFails ==
    ASSUME Queue!TypeOK, QueueInv, Busy, LinesLeft, NEW st \in {"failed", "TIMEOUT"}, NEW h \in BOOLEAN,
           Queue!SendNext(Append(results, Queue!Result(st)), 0, h),
           UNCHANGED <<open, executed, saved, q_pending>>
    PROVE  Queue!TypeOK' /\ QueueInv'
<1>1. PICK rs : rs = Append(results, Queue!Result(st))
  OBVIOUS
<1>2. results \in Seq(Reported)
  BY DEF Queue!TypeOK, Reported
<1>3. /\ rs \in Seq(Reported)
      /\ \A i \in 1 .. Len(rs) :
           rs[i].clear => /\ rs[i].status = "ram"   => rs[i].n \in executed
                          /\ rs[i].status = "flash" => rs[i].n \in saved
  BY <1>1, <1>2, QueueResult DEF QueueInv, Queue!ReportIsTrue
<1>4. /\ QueueMoved /\ onDone' \in {"none", "save", "report"}
      /\ \/ results' = rs /\ ramIdx' = 0
         \/ results' = <<>> /\ ramIdx' = 0
  BY <1>1, QueueNext DEF QueueInv
<1>5. results' \in Seq(Reported) /\ Queue!ReportIsTrue'
  <2>1. CASE results' = <<>>
    <3>1. results' \in Seq(Reported) /\ Len(results') = 0
      BY <2>1, ShortFacts
    <3> QED  BY <3>1 DEF Queue!ReportIsTrue
  <2>2. CASE results' = rs
    BY <1>3, <2>2 DEF Queue!ReportIsTrue
  <2> QED  BY <1>4, <2>1, <2>2
<1>6. ramIdx' \in 0 .. Len(results') /\ QueueRam'
  BY <1>4, <1>5 DEF QueueRam
<1> QED  BY <1>4, <1>5, <1>6, QueueProgram DEF LinesLeft

LEMMA QueueStep ==
    ASSUME Queue!TypeOK, QueueInv, [Queue!Next]_(Queue!vars)
    PROVE  Queue!TypeOK' /\ QueueInv'
<1>0. lines \in Seq(Line) /\ results \in Seq(Reported) /\ wire \in Seq(Order) /\ ramIdx \in 0 .. Len(results)
  <2>1. lines \in Seq(Line) /\ results \in Seq(Reported) /\ wire \in Seq(Order)
    BY DEF Queue!TypeOK, Line, Reported, Order
  <2> QED  BY <2>1 DEF Queue!TypeOK
<1>1. CASE UNCHANGED Queue!vars
  <2>1. UNCHANGED <<open, queue, current, results, ramIdx, q_timer, onDone, polls, wire, lines, executed, saved,
                    q_pending, sends>>
    BY <1>1 DEF Queue!vars, Queue!cmdq, Queue!beacon
  <2> QED  BY <2>1 DEF Queue!TypeOK, QueueInv, QueueShape, QueueOwn, QueueRam, Busy, Queue!ReportIsTrue
<1>2. CASE Queue!DoSave \/ Queue!ProfileToBeacon
  <2>1. /\ UNCHANGED <<open, executed, saved, q_pending, lines>>
        /\ Queue!Run(Queue!SaveCmds, "save", FALSE) \/ Queue!Run(Queue!ProfileCmds, "report", FALSE)
    BY <1>2 DEF Queue!DoSave, Queue!ProfileToBeacon, Queue!beacon
  <2>2. LinesLeft
    BY <1>0, <2>1 DEF LinesLeft
  <2>3. QueueMoved /\ results' = <<>> /\ ramIdx' = 0 /\ onDone' \in {"none", "save", "report"}
    BY <2>1, <2>2, QueueRuns DEF QueueInv
  <2>4. results' \in Seq(Reported) /\ Len(results') = 0
    BY <2>3, ShortFacts
  <2>5. QueueRam' /\ Queue!ReportIsTrue' /\ ramIdx' \in 0 .. Len(results')
    BY <2>3, <2>4 DEF QueueRam, Queue!ReportIsTrue
  <2> QED  BY <1>0, <2>1, <2>3, <2>4, <2>5, QueueProgram
<1>3. ASSUME NEW c \in Queue!Single, Queue!SingleCmd(c) PROVE Queue!TypeOK' /\ QueueInv'
  <2>1. /\ UNCHANGED <<open, executed, saved, q_pending, lines, queue, results, ramIdx, q_timer, onDone, polls>>
        /\ sends < MaxSends /\ Queue!Transmit(c)
    BY <1>3 DEF Queue!SingleCmd, Queue!beacon
  <2>2. c \in {"mode", "hwsave"} /\ c \in Queue!Cmd
    BY QueueShapes DEF Queue!Single
  <2>3. sends \in 0 .. MaxSends /\ MaxSends \in Nat /\ sends' = sends + 1
    BY <2>1, QueueAssumption DEF Queue!TypeOK, Queue!Transmit
  <2>4. sends' \in sends .. MaxSends /\ sends + 1 \in 1 .. MaxSends
    BY <2>1, <2>3
  <2>5. PICK e \in Order : e = [cmd |-> c, n |-> sends + 1]
    BY <2>2, <2>4 DEF Order
  <2>6. e.cmd = c /\ e.n = sends + 1
    BY <2>5
  <2>7. wire' = wire \/ wire' = Append(wire, e)
    BY <2>1, <2>5 DEF Queue!Transmit
  <2>8. /\ wire' \in Seq(Order)
        /\ \A k \in 1 .. Len(wire') : \/ wire'[k] = e
                                      \/ \E j \in 1 .. Len(wire) : wire'[k] = wire[j]
    <3>1. CASE wire' = wire
      BY <1>0, <3>1
    <3>2. CASE wire' = Append(wire, e)
      <4>1. /\ wire' \in Seq(Order) /\ Len(wire') = Len(wire) + 1 /\ Len(wire) \in Nat /\ wire'[Len(wire) + 1] = e
            /\ \A i \in 1 .. Len(wire) : wire'[i] = wire[i]
        BY <1>0, <3>2, AppendFacts
      <4>2. \A k \in 1 .. Len(wire') : k \in 1 .. Len(wire) \/ k = Len(wire) + 1
        BY <4>1
      <4> QED  BY <4>1, <4>2
    <3> QED  BY <2>7, <3>1, <3>2
  <2>9. \A k \in 1 .. Len(wire') : wire'[k].n \in 1 .. sends'
    BY <2>3, <2>6, <2>8 DEF QueueInv, QueueShape
  <2>10. current \in Queue!InFlight \cup {Queue!NoCmd}
    BY DEF Queue!TypeOK
  <2>11. CASE Busy /\ Queue!Ack(current.cmd) = Queue!Ack(c)
    <3>1. current \in Queue!InFlight /\ current' = [current EXCEPT !.clear = FALSE]
      BY <1>3, <2>10, <2>11 DEF Busy, Queue!SingleCmd
    <3>2. current' \in Queue!InFlight /\ current'.clear = FALSE /\ current'.cmd = current.cmd
      BY <3>1 DEF Queue!InFlight
    <3>3. QueueOwn' /\ Busy'
      BY <3>2, QueueShapes DEF QueueOwn, Busy
    <3>4. QueueShape'
      BY <2>1, <2>9, <2>11, <3>2, <3>3 DEF QueueInv, QueueShape
    <3>5. QueueMoved /\ onDone' \in {"none", "save", "report"}
      BY <2>1, <2>4, <2>8, <3>2, <3>3, <3>4 DEF QueueMoved, Queue!TypeOK
    <3>6. QueueRam' /\ Queue!ReportIsTrue'
      BY <2>1 DEF QueueInv, QueueRam, Queue!ReportIsTrue
    <3> QED  BY <1>0, <2>1, <3>5, <3>6, QueueProgram
  <2>12. CASE ~(Busy /\ Queue!Ack(current.cmd) = Queue!Ack(c))
    <3>1. current' = current
      BY <1>3, <2>12 DEF Busy, Queue!SingleCmd
    <3>2. QueueShape'
      BY <2>1, <2>9, <3>1 DEF QueueInv, QueueShape, Busy
    <3>3. Busy /\ current.clear => 
            \A k \in 1 .. Len(wire') : Queue!Ack(wire'[k].cmd) = Queue!Ack(current.cmd) =>
              wire'[k].n = current.n /\ wire'[k].cmd = current.cmd
      BY <2>6, <2>8, <2>12 DEF QueueInv, QueueOwn
    <3>4. QueueOwn'
      BY <2>1, <3>1, <3>3 DEF QueueInv, QueueOwn, Busy
    <3>5. QueueMoved /\ onDone' \in {"none", "save", "report"}
      BY <2>1, <2>4, <2>8, <2>10, <3>1, <3>2, <3>4 DEF QueueMoved, Queue!TypeOK
    <3>6. QueueRam' /\ Queue!ReportIsTrue'
      BY <2>1 DEF QueueInv, QueueRam, Queue!ReportIsTrue
    <3> QED  BY <1>0, <2>1, <3>5, <3>6, QueueProgram
  <2> QED  BY <2>11, <2>12
<1>4. CASE Queue!Connect \/ Queue!Disconnect
  <2>1. /\ UNCHANGED <<queue, current, results, ramIdx, q_timer, onDone, polls, lines, executed, saved, q_pending, sends>>
        /\ open' \in BOOLEAN
        /\ wire' = wire \/ wire' = <<>>
    BY <1>4 DEF Queue!Connect, Queue!Disconnect, Queue!cmdq, Queue!beacon
  <2>2. wire' \in Seq(Order) /\ \A k \in 1 .. Len(wire') : \E j \in 1 .. Len(wire) : wire'[k] = wire[j]
    <3>1. CASE wire' = wire
      BY <1>0, <3>1
    <3>2. CASE wire' = <<>>
      <4>1. wire' \in Seq(Order) /\ Len(wire') = 0
        BY <3>2, ShortFacts
      <4> QED  BY <4>1
    <3> QED  BY <2>1, <3>1, <3>2
  <2>3. q_pending' \in BOOLEAN /\ executed' \subseteq 1 .. sends /\ saved' \subseteq executed'
    BY <2>1 DEF Queue!TypeOK
  <2> QED  BY <2>1, <2>2, <2>3, QueueBeacon
<1>5. CASE Queue!OnErr
  <2>1. Busy /\ lines # <<>> /\ lines' = Tail(lines) /\ UNCHANGED <<open, executed, saved, q_pending>>
    BY <1>5 DEF Queue!OnErr, Queue!beacon, Busy
  <2>2. LinesLeft
    BY <1>0, <2>1, TailFacts DEF LinesLeft
  <2> QED  BY <1>5, <2>1, <2>2, QueueFails DEF Queue!OnErr
<1>6. CASE Queue!OnTimeout
  <2>1. Busy /\ lines' = lines /\ UNCHANGED <<open, executed, saved, q_pending>>
    BY <1>6 DEF Queue!OnTimeout, Queue!beacon, QueueInv, QueueShape
  <2>2. LinesLeft
    BY <1>0, <2>1 DEF LinesLeft
  <2> QED  BY <1>6, <2>1, <2>2, QueueFails DEF Queue!OnTimeout
<1>7. CASE Queue!OnOtherLine
  <2>1. /\ lines # <<>> /\ lines' = Tail(lines)
        /\ UNCHANGED <<open, queue, current, q_timer, onDone, polls, wire, executed, saved, q_pending, sends>>
        /\ results' = Queue!Upgraded(Head(lines)) /\ ramIdx' = Queue!RamLeft(Head(lines))
    BY <1>7 DEF Queue!OnOtherLine, Queue!beacon
  <2>2. /\ lines' \in Seq(Line) /\ Len(lines) \in Nat /\ Len(lines') = Len(lines) - 1
        /\ \A k \in 1 .. Len(lines') : lines'[k] = lines[k + 1] /\ k + 1 \in 1 .. Len(lines)
    BY <1>0, <2>1, TailFacts
  <2>3. /\ results' \in Seq(Reported) /\ Len(results') = Len(results) /\ Len(results) \in Nat
        /\ \A i \in 1 .. Len(results') :
             results'[i].clear => /\ results'[i].status = "ram"   => results'[i].n \in executed
                                  /\ results'[i].status = "flash" => results'[i].n \in saved
        /\ ramIdx' # 0 => results' = results /\ ramIdx' = ramIdx
    BY <2>1, QueueUpgrade
  <2>4. Queue!ReportIsTrue'
    BY <2>1, <2>3 DEF Queue!ReportIsTrue
  <2>5. QueueRam' /\ ramIdx' \in 0 .. Len(results')
    <3>1. CASE ramIdx' = 0
      BY <2>3, <3>1 DEF QueueRam
    <3>2. CASE ramIdx' # 0
      BY <1>0, <2>1, <2>2, <2>3, <3>2 DEF QueueInv, QueueRam
    <3> QED  BY <3>1, <3>2
  <2>6. QueueOwn'
    <3>1. SUFFICES ASSUME Busy, current.clear PROVE QueueOwn'
      BY <2>1 DEF QueueOwn, Busy
    <3>2. QueueOwn
      BY DEF QueueInv
    <3>3. ASSUME NEW k \in 1 .. Len(lines'), lines'[k] = Queue!Ack(current.cmd)
          PROVE  /\ current.n \in executed
                 /\ current.cmd = "save" => current.n \in saved
                 /\ \A m \in k + 1 .. Len(lines') : lines'[m] = Queue!Autosaved => current.n \in saved
      <4>1. k + 1 \in 1 .. Len(lines) /\ lines[k + 1] = Queue!Ack(current.cmd)
        BY <2>2, <3>3
      <4>2. /\ current.n \in executed
            /\ current.cmd = "save" => current.n \in saved
            /\ \A m \in (k + 1) + 1 .. Len(lines) : lines[m] = Queue!Autosaved => current.n \in saved
        BY <3>1, <3>2, <4>1 DEF QueueOwn
      <4>3. \A m \in k + 1 .. Len(lines') : lines'[m] = lines[m + 1] /\ m + 1 \in (k + 1) + 1 .. Len(lines)
        BY <2>2
      <4> QED  BY <4>2, <4>3
    <3> QED  BY <2>1, <3>1, <3>2, <3>3 DEF QueueOwn
  <2>7. QueueShape'
    BY <2>1 DEF QueueInv, QueueShape, Busy
  <2>8. QueueMoved /\ onDone' \in {"none", "save", "report"}
    <3>1. sends' \in sends .. MaxSends
      <4>1. sends' = sends /\ sends \in 0 .. MaxSends /\ MaxSends \in Nat
        BY <2>1, QueueAssumption DEF Queue!TypeOK
      <4> QED  BY <4>1
    <3> QED  BY <1>0, <2>1, <2>6, <2>7, <3>1 DEF QueueMoved, Queue!TypeOK
  <2> QED  BY <2>1, <2>2, <2>3, <2>4, <2>5, <2>8, QueueProgram
<1>8. CASE Queue!Executes
  <2>1. wire # <<>> /\ wire' = Tail(wire)
        /\ UNCHANGED <<open, queue, current, results, ramIdx, q_timer, onDone, polls, sends>>
    BY <1>8 DEF Queue!Executes, Queue!cmdq
  <2>2. PICK w : w = Head(wire)
    OBVIOUS
  <2>3. /\ w \in Order /\ w = wire[1] /\ 1 \in 1 .. Len(wire) /\ wire' \in Seq(Order)
        /\ \A k \in 1 .. Len(wire') : \E j \in 1 .. Len(wire) : wire'[k] = wire[j]
    BY <1>0, <2>1, <2>2, TailFacts
  <2>4. /\ executed' = executed \cup {w.n}
        /\ saved' = (IF w.cmd = "save" THEN saved \cup executed \cup {w.n} ELSE saved)
        /\ \/ w.cmd # "reset" /\ lines' = Append(lines, Queue!Ack(w.cmd))
           \/ lines' = lines
    BY <1>8, <2>2 DEF Queue!Executes, Queue!Prints
  <2>5. q_pending' \in BOOLEAN
    BY <1>8 DEF Queue!Executes, Queue!TypeOK
  <2>6. w.n \in 1 .. sends /\ w.cmd \in Queue!Cmd
    BY <2>3 DEF QueueInv, QueueShape, Order
  <2>7. /\ executed' \subseteq 1 .. sends /\ saved' \subseteq executed'
        /\ executed \subseteq executed' /\ saved \subseteq saved' /\ open' \in BOOLEAN
    BY <2>1, <2>4, <2>6 DEF Queue!TypeOK
  <2>8. CASE lines' = lines
    BY <2>1, <2>3, <2>5, <2>7, <2>8, QueueBeacon
  <2>9. CASE w.cmd # "reset" /\ lines' = Append(lines, Queue!Ack(w.cmd))
    <3>1. Queue!Ack(w.cmd) \in Line /\ Queue!Ack(w.cmd) # Queue!Autosaved
      BY <2>6, <2>9, QueueShapes DEF Line
    <3>2. Busy /\ current.clear /\ Queue!Ack(w.cmd) = Queue!Ack(current.cmd) =>
            /\ current.n \in executed'
            /\ current.cmd = "save" => current.n \in saved'
      BY <2>3, <2>4 DEF QueueInv, QueueOwn
    <3> QED  BY <2>1, <2>3, <2>5, <2>7, <2>9, <3>1, <3>2, QueueBeacon
  <2> QED  BY <2>4, <2>8, <2>9
<1>9. CASE Queue!Misses \/ Queue!AutoSaves \/ Queue!Reports
  <2>1. /\ UNCHANGED <<open, queue, current, results, ramIdx, q_timer, onDone, polls, sends, executed>>
        /\ \/ wire' = wire
           \/ wire # <<>> /\ wire' = Tail(wire)
    BY <1>9 DEF Queue!Misses, Queue!AutoSaves, Queue!Reports, Queue!cmdq, Queue!beacon
  <2>2. wire' \in Seq(Order) /\ \A k \in 1 .. Len(wire') : \E j \in 1 .. Len(wire) : wire'[k] = wire[j]
    <3>1. CASE wire' = wire
      BY <1>0, <3>1
    <3>2. CASE wire # <<>> /\ wire' = Tail(wire)
      BY <1>0, <3>2, TailFacts
    <3> QED  BY <2>1, <3>1, <3>2
  <2>3. q_pending' \in BOOLEAN /\ open' \in BOOLEAN
    BY <1>9 DEF Queue!Misses, Queue!AutoSaves, Queue!Reports, Queue!beacon, Queue!TypeOK
  <2>4. saved \subseteq saved' /\ executed' \subseteq 1 .. sends /\ saved' \subseteq executed'
    BY <1>9 DEF Queue!Misses, Queue!AutoSaves, Queue!Reports, Queue!beacon, Queue!TypeOK
  <2>5. \/ lines' = lines
        \/ \E l \in {"ERR", "sched"} : lines' = Append(lines, l)
        \/ lines' = Append(lines, "auto-saved") /\ executed \subseteq saved'
    BY <1>9, QueueShapes DEF Queue!Misses, Queue!AutoSaves, Queue!Reports, Queue!Prints
  <2>6. Busy /\ current.clear => Queue!Ack(current.cmd) \in {"mode", "saved OK"}
    BY DEF QueueInv, QueueOwn
  <2>7. CASE lines' = lines
    BY <2>1, <2>2, <2>3, <2>4, <2>7, QueueBeacon
  <2>8. ASSUME NEW l \in {"ERR", "sched"}, lines' = Append(lines, l) PROVE Queue!TypeOK' /\ QueueInv'
    <3>1. l \in Line /\ l # Queue!Autosaved /\ ~(Busy /\ current.clear /\ l = Queue!Ack(current.cmd))
      BY <2>6, QueueShapes DEF Line
    <3> QED  BY <2>1, <2>2, <2>3, <2>4, <2>8, <3>1, QueueBeacon
  <2>9. CASE lines' = Append(lines, "auto-saved") /\ executed \subseteq saved'
    <3>1. "auto-saved" \in Line /\ ~(Busy /\ current.clear /\ "auto-saved" = Queue!Ack(current.cmd))
      BY <2>6 DEF Line
    <3> QED  BY <2>1, <2>2, <2>3, <2>4, <2>9, <3>1, QueueBeacon
  <2> QED  BY <2>5, <2>7, <2>8, <2>9
<1> QED  BY <1>1, <1>2, <1>3, <1>4, <1>5, <1>6, <1>7, <1>8, <1>9, QueueAck DEF Queue!Next

LEMMA QueueStart ==
    ASSUME Queue!Init
    PROVE  Queue!TypeOK /\ QueueInv
<1>1. /\ current = Queue!NoCmd /\ Len(wire) = 0 /\ Len(queue) = 0 /\ Len(results) = 0 /\ ramIdx = 0 /\ ~q_timer
  BY ShortFacts DEF Queue!Init
<1>2. QueueInv
  BY <1>1 DEF QueueInv, QueueShape, QueueOwn, QueueRam, Queue!ReportIsTrue, Busy
<1>3. queue \in Seq(Queue!Cmd) /\ results \in Seq(Reported) /\ wire \in Seq(Order) /\ lines \in Seq(Line)
  BY ShortFacts DEF Queue!Init
<1>4. open \in BOOLEAN /\ q_timer \in BOOLEAN /\ polls \in BOOLEAN /\ q_pending \in BOOLEAN
  BY DEF Queue!Init
<1>5. executed \subseteq 1 .. sends /\ saved \subseteq executed /\ sends \in 0 .. MaxSends
  BY QueueAssumption DEF Queue!Init
<1>6. onDone \in {"none", "save", "report"} /\ ramIdx \in 0 .. Len(results)
  BY <1>1 DEF Queue!Init
<1> QED  BY <1>1, <1>2, <1>3, <1>4, <1>5, <1>6 DEF Queue!TypeOK, Line, Order, Reported

LEMMA QueueKeeps ==
    Queue!Spec => [](Queue!TypeOK /\ Queue!ReportIsTrue)
<1>1. Queue!Init => Queue!TypeOK /\ QueueInv
  BY QueueStart
<1>2. Queue!TypeOK /\ QueueInv /\ [Queue!Next]_(Queue!vars) => Queue!TypeOK' /\ QueueInv'
  BY QueueStep
<1>3. QueueInv => Queue!ReportIsTrue
  BY DEF QueueInv
<1> QED  BY <1>1, <1>2, <1>3, PTL DEF Queue!Spec
-----------------------------------------------------------------------------
(* The flash explorer. *)

FlashKinds   == {"frd", "ferase", "fwrite"}
Sent    == [kind : FlashKinds, page : Pages]
RowLine == [kind : {"row"}, page : Pages, row : 1 .. Rows, val : {"FF", "word"}]
Answers == RowLine \cup [kind : {"ferase", "fwrite"}, ok : BOOLEAN]
Command == [kind : FlashKinds, page : Pages, chained : BOOLEAN, buf : Seq(Answers),
            clean : BOOLEAN]

Statuses == {"unknown", "erased", "data", "error"}
ExplorerShape ==
    /\ f_pending \in Command \cup {Explorer!Nothing}
    /\ f_wire \in Seq(Sent) /\ f_lines \in Seq(Answers)
    /\ page_words \in [Pages -> Seq(Answers)]
    /\ f_pending # Explorer!Nothing => Len(f_pending.buf) < Rows
    /\ \A p \in Pages : Len(page_words[p]) \in {0, Rows}
    /\ page_status \in [Pages -> Statuses]
    /\ f_sends \in 0 .. MaxReads /\ gone \in 0 .. MaxTimers /\ stray \in 0 .. MaxTimers /\ shots \in Nat
    /\ range_queue \in Seq(Pages)
    /\ f_flash \in [Pages -> {"FF", "word"}] /\ unsure \subseteq Pages
ExplorerFlags == worker \in BOOLEAN /\ port \in {"free", "open", "stopping"} /\ f_timer \in BOOLEAN

\* A change of a page that is still to come is known of, or the page is not shown.
ChangeComes(p)  == \E k \in 1 .. Len(f_wire) : f_wire[k].kind # "frd" /\ f_wire[k].page = p
ExplorerChanges ==
    \A p \in Pages : ChangeComes(p) =>
        p \in unsure \/ Explorer!Changing(p)

\* While no other command is unanswered, the rows that have come and those on the way are
\* rows of the page that is read, in order, as they are in flash, and a page that is told
\* to be erased is.
OwnRow(l) == l \in RowLine /\ l.page = f_pending.page /\ l.val = f_flash[f_pending.page]
ErasedLine(l) == l.kind = "ferase" /\ l.ok
ExplorerOwn == f_pending # Explorer!Nothing /\ f_pending.clean =>
    /\ Len(f_wire) <= 1
    /\ Len(f_wire) > 0 => /\ f_wire[1].kind = f_pending.kind /\ f_wire[1].page = f_pending.page
                          /\ Len(f_pending.buf) = 0 /\ Len(f_lines) = 0
    /\ f_pending.kind = "ferase" =>
        \A k \in 1 .. Len(f_lines) : ErasedLine(f_lines[k]) => f_flash[f_pending.page] = "FF"
    /\ f_pending.kind = "frd" =>
        /\ \A k \in 1 .. Len(f_pending.buf) : OwnRow(f_pending.buf[k])
        /\ \A k \in 1 .. Len(f_lines) : OwnRow(f_lines[k])
        /\ \A i, j \in 1 .. Len(f_pending.buf) : i < j => f_pending.buf[i].row < f_pending.buf[j].row
        /\ \A i, j \in 1 .. Len(f_lines) : i < j => f_lines[i].row < f_lines[j].row
        /\ \A i \in 1 .. Len(f_pending.buf), j \in 1 .. Len(f_lines) : f_pending.buf[i].row < f_lines[j].row
ExplorerInv == ExplorerShape /\ ExplorerFlags /\ ExplorerChanges /\ ExplorerOwn /\ Explorer!PageIsShown

LEMMA NoneFacts ==
    ASSUME NEW n, n = 0
    PROVE  n <= 1 /\ ~(n > 0) /\ \A k \in 1 .. n : FALSE
OBVIOUS

LEMMA OneFacts ==
    ASSUME NEW n \in Nat, n <= 1, n > 0
    PROVE  n = 1
OBVIOUS

LEMMA CommandFacts ==
    /\ Explorer!Nothing \notin Command /\ Explorer!None = <<>>
    /\ \A c \in Command : /\ c.kind \in FlashKinds /\ c.page \in Pages /\ c.chained \in BOOLEAN /\ c.clean \in BOOLEAN
                          /\ c.buf \in Seq(Answers)
    /\ \A s \in Sent : s.kind \in FlashKinds /\ s.page \in Pages
    /\ \A l \in RowLine : l.kind = "row" /\ l.page \in Pages /\ l.row \in 1 .. Rows
    /\ \A l \in Answers : l.kind = "row" => l \in RowLine
<1>1. Explorer!Nothing.kind = "none" /\ \A c \in Command : c.kind \in FlashKinds
  BY DEF Explorer!Nothing, Command
<1>2. Explorer!Nothing \notin Command
  BY <1>1 DEF FlashKinds
<1> QED  BY <1>2 DEF Command, Sent, RowLine, Answers, Explorer!None

\* As many increasing numbers of 1..n as n are all of them.
LEMMA AllOfThem ==
    ASSUME NEW n \in Nat, NEW f \in [1 .. n -> 1 .. n],
           \A i, j \in 1 .. n : i < j => f[i] < f[j]
    PROVE  \A i \in 1 .. n : f[i] = i
<1> SUFFICES ASSUME NEW i \in 1 .. n PROVE f[i] = i
  OBVIOUS
<1>1. i \in Nat /\ f[i] \in 1 .. n /\ f[i] \in Nat
  OBVIOUS
<1>2. \A a, b \in 1 .. n : f[a] = f[b] => a = b
  <2>1. SUFFICES ASSUME NEW a \in 1 .. n, NEW b \in 1 .. n, f[a] = f[b], a # b PROVE FALSE
    OBVIOUS
  <2>2. f[a] \in Nat /\ f[b] \in Nat /\ (a < b \/ b < a)
    BY <2>1
  <2> QED  BY <2>1, <2>2
<1>3. i <= f[i]
  <2> DEFINE g == [a \in 1 .. i |-> f[a]]
  <2>1. \A a \in 1 .. i : a \in 1 .. n /\ (a = i \/ a < i)
    BY <1>1
  <2>2. \A a \in 1 .. i : f[a] \in 1 .. n /\ f[a] <= f[i]
    <3>1. TAKE a \in 1 .. i
    <3>2. f[a] \in 1 .. n /\ a \in 1 .. n /\ (a = i \/ f[a] < f[i])
      BY <2>1
    <3> QED  BY SMTT(25), <1>1, <3>2
  <2>3. \A a \in 1 .. i : f[a] \in 1 .. f[i]
    BY <1>1, <2>2
  <2>4. g \in [1 .. i -> 1 .. f[i]] /\ \A a, b \in 1 .. i : g[a] = g[b] => a = b
    BY <1>2, <2>1, <2>3
  <2> HIDE DEF g
  <2>5. g \in Injection(1 .. i, 1 .. f[i])
    BY <2>4 DEF Injection, IsInjective
  <2>6. /\ IsFiniteSet(1 .. f[i]) /\ Cardinality(1 .. f[i]) = f[i] /\ Cardinality(1 .. i) = i
    BY <1>1, FS_Interval
  <2>7. Cardinality(1 .. i) <= Cardinality(1 .. f[i])
    BY <2>5, <2>6, FS_Injection
  <2> QED  BY <2>6, <2>7
<1>4. f[i] <= i
  <2> DEFINE g == [a \in i .. n |-> f[a]]
  <2>1. \A a \in i .. n : a \in 1 .. n /\ (a = i \/ i < a)
    BY <1>1
  <2>2. \A a \in i .. n : f[a] \in 1 .. n /\ f[i] <= f[a]
    BY SMTT(25), <1>1, <2>1
  <2>3. \A a \in i .. n : f[a] \in f[i] .. n
    BY <1>1, <2>2
  <2>4. g \in [i .. n -> f[i] .. n] /\ \A a, b \in i .. n : g[a] = g[b] => a = b
    BY <1>2, <2>1, <2>3
  <2> HIDE DEF g
  <2>5. g \in Injection(i .. n, f[i] .. n)
    BY <2>4 DEF Injection, IsInjective
  <2>6. /\ IsFiniteSet(f[i] .. n) /\ Cardinality(f[i] .. n) = n - f[i] + 1 /\ Cardinality(i .. n) = n - i + 1
    BY SMTT(25), <1>1, FS_Interval
  <2>7. Cardinality(i .. n) <= Cardinality(f[i] .. n)
    BY <2>5, <2>6, FS_Injection
  <2> QED  BY <1>1, <2>6, <2>7
<1> QED  BY <1>1, <1>3, <1>4

\* All rows of a page, in order, are the page.
LEMMA WholePage ==
    ASSUME NEW p \in Pages, NEW rws, Len(rws) = Rows, rws \in Seq(Answers),
           \A i \in 1 .. Rows : rws[i] \in RowLine /\ rws[i].page = p /\ rws[i].val = f_flash[p],
           \A i, j \in 1 .. Rows : i < j => rws[i].row < rws[j].row
    PROVE  rws = [i \in 1 .. Rows |-> Explorer!Row(p, i)]
<1>1. Rows \in Nat
  BY ExplorerAssumption
<1> DEFINE f == [i \in 1 .. Rows |-> rws[i].row]
<1>2. \A i \in 1 .. Rows : rws[i].row \in 1 .. Rows
  BY CommandFacts
<1>3. f \in [1 .. Rows -> 1 .. Rows] /\ \A i, j \in 1 .. Rows : i < j => f[i] < f[j]
  BY <1>2
<1> HIDE DEF f
<1>4. \A i \in 1 .. Rows : f[i] = i
  BY <1>1, <1>3, AllOfThem
<1>5. \A i \in 1 .. Rows : rws[i] = Explorer!Row(p, i)
  <2>1. TAKE i \in 1 .. Rows
  <2>2. rws[i].row = i
    BY <1>4 DEF f
  <2> QED  BY <2>2 DEF RowLine, Explorer!Row
<1>6. rws = [i \in 1 .. Rows |-> rws[i]]
  BY <1>1
<1> QED  BY <1>5, <1>6

\* Steps that touch neither a command, nor a line, nor a page.
LEMMA ExplorerIdles ==
    ASSUME ExplorerInv, ExplorerShape', ExplorerFlags',
           UNCHANGED <<f_pending, f_wire, f_lines, page_words, page_status, f_flash, unsure>>
    PROVE  ExplorerInv'
BY DEF ExplorerInv, ExplorerChanges, ChangeComes, ExplorerOwn, OwnRow, ErasedLine, Explorer!PageIsShown, Explorer!Changing, Explorer!busy,
       Explorer!Row

LEMMA ExplorerEnds ==
    ASSUME ExplorerInv, ExplorerShape', ExplorerFlags', f_wire' = <<>>,
           UNCHANGED <<f_pending, f_lines, page_words, page_status, f_flash, unsure>>
    PROVE  ExplorerInv'
<1>1. Len(f_wire') = 0
  BY ShortFacts
<1>2. ExplorerChanges' /\ ExplorerOwn'
  BY <1>1 DEF ExplorerInv, ExplorerChanges, ChangeComes, ExplorerOwn, OwnRow, ErasedLine
<1>3. Explorer!PageIsShown'
  BY DEF ExplorerInv, Explorer!PageIsShown, Explorer!Changing, Explorer!busy, Explorer!Row
<1> QED  BY <1>2, <1>3 DEF ExplorerInv

LEMMA ExplorerGivesUp ==
    ASSUME ExplorerInv, ExplorerShape', ExplorerFlags', Explorer!GiveUp,
           UNCHANGED <<f_wire, f_lines, page_words, page_status, f_flash>>
    PROVE  ExplorerInv'
<1>1. /\ f_pending' = Explorer!Nothing /\ unsure \subseteq unsure'
      /\ \A p \in Pages : Explorer!Changing(p) => p \in unsure'
  BY DEF Explorer!GiveUp, Explorer!Changing, Explorer!busy
<1>2. \A p \in Pages : ChangeComes(p)' => ChangeComes(p)
  BY DEF ChangeComes
<1>3. ExplorerChanges'
  BY <1>1, <1>2 DEF ExplorerInv, ExplorerChanges
<1>4. ExplorerOwn'
  BY <1>1 DEF ExplorerOwn
<1>5. Explorer!PageIsShown'
  BY <1>1 DEF ExplorerInv, Explorer!PageIsShown, Explorer!Row
<1> QED  BY <1>3, <1>4, <1>5 DEF ExplorerInv

\* A command that is sent: what the wire has of others, it has had before.
LEMMA ExplorerSends ==
    ASSUME ExplorerInv, ~Explorer!busy, NEW kind \in FlashKinds, NEW p \in Pages, NEW ch \in BOOLEAN,
           Explorer!SendCmd(kind, p, ch)
    PROVE  /\ f_pending' \in Command /\ f_pending'.buf = <<>> /\ f_wire' \in Seq(Sent)
           /\ f_sends' \in 0 .. MaxReads /\ stray' \in 0 .. MaxTimers /\ f_timer' \in BOOLEAN
           /\ UNCHANGED <<f_lines, page_words, page_status, f_flash, unsure>> =>
                ExplorerChanges' /\ ExplorerOwn' /\ Explorer!PageIsShown'
<1>1. f_wire \in Seq(Sent) /\ f_lines \in Seq(Answers) /\ Len(f_wire) \in Nat
  <2>1. f_wire \in Seq(Sent) /\ f_lines \in Seq(Answers)
    BY DEF ExplorerInv, ExplorerShape
  <2> QED  BY <2>1
<1>2. PICK clean \in BOOLEAN : clean = (f_wire = <<>> /\ f_lines = <<>>)
  OBVIOUS
<1>3. f_pending' = [kind |-> kind, page |-> p, chained |-> ch, buf |-> <<>>, clean |-> clean]
  BY <1>2 DEF Explorer!SendCmd
<1>4. <<>> \in Seq(Answers) /\ Len(<<>>) = 0
  BY ShortFacts
<1>5. /\ f_pending' \in Command /\ f_pending'.kind = kind /\ f_pending'.page = p /\ f_pending'.clean = clean
      /\ f_pending'.buf = <<>>
  BY <1>3, <1>4 DEF Command
<1>6. f_pending' # Explorer!Nothing
  BY <1>5, CommandFacts
<1>7. PICK e \in Sent : e = [kind |-> kind, page |-> p]
  BY DEF Sent
<1>8. e.kind = kind /\ e.page = p
  BY <1>7
<1>9. f_wire' = f_wire \/ f_wire' = Append(f_wire, e)
  BY <1>7 DEF Explorer!SendCmd
<1>10. /\ f_wire' \in Seq(Sent) /\ Len(f_wire') \in Nat /\ Len(f_wire') <= Len(f_wire) + 1
       /\ \A k \in 1 .. Len(f_wire') : \/ k \in 1 .. Len(f_wire) /\ f_wire'[k] = f_wire[k]
                                       \/ k = Len(f_wire) + 1 /\ f_wire'[k] = e
  <2>1. CASE f_wire' = f_wire
    BY <1>1, <2>1
  <2>2. CASE f_wire' = Append(f_wire, e)
    <3>1. /\ f_wire' \in Seq(Sent) /\ Len(f_wire') = Len(f_wire) + 1 /\ f_wire'[Len(f_wire) + 1] = e
          /\ \A i \in 1 .. Len(f_wire) : f_wire'[i] = f_wire[i]
      BY <1>1, <2>2, AppendFacts
    <3>2. \A k \in 1 .. Len(f_wire') : k \in 1 .. Len(f_wire) \/ k = Len(f_wire) + 1
      BY <1>1, <3>1
    <3> QED  BY <1>1, <3>1, <3>2
  <2> QED  BY <1>9, <2>1, <2>2
<1>11. f_sends' \in 0 .. MaxReads /\ stray' \in 0 .. MaxTimers /\ f_timer' \in BOOLEAN
  <2>1. f_sends \in 0 .. MaxReads /\ stray \in 0 .. MaxTimers /\ MaxReads \in Nat /\ MaxTimers \in Nat
    BY ExplorerAssumption DEF ExplorerInv, ExplorerShape
  <2>2. f_sends < MaxReads /\ f_sends' = f_sends + 1 /\ f_timer' = TRUE
    BY DEF Explorer!SendCmd
  <2>3. stray' <= MaxTimers /\ stray' \in {stray + 0, stray + 1}
    BY DEF Explorer!SendCmd
  <2> QED  BY <2>1, <2>2, <2>3
<1>12. ASSUME UNCHANGED <<f_lines, page_words, page_status, f_flash, unsure>>
       PROVE  ExplorerChanges' /\ ExplorerOwn' /\ Explorer!PageIsShown'
  <2>1. ExplorerChanges'
    <3>1. SUFFICES ASSUME NEW q \in Pages, ChangeComes(q)'
                   PROVE  q \in unsure \/ Explorer!Changing(q)'
      BY <1>12 DEF ExplorerChanges
    <3>2. PICK k \in 1 .. Len(f_wire') : f_wire'[k].kind # "frd" /\ f_wire'[k].page = q
      BY <3>1 DEF ChangeComes
    <3>3. CASE k \in 1 .. Len(f_wire) /\ f_wire'[k] = f_wire[k]
      <4>1. ChangeComes(q)
        BY <3>2, <3>3 DEF ChangeComes
      <4> QED  BY <4>1 DEF ExplorerInv, ExplorerChanges, Explorer!Changing
    <3>4. CASE f_wire'[k] = e
      BY <1>5, <1>6, <1>8, <3>2, <3>4 DEF Explorer!Changing, Explorer!busy
    <3> QED  BY <1>10, <3>3, <3>4
  <2>2. ExplorerOwn'
    <3>1. SUFFICES ASSUME clean PROVE ExplorerOwn'
      BY <1>5 DEF ExplorerOwn
    <3>2. Len(f_wire) = 0 /\ Len(f_lines') = 0 /\ Len(f_pending'.buf) = 0
      BY <1>2, <1>4, <1>5, <1>12, <3>1
    <3>3. /\ Len(f_wire') <= 1
          /\ \A k \in 1 .. Len(f_wire') : f_wire'[k] = e
      BY <1>10, <3>2
    <3>4. Len(f_wire') > 0 => f_wire'[1] = e
      BY <1>10, <3>3
    <3>5. \A k \in 1 .. Len(f_lines') : FALSE
      BY <3>2, NoneFacts
    <3>6. \A k \in 1 .. Len(f_pending'.buf) : FALSE
      BY <3>2, NoneFacts
    <3> QED  BY <1>5, <1>8, <3>2, <3>3, <3>4, <3>5, <3>6 DEF ExplorerOwn
  <2>3. Explorer!PageIsShown'
    BY <1>12 DEF ExplorerInv, Explorer!PageIsShown, Explorer!Changing, Explorer!Row
  <2> QED  BY <2>1, <2>2, <2>3
<1> QED  BY <1>5, <1>10, <1>11, <1>12

\* _send_uart_cmd: a command of its own, behind those on the wire.
LEMMA ExplorerExtra ==
    ASSUME ExplorerInv, NEW kind \in {"frd", "ferase"}, NEW p \in Pages, Explorer!SendUartCmd(kind, p)
    PROVE  ExplorerInv'
<1>1. /\ UNCHANGED <<worker, port, gone, f_timer, stray, shots, range_queue, page_words, page_status, f_lines, f_flash>>
      /\ f_sends < MaxReads /\ f_sends' = f_sends + 1
      /\ f_pending' = (IF Explorer!busy THEN [f_pending EXCEPT !.clean = FALSE] ELSE f_pending)
      /\ unsure' = (IF kind = "frd" THEN unsure ELSE unsure \cup {p})
  BY DEF Explorer!SendUartCmd, Explorer!link, Explorer!map
<1>2. PICK e \in Sent : e = [kind |-> kind, page |-> p]
  BY DEF Sent, FlashKinds
<1>3. e.kind = kind /\ e.page = p
  BY <1>2
<1>4. f_wire' = f_wire \/ f_wire' = Append(f_wire, e)
  BY <1>2 DEF Explorer!SendUartCmd
<1>5. f_wire \in Seq(Sent) /\ f_pending \in Command \cup {Explorer!Nothing}
  BY DEF ExplorerInv, ExplorerShape
<1>6. /\ f_wire' \in Seq(Sent)
      /\ \A k \in 1 .. Len(f_wire') : \/ k \in 1 .. Len(f_wire) /\ f_wire'[k] = f_wire[k]
                                      \/ f_wire'[k] = e
  <2>1. CASE f_wire' = f_wire
    BY <1>5, <2>1
  <2>2. CASE f_wire' = Append(f_wire, e)
    <3>1. /\ f_wire' \in Seq(Sent) /\ Len(f_wire') = Len(f_wire) + 1 /\ f_wire'[Len(f_wire) + 1] = e
          /\ \A i \in 1 .. Len(f_wire) : f_wire'[i] = f_wire[i]
      BY <1>5, <2>2, AppendFacts
    <3>2. \A k \in 1 .. Len(f_wire') : k \in 1 .. Len(f_wire) \/ k = Len(f_wire) + 1
      BY <1>5, <3>1
    <3> QED  BY <3>1, <3>2
  <2> QED  BY <1>4, <2>1, <2>2
<1>7. /\ f_pending' \in Command \cup {Explorer!Nothing}
      /\ f_pending' # Explorer!Nothing => /\ f_pending # Explorer!Nothing /\ ~f_pending'.clean
                                          /\ f_pending'.buf = f_pending.buf
      /\ \A q \in Pages : Explorer!Changing(q)' <=> Explorer!Changing(q)
  <2>1. CASE Explorer!busy
    <3>1. f_pending \in Command /\ f_pending' = [f_pending EXCEPT !.clean = FALSE]
      BY <1>1, <1>5, <2>1 DEF Explorer!busy
    <3>2. /\ f_pending' \in Command /\ f_pending'.clean = FALSE
          /\ f_pending'.buf = f_pending.buf /\ f_pending'.kind = f_pending.kind
          /\ f_pending'.page = f_pending.page
      BY <3>1 DEF Command
    <3> QED  BY <2>1, <3>2, CommandFacts DEF Explorer!Changing, Explorer!busy
  <2>2. CASE ~Explorer!busy
    BY <1>1, <2>2 DEF Explorer!Changing, Explorer!busy
  <2> QED  BY <2>1, <2>2
<1>8. unsure' \subseteq Pages /\ unsure \subseteq unsure' /\ (kind # "frd" => p \in unsure')
  BY <1>1 DEF ExplorerInv, ExplorerShape
<1>9. f_sends' \in 0 .. MaxReads
  <2>1. f_sends \in 0 .. MaxReads /\ MaxReads \in Nat
    BY ExplorerAssumption DEF ExplorerInv, ExplorerShape
  <2> QED  BY <1>1, <2>1
<1>10. ExplorerShape' /\ ExplorerFlags'
  BY <1>1, <1>6, <1>7, <1>8, <1>9 DEF ExplorerInv, ExplorerShape, ExplorerFlags
<1>11. ExplorerChanges'
  <2>1. SUFFICES ASSUME NEW q \in Pages, ChangeComes(q)'
                 PROVE  q \in unsure' \/ Explorer!Changing(q)
    BY <1>1, <1>7 DEF ExplorerChanges
  <2>2. PICK k \in 1 .. Len(f_wire') : f_wire'[k].kind # "frd" /\ f_wire'[k].page = q
    BY <2>1 DEF ChangeComes
  <2>3. CASE k \in 1 .. Len(f_wire) /\ f_wire'[k] = f_wire[k]
    <3>1. ChangeComes(q)
      BY <2>2, <2>3 DEF ChangeComes
    <3> QED  BY <1>8, <3>1 DEF ExplorerInv, ExplorerChanges
  <2>4. CASE f_wire'[k] = e
    BY <1>3, <1>8, <2>2, <2>4
  <2> QED  BY <1>6, <2>3, <2>4
<1>12. ExplorerOwn'
  BY <1>7 DEF ExplorerOwn
<1>13. Explorer!PageIsShown'
  BY <1>1, <1>7, <1>8 DEF ExplorerInv, Explorer!PageIsShown, Explorer!Row
<1> QED  BY <1>10, <1>11, <1>12, <1>13 DEF ExplorerInv

\* The beacon carries out the first command or refuses it, and its lines arrive whole or not.
LEMMA ExplorerHears ==
    ASSUME ExplorerInv, ExplorerShape', ExplorerFlags', f_wire # <<>>, f_wire' = Tail(f_wire),
           UNCHANGED <<f_pending, page_words, page_status, unsure>>, NEW w, w = Head(f_wire),
           \A p \in Pages : f_flash'[p] = f_flash[p] \/ (w.kind # "frd" /\ w.page = p),
           NEW out \in Seq(Answers), f_lines' = f_lines \o out,
           \A k \in 1 .. Len(out) : w.kind = "ferase" /\ ErasedLine(out[k]) => f_flash'[w.page] = "FF",
           w.kind = "frd" => /\ \A k \in 1 .. Len(out) : /\ out[k] \in RowLine /\ out[k].page = w.page
                                                         /\ out[k].val = f_flash[w.page]
                             /\ \A i, j \in 1 .. Len(out) : i < j => out[i].row < out[j].row
    PROVE  ExplorerInv'
<1>1. f_wire \in Seq(Sent) /\ f_lines \in Seq(Answers) /\ f_pending \in Command \cup {Explorer!Nothing}
  BY DEF ExplorerInv, ExplorerShape
<1>2. /\ w \in Sent /\ w = f_wire[1] /\ 1 \in 1 .. Len(f_wire)
      /\ Len(f_wire) \in Nat /\ Len(f_wire') = Len(f_wire) - 1
      /\ \A k \in 1 .. Len(f_wire') : f_wire'[k] = f_wire[k + 1] /\ k + 1 \in 1 .. Len(f_wire)
  BY <1>1, TailFacts
<1>3. \A q \in Pages : ChangeComes(q)' => ChangeComes(q)
  BY <1>2 DEF ChangeComes
<1>4. ExplorerChanges'
  BY <1>3 DEF ExplorerInv, ExplorerChanges, Explorer!Changing, Explorer!busy
<1>5. \A q \in Pages : w.kind # "frd" /\ w.page = q => ChangeComes(q)
  BY <1>2 DEF ChangeComes
<1>6. Explorer!PageIsShown'
  <2>1. SUFFICES ASSUME NEW q \in Pages, q \notin unsure, ~Explorer!Changing(q)
                 PROVE  /\ page_words[q] # Explorer!None =>
                             page_words[q] = [i \in 1 .. Rows |-> Explorer!Row(q, i)']
                        /\ page_status[q] = "erased" => f_flash'[q] = "FF"
    BY DEF Explorer!PageIsShown, Explorer!Changing, Explorer!busy
  <2>2. ~ChangeComes(q)
    BY <2>1 DEF ExplorerInv, ExplorerChanges
  <2>3. f_flash'[q] = f_flash[q]
    BY <1>5, <2>2
  <2>4. \A i : Explorer!Row(q, i)' = Explorer!Row(q, i)
    BY <2>3 DEF Explorer!Row
  <2> QED  BY <2>1, <2>3, <2>4 DEF ExplorerInv, Explorer!PageIsShown
<1>7. ExplorerOwn'
  <2>1. SUFFICES ASSUME f_pending # Explorer!Nothing, f_pending.clean PROVE ExplorerOwn'
    BY DEF ExplorerOwn
  <2>2. /\ Len(f_wire) = 1 /\ w.kind = f_pending.kind /\ w.page = f_pending.page
        /\ Len(f_pending.buf) = 0 /\ Len(f_lines) = 0 /\ f_pending.page \in Pages
    <3>1. Len(f_wire) <= 1 /\ Len(f_wire) > 0 /\ Len(f_wire) \in Nat
      BY <1>2, <2>1 DEF ExplorerInv, ExplorerOwn
    <3>2. /\ w.kind = f_pending.kind /\ w.page = f_pending.page
          /\ Len(f_pending.buf) = 0 /\ Len(f_lines) = 0
      BY <1>2, <2>1, <3>1 DEF ExplorerInv, ExplorerOwn
    <3>3. Len(f_wire) = 1
      BY <3>1, OneFacts
    <3>4. f_pending.page \in Pages
      BY <1>1, <2>1, CommandFacts
    <3> QED  BY <3>2, <3>3, <3>4
  <2>3. Len(f_wire') <= 1 /\ ~(Len(f_wire') > 0) /\ f_pending' = f_pending
    <3>1. Len(f_wire') = 0
      BY <1>2, <2>2
    <3>2. f_pending' = f_pending
      OBVIOUS
    <3> QED  BY <3>1, <3>2, NoneFacts
  <2>4. f_lines' = out
    <3>1. f_lines = <<>>
      BY <1>1, <2>2
    <3> QED  BY <3>1
  <2>5. CASE f_pending.kind = "ferase"
    <3>1. \A k \in 1 .. Len(f_lines') : ErasedLine(f_lines'[k]) => f_flash'[f_pending.page] = "FF"
      BY <2>2, <2>4, <2>5
    <3>2. \A l : ErasedLine(l)' <=> ErasedLine(l)
      BY DEF ErasedLine
    <3> QED  BY <2>3, <2>5, <3>1, <3>2 DEF ExplorerOwn, ErasedLine
  <2>6. CASE f_pending.kind = "frd"
    <3>1. f_flash'[f_pending.page] = f_flash[f_pending.page]
      BY <2>2, <2>6
    <3>2. \A k \in 1 .. Len(f_lines') : OwnRow(f_lines[k])'
      BY <2>2, <2>4, <2>6, <3>1 DEF OwnRow
    <3>3. \A i, j \in 1 .. Len(f_lines') : i < j => f_lines'[i].row < f_lines'[j].row
      BY <2>2, <2>4, <2>6
    <3>4. \A k \in 1 .. Len(f_pending'.buf) : FALSE
      <4>1. \A k \in 1 .. Len(f_pending.buf) : FALSE
        BY <2>2, NoneFacts
      <4> QED  BY <2>3, <4>1
    <3> QED  BY <2>3, <2>6, <3>2, <3>3, <3>4 DEF ExplorerOwn
  <2>7. CASE f_pending.kind # "ferase" /\ f_pending.kind # "frd"
    BY <2>3, <2>7 DEF ExplorerOwn
  <2> QED  BY <2>5, <2>6, <2>7
<1> QED  BY <1>4, <1>6, <1>7 DEF ExplorerInv

\* What a page is taken to be after an answer: it is so, or the page is unsure.
LEMMA ExplorerTold ==
    ASSUME ExplorerInv, Explorer!busy, f_pending' = Explorer!Nothing, NEW p, p = f_pending.page,
           UNCHANGED <<f_wire, f_flash>>,
           NEW pw \in Seq(Answers), NEW status \in Statuses, Len(pw) \in {0, Rows},
           page_words' = [page_words EXCEPT ![p] = pw],
           page_status' = [page_status EXCEPT ![p] = status],
           \A q \in Pages : q # p /\ q \in unsure => q \in unsure',
           p \notin unsure' =>
             /\ Len(f_wire) = 0
             /\ pw # Explorer!None => pw = [i \in 1 .. Rows |-> Explorer!Row(p, i)]
             /\ status = "erased" => f_flash[p] = "FF"
    PROVE  /\ ExplorerChanges' /\ ExplorerOwn' /\ Explorer!PageIsShown'
           /\ page_words' \in [Pages -> Seq(Answers)] /\ page_status' \in [Pages -> Statuses]
           /\ \A q \in Pages : Len(page_words'[q]) \in {0, Rows}
<1>1. /\ f_pending \in Command /\ page_words \in [Pages -> Seq(Answers)]
      /\ page_status \in [Pages -> Statuses]
  BY DEF ExplorerInv, ExplorerShape, Explorer!busy
<1>2. p \in Pages
  BY <1>1, CommandFacts
<1>3. \A q \in Pages : /\ page_words'[q] = (IF q = p THEN pw ELSE page_words[q])
                       /\ page_status'[q] = (IF q = p THEN status ELSE page_status[q])
  BY <1>1, <1>2
<1>4. \A q \in Pages : ChangeComes(q)' => ChangeComes(q)
  BY DEF ChangeComes
<1>5. \A q \in Pages : Explorer!Changing(q) => q = p
  BY DEF Explorer!Changing
<1>6. ExplorerChanges'
  <2>1. SUFFICES ASSUME NEW q \in Pages, ChangeComes(q) PROVE q \in unsure'
    BY <1>4 DEF ExplorerChanges
  <2>2. q \in unsure \/ Explorer!Changing(q)
    BY <2>1 DEF ExplorerInv, ExplorerChanges
  <2>3. ~(Len(f_wire) = 0)
    BY <2>1, NoneFacts DEF ChangeComes
  <2> QED  BY <1>5, <2>2, <2>3
<1>7. ExplorerOwn'
  BY DEF ExplorerOwn
<1>8. Explorer!PageIsShown'
  <2>1. SUFFICES ASSUME NEW q \in Pages, q \notin unsure'
                 PROVE  /\ page_words'[q] # Explorer!None =>
                             page_words'[q] = [i \in 1 .. Rows |-> Explorer!Row(q, i)']
                        /\ page_status'[q] = "erased" => f_flash'[q] = "FF"
    BY DEF Explorer!PageIsShown
  <2>2. \A i : Explorer!Row(q, i)' = Explorer!Row(q, i)
    BY DEF Explorer!Row
  <2>3. CASE q = p
    BY <1>3, <2>1, <2>2, <2>3
  <2>4. CASE q # p
    <3>1. page_words'[q] = page_words[q] /\ page_status'[q] = page_status[q] /\ ~Explorer!Changing(q) /\ q \notin unsure
      BY <1>3, <1>5, <2>1, <2>4
    <3> QED  BY <2>2, <3>1 DEF ExplorerInv, Explorer!PageIsShown
  <2> QED  BY <2>3, <2>4
<1>9. /\ page_words' \in [Pages -> Seq(Answers)] /\ page_status' \in [Pages -> Statuses]
      /\ \A q \in Pages : Len(page_words'[q]) \in {0, Rows}
  BY <1>1, <1>3 DEF ExplorerInv, ExplorerShape
<1> QED  BY <1>6, <1>7, <1>8, <1>9

LEMMA ExplorerTakesRow ==
    ASSUME ExplorerInv, f_lines # <<>>, f_lines' = Tail(f_lines), NEW line, line = Head(f_lines),
           Explorer!busy, Explorer!TakeRow(line),
           UNCHANGED <<worker, port, gone, stray, range_queue, f_sends, f_wire, f_flash>>
    PROVE  ExplorerInv'
<1>1. /\ f_pending \in Command /\ f_lines \in Seq(Answers) /\ f_wire \in Seq(Sent)
      /\ page_words \in [Pages -> Seq(Answers)] /\ unsure \subseteq Pages /\ shots \in Nat
      /\ f_timer \in BOOLEAN /\ Len(f_pending.buf) < Rows /\ Rows \in Nat \ {0}
  BY ExplorerAssumption DEF ExplorerInv, ExplorerShape, ExplorerFlags, Explorer!busy
<1>2. /\ f_pending.page \in Pages /\ f_pending.clean \in BOOLEAN
      /\ f_pending.buf \in Seq(Answers) /\ Len(f_pending.buf) \in Nat
      /\ f_pending.chained \in BOOLEAN
  <2>1. f_pending.buf \in Seq(Answers)
    BY <1>1, CommandFacts
  <2> QED  BY <1>1, <2>1, CommandFacts
<1>3. /\ line \in Answers /\ line = f_lines[1] /\ f_lines' \in Seq(Answers) /\ 1 \in 1 .. Len(f_lines) /\ Len(f_lines) \in Nat
      /\ Len(f_lines) > 0
      /\ \A k \in 1 .. Len(f_lines') : f_lines'[k] = f_lines[k + 1] /\ k + 1 \in 1 .. Len(f_lines)
  BY <1>1, TailFacts
<1>4. f_pending.kind = "frd" /\ line.kind = "row"
  BY DEF Explorer!TakeRow
<1>5. PICK e \in Answers : e = line
  BY <1>3
<1>6. PICK rws : rws = Append(f_pending.buf, e)
  OBVIOUS
<1>7. PICK len : len = Len(f_pending.buf)
  OBVIOUS
<1>8. /\ rws \in Seq(Answers) /\ Len(rws) = len + 1 /\ len \in Nat /\ rws[len + 1] = e
      /\ \A k \in 1 .. len : rws[k] = f_pending.buf[k]
  BY <1>2, <1>5, <1>6, <1>7, AppendFacts
<1>9. ASSUME f_pending.clean
      PROVE  /\ Len(f_wire) = 0 /\ OwnRow(line) /\ e = line
             /\ \A k \in 1 .. len + 1 : OwnRow(rws[k])
             /\ \A i, j \in 1 .. len + 1 : i < j => rws[i].row < rws[j].row
  <2>1. /\ Len(f_wire) <= 1 /\ ~(Len(f_wire) > 0)
        /\ \A k \in 1 .. len : OwnRow(f_pending.buf[k])
        /\ OwnRow(line)
        /\ \A i, j \in 1 .. len : i < j => f_pending.buf[i].row < f_pending.buf[j].row
        /\ \A i \in 1 .. len : f_pending.buf[i].row < line.row
    BY <1>3, <1>4, <1>7, <1>9 DEF ExplorerInv, ExplorerOwn, Explorer!busy
  <2>2. Len(f_wire) = 0
    BY <1>1, <2>1
  <2>3. e = line
    BY <1>5, <1>9
  <2>4. \A k \in 1 .. len + 1 : OwnRow(rws[k])
    <3>1. TAKE k \in 1 .. len + 1
    <3>2. k \in 1 .. len \/ k = len + 1
      BY <1>8
    <3> QED  BY <1>8, <2>1, <2>3, <3>2
  <2>5. \A i, j \in 1 .. len + 1 : i < j => rws[i].row < rws[j].row
    <3>1. SUFFICES ASSUME NEW i \in 1 .. len + 1, NEW j \in 1 .. len + 1, i < j PROVE rws[i].row < rws[j].row
      OBVIOUS
    <3>2. i \in 1 .. len /\ (j \in 1 .. len \/ j = len + 1)
      BY <1>8, <3>1
    <3> QED  BY <1>8, <2>1, <2>3, <3>1, <3>2
  <2> QED  BY <2>1, <2>2, <2>3, <2>4, <2>5
<1>10. CASE Len(rws) < Rows
  <2>1. f_pending' = [f_pending EXCEPT !.buf = rws] /\ UNCHANGED <<f_timer, shots, page_words, page_status, unsure>>
    BY <1>5, <1>6, <1>10 DEF Explorer!TakeRow, Explorer!map
  <2>2. /\ f_pending' \in Command /\ f_pending'.buf = rws /\ f_pending'.kind = f_pending.kind
        /\ f_pending'.page = f_pending.page /\ f_pending'.clean = f_pending.clean
    BY <1>1, <1>8, <2>1 DEF Command
  <2>3. /\ f_pending' # Explorer!Nothing
        /\ \A q \in Pages : Explorer!Changing(q)' <=> Explorer!Changing(q)
    BY <2>2, CommandFacts DEF Explorer!Changing, Explorer!busy
  <2>4. ExplorerShape' /\ ExplorerFlags'
    BY <1>3, <1>10, <2>1, <2>2 DEF ExplorerInv, ExplorerShape, ExplorerFlags
  <2>5. ExplorerChanges'
    <3>1. \A q \in Pages : ChangeComes(q)' => ChangeComes(q)
      BY DEF ChangeComes
    <3> QED  BY <2>1, <2>3, <3>1 DEF ExplorerInv, ExplorerChanges
  <2>6. Explorer!PageIsShown'
    BY <2>1, <2>3 DEF ExplorerInv, Explorer!PageIsShown, Explorer!Row
  <2>7. ExplorerOwn'
    <3>1. SUFFICES ASSUME f_pending.clean PROVE ExplorerOwn'
      BY <2>2 DEF ExplorerOwn
    <3>2. Len(f_wire') <= 1 /\ ~(Len(f_wire') > 0) /\ f_pending'.kind # "ferase"
      BY <1>4, <1>9, <2>2, <3>1
    <3>3. \A l : OwnRow(l) <=> /\ l \in RowLine /\ l.page = f_pending'.page
                               /\ l.val = f_flash'[f_pending'.page]
      BY <2>2 DEF OwnRow
    <3>4. /\ \A k \in 1 .. Len(f_lines) : OwnRow(f_lines[k])
          /\ \A i, j \in 1 .. Len(f_lines) : i < j => f_lines[i].row < f_lines[j].row
          /\ \A i \in 1 .. len, j \in 1 .. Len(f_lines) : f_pending.buf[i].row < f_lines[j].row
      BY <1>4, <1>7, <3>1 DEF ExplorerInv, ExplorerOwn, Explorer!busy
    <3>5. \A k \in 1 .. Len(f_lines') : OwnRow(f_lines'[k])
      BY <1>3, <3>4
    <3>6. \A i, j \in 1 .. Len(f_lines') : i < j => f_lines'[i].row < f_lines'[j].row
      <4>1. SUFFICES ASSUME NEW i \in 1 .. Len(f_lines'), NEW j \in 1 .. Len(f_lines'), i < j
                     PROVE  f_lines'[i].row < f_lines'[j].row
        OBVIOUS
      <4>2. i + 1 < j + 1
        BY <4>1
      <4>3. /\ f_lines'[i] = f_lines[i + 1] /\ i + 1 \in 1 .. Len(f_lines)
            /\ f_lines'[j] = f_lines[j + 1] /\ j + 1 \in 1 .. Len(f_lines)
        BY <1>3
      <4> QED  BY <3>4, <4>2, <4>3
    <3>7. \A i \in 1 .. len + 1, j \in 1 .. Len(f_lines') : rws[i].row < f_lines'[j].row
      <4>1. SUFFICES ASSUME NEW i \in 1 .. len + 1, NEW j \in 1 .. Len(f_lines') PROVE rws[i].row < f_lines'[j].row
        OBVIOUS
      <4>2. f_lines'[j] = f_lines[j + 1] /\ j + 1 \in 1 .. Len(f_lines) /\ 1 < j + 1
        BY <1>3
      <4>3. CASE i \in 1 .. len
        BY <1>8, <3>4, <4>2, <4>3
      <4>4. CASE i = len + 1
        BY <1>3, <1>8, <1>9, <3>1, <3>4, <4>2, <4>4
      <4> QED  BY <1>8, <4>3, <4>4
    <3>8. \A k \in 1 .. len + 1 : OwnRow(rws[k])
      BY <1>9, <3>1
    <3>9. \A i, j \in 1 .. len + 1 : i < j => rws[i].row < rws[j].row
      BY <1>9, <3>1
    <3> QED  BY <1>8, <2>2, <3>2, <3>3, <3>5, <3>6, <3>7, <3>8, <3>9 DEF ExplorerOwn, OwnRow
  <2> QED  BY <2>4, <2>5, <2>6, <2>7 DEF ExplorerInv
<1>11. CASE ~(Len(rws) < Rows)
  <2>1. Len(rws) = Rows /\ len + 1 = Rows
    BY <1>1, <1>7, <1>8, <1>11
  <2> DEFINE blank == \A i \in 1 .. Rows : rws[i].val = "FF"
  <2>2. PICK p : p = f_pending.page
    OBVIOUS
  <2>3. PICK status \in Statuses : status = (IF blank THEN "erased" ELSE "data")
    BY DEF Statuses
  <2>4. /\ f_pending' = Explorer!Nothing /\ f_timer' = FALSE /\ shots' \in {shots + 0, shots + 1}
        /\ page_words' = [page_words EXCEPT ![p] = rws]
        /\ page_status' = [page_status EXCEPT ![p] = status]
        /\ unsure' = (IF f_pending.clean THEN unsure \ {p} ELSE unsure \cup {p})
    BY <1>5, <1>6, <1>11, <2>2, <2>3 DEF Explorer!TakeRow, Explorer!Answered, Explorer!Told
  <2>5. p \in Pages /\ unsure' \subseteq Pages /\ shots' \in Nat /\ f_timer' \in BOOLEAN
    <3>1. p \in Pages
      BY <1>2, <2>2
    <3>2. unsure' \subseteq Pages /\ shots' \in Nat
      BY <1>1, <2>4, <3>1
    <3>3. f_timer' \in BOOLEAN
      BY <2>4
    <3> QED  BY <3>1, <3>2, <3>3
  <2>6. ASSUME p \notin unsure'
        PROVE  /\ Len(f_wire) = 0
               /\ rws = [i \in 1 .. Rows |-> Explorer!Row(p, i)]
               /\ status = "erased" => f_flash[p] = "FF"
    <3>1. f_pending.clean
      BY <2>4, <2>6
    <3>2. \A i \in 1 .. Rows : rws[i] \in RowLine /\ rws[i].page = p /\ rws[i].val = f_flash[p]
      BY <1>9, <2>1, <2>2, <3>1 DEF OwnRow
    <3>3. \A i, j \in 1 .. Rows : i < j => rws[i].row < rws[j].row
      BY <1>9, <2>1, <3>1
    <3>4. rws = [i \in 1 .. Rows |-> Explorer!Row(p, i)]
      BY <1>8, <2>1, <2>5, <3>2, <3>3, WholePage
    <3>5. status = "erased" => f_flash[p] = "FF"
      <4>1. SUFFICES ASSUME status = "erased" PROVE f_flash[p] = "FF"
        OBVIOUS
      <4>2. blank
        BY <2>3, <4>1
      <4>3. 1 \in 1 .. Rows
        BY <1>1
      <4> QED  BY <3>2, <4>2, <4>3
    <3> QED  BY <1>9, <3>1, <3>4, <3>5
  <2>7. \A q \in Pages : q # p /\ q \in unsure => q \in unsure'
    BY <2>4
  <2>8. UNCHANGED <<f_wire, f_flash>> /\ Len(rws) \in {0, Rows}
    BY <2>1
  <2> HIDE DEF blank
  <2>9. /\ ExplorerChanges' /\ ExplorerOwn' /\ Explorer!PageIsShown'
        /\ page_words' \in [Pages -> Seq(Answers)] /\ page_status' \in [Pages -> Statuses]
        /\ \A q \in Pages : Len(page_words'[q]) \in {0, Rows}
    BY <1>8, <2>2, <2>4, <2>6, <2>7, <2>8, ExplorerTold
  <2>10. ExplorerShape'
    BY <1>3, <2>4, <2>5, <2>9 DEF ExplorerInv, ExplorerShape
  <2>11. ExplorerFlags'
    BY <2>5 DEF ExplorerInv, ExplorerFlags
  <2> QED  BY <2>9, <2>10, <2>11 DEF ExplorerInv
<1> QED  BY <1>10, <1>11

LEMMA ExplorerPolls ==
    ASSUME ExplorerInv, Explorer!PollLine
    PROVE  ExplorerInv'
<1>0. ExplorerShape /\ ExplorerFlags
  BY DEF ExplorerInv
<1>1. /\ f_lines # <<>> /\ f_lines' = Tail(f_lines)
      /\ UNCHANGED <<worker, port, gone, stray, range_queue, f_sends, f_wire, f_flash>>
  BY DEF Explorer!PollLine, Explorer!link, Explorer!map
<1>2. PICK line : line = Head(f_lines)
  OBVIOUS
<1>3. /\ f_pending \in Command \cup {Explorer!Nothing} /\ f_lines \in Seq(Answers) /\ shots \in Nat /\ unsure \subseteq Pages
      /\ page_words \in [Pages -> Seq(Answers)]
  BY DEF ExplorerInv, ExplorerShape
<1>4. /\ line \in Answers /\ line = f_lines[1] /\ f_lines' \in Seq(Answers) /\ 1 \in 1 .. Len(f_lines)
  BY <1>1, <1>2, <1>3, TailFacts
<1>5. CASE /\ ~Explorer!Takes(line)
           /\ UNCHANGED <<f_pending, f_timer, shots, page_words, page_status, unsure>>
  <2>1. ExplorerShape' /\ ExplorerFlags'
    BY <1>1, <1>4, <1>5 DEF ExplorerInv, ExplorerShape, ExplorerFlags
  <2>2. ExplorerChanges' /\ Explorer!PageIsShown'
    BY <1>1, <1>5 DEF ExplorerInv, ExplorerChanges, ChangeComes, Explorer!PageIsShown, Explorer!Changing, Explorer!busy,
       Explorer!Row
  <2>3. ExplorerOwn'
    <3>1. SUFFICES ASSUME f_pending # Explorer!Nothing, f_pending.clean PROVE ExplorerOwn'
      BY <1>5 DEF ExplorerOwn
    <3>2. CASE f_pending.kind = "frd"
      <4>1. OwnRow(line)
        BY <1>4, <3>1, <3>2 DEF ExplorerInv, ExplorerOwn
      <4>2. line.kind = "row"
        BY <4>1, CommandFacts DEF OwnRow
      <4> QED  BY <1>5, <3>1, <3>2, <4>2 DEF Explorer!Takes, Explorer!busy
    <3>3. CASE f_pending.kind # "frd"
      <4>1. /\ Len(f_wire) <= 1 /\ ~(Len(f_wire) > 0) /\ f_wire' = f_wire /\ f_pending' = f_pending
        <5>1. Len(f_lines) # 0
          BY <1>1, <1>3
        <5> QED  BY <1>1, <1>5, <3>1, <5>1 DEF ExplorerInv, ExplorerOwn
      <4>2. f_pending.kind = "ferase" =>
              \A k \in 1 .. Len(f_lines') : ErasedLine(f_lines'[k]) => f_flash'[f_pending.page] = "FF"
        <5>1. \A k \in 1 .. Len(f_lines') : f_lines'[k] = f_lines[k + 1] /\ k + 1 \in 1 .. Len(f_lines)
          BY <1>1, <1>3, TailFacts
        <5> QED  BY <1>1, <3>1, <5>1 DEF ExplorerInv, ExplorerOwn
      <4> QED  BY <3>3, <4>1, <4>2 DEF ExplorerOwn, ErasedLine
    <3> QED  BY <3>2, <3>3
  <2> QED  BY <2>1, <2>2, <2>3 DEF ExplorerInv
<1>6. CASE Explorer!busy /\ Explorer!TakeRow(line)
  BY <1>1, <1>2, <1>6, ExplorerTakesRow
<1>7. CASE Explorer!busy /\ (Explorer!TakeOk(line) \/ Explorer!TakeFailed(line))
  <2>1. f_pending.page \in Pages
    BY <1>3, <1>7, CommandFacts DEF Explorer!busy
  <2>2. f_pending' = Explorer!Nothing /\ f_timer' = FALSE /\ shots' \in {shots + 0, shots + 1}
    BY <1>3, <1>7 DEF Explorer!TakeOk, Explorer!TakeFailed, Explorer!Answered
  <2>3. PICK p : p = f_pending.page
    OBVIOUS
  <2>4. /\ page_words \in [Pages -> Seq(Answers)] /\ page_status \in [Pages -> Statuses]
        /\ \A q \in Pages : Len(page_words[q]) \in {0, Rows}
    BY <1>0 DEF ExplorerShape
  <2>5. PICK pw \in Seq(Answers), status \in Statuses :
          /\ Len(pw) \in {0, Rows}
          /\ page_words' = [page_words EXCEPT ![p] = pw] /\ page_status' = [page_status EXCEPT ![p] = status]
          /\ \A q \in Pages : q # p /\ q \in unsure => q \in unsure'
          /\ unsure' \subseteq Pages
          /\ p \notin unsure' => /\ pw = Explorer!None /\ f_pending.clean /\ line.kind = f_pending.kind /\ line.ok
                                 /\ status = "erased" => line.kind = "ferase"
    <3>1. CASE Explorer!TakeOk(line)
      <4>1. Explorer!None \in Seq(Answers) /\ Len(Explorer!None) \in {0, Rows}
        BY ShortFacts, CommandFacts
      <4>2. PICK status \in Statuses : status = (IF line.kind = "ferase" THEN "erased" ELSE "data")
        BY DEF Statuses
      <4>3. /\ page_words' = [page_words EXCEPT ![p] = Explorer!None] /\ page_status' = [page_status EXCEPT ![p] = status]
            /\ unsure' = (IF f_pending.clean THEN unsure \ {p} ELSE unsure \cup {p})
            /\ line.kind = f_pending.kind /\ line.ok
        BY <2>3, <3>1, <4>2 DEF Explorer!TakeOk, Explorer!Told
      <4>4. /\ \A q \in Pages : q # p /\ q \in unsure => q \in unsure'
            /\ unsure' \subseteq Pages
        BY <1>3, <2>1, <2>3, <4>3
      <4>5. p \notin unsure' => f_pending.clean
        BY <4>3
      <4>6. status = "erased" => line.kind = "ferase"
        BY <4>2
      <4> HIDE DEF Explorer!None
      <4> QED  BY <4>1, <4>3, <4>4, <4>5, <4>6
    <3>2. CASE Explorer!TakeFailed(line)
      <4>1. /\ page_words' = page_words /\ page_status' = [page_status EXCEPT ![p] = "error"]
            /\ unsure' = unsure \cup {p}
        BY <2>3, <3>2 DEF Explorer!TakeFailed
      <4>2. PICK pw \in Seq(Answers) : pw = page_words[p] /\ Len(pw) \in {0, Rows}
        BY <2>1, <2>3, <2>4
      <4>3. page_words' = [page_words EXCEPT ![p] = pw]
        BY <2>1, <2>3, <2>4, <4>1, <4>2
      <4>4. "error" \in Statuses
        BY DEF Statuses
      <4>5. unsure' \subseteq Pages
        BY <1>3, <2>1, <2>3, <4>1
      <4> QED  BY <4>1, <4>2, <4>3, <4>4, <4>5
    <3> QED  BY <1>7, <3>1, <3>2
  <2>6. ASSUME p \notin unsure'
        PROVE  /\ Len(f_wire) = 0
               /\ pw # Explorer!None => pw = [i \in 1 .. Rows |-> Explorer!Row(p, i)]
               /\ status = "erased" => f_flash[p] = "FF"
    <3>1. Len(f_lines) # 0 /\ f_wire \in Seq(Sent)
      BY <1>0, <1>1, <1>3 DEF ExplorerShape
    <3>2. f_pending # Explorer!Nothing /\ f_pending.clean
      BY <1>7, <2>5, <2>6 DEF Explorer!busy
    <3>3. ~(Len(f_wire) > 0)
      BY <3>1, <3>2 DEF ExplorerInv, ExplorerOwn
    <3>4. Len(f_wire) = 0
      BY <3>1, <3>3
    <3>5. status = "erased" => f_flash[p] = "FF"
      <4>1. SUFFICES ASSUME status = "erased" PROVE f_flash[p] = "FF"
        OBVIOUS
      <4>2. f_pending.kind = "ferase" /\ ErasedLine(f_lines[1])
        BY <1>4, <2>5, <2>6, <4>1 DEF ErasedLine
      <4> QED  BY <1>4, <2>3, <3>2, <4>2 DEF ExplorerInv, ExplorerOwn
    <3> QED  BY <2>5, <2>6, <3>4, <3>5
  <2>7. UNCHANGED <<f_wire, f_flash>>
    BY <1>1
  <2>8. /\ ExplorerChanges' /\ ExplorerOwn' /\ Explorer!PageIsShown'
        /\ page_words' \in [Pages -> Seq(Answers)] /\ page_status' \in [Pages -> Statuses]
        /\ \A q \in Pages : Len(page_words'[q]) \in {0, Rows}
    BY <1>7, <2>2, <2>3, <2>5, <2>6, <2>7, ExplorerTold
  <2>9. shots' \in Nat
    BY <1>3, <2>2
  <2>10. ExplorerShape'
    BY <1>0, <1>1, <1>4, <2>2, <2>5, <2>8, <2>9 DEF ExplorerShape
  <2>11. ExplorerFlags'
    BY <1>0, <1>1, <2>2 DEF ExplorerFlags
  <2> QED  BY <2>8, <2>10, <2>11 DEF ExplorerInv
<1>8. Explorer!Takes(line) => Explorer!busy
  BY DEF Explorer!Takes
<1> QED  BY <1>2, <1>5, <1>6, <1>7, <1>8 DEF Explorer!PollLine, Explorer!map

LEMMA ExplorerInOrder ==
    ASSUME NEW S \in SUBSET Nat, IsFiniteSet(S)
    PROVE  /\ Cardinality(S) \in Nat
           /\ Explorer!InOrder(S) \in [1 .. Cardinality(S) -> S]
           /\ \A i, j \in 1 .. Cardinality(S) : i < j => Explorer!InOrder(S)[i] < Explorer!InOrder(S)[j]
<1> DEFINE Q     == [1 .. Cardinality(S) -> S]
           Up(q) == \A i, j \in 1 .. Cardinality(S) : i < j => q[i] < q[j]
<1>1. Cardinality(S) \in Nat /\ \E q \in Q : Up(q)
  BY OrderFacts
<1>2. Explorer!InOrder(S) = CHOOSE q \in Q : Up(q)
  BY DEF Explorer!InOrder, Explorer!Cardinality, Cardinality
<1>3. Explorer!InOrder(S) \in Q /\ Up(Explorer!InOrder(S))
  <2> HIDE DEF Q, Up
  <2> QED  BY <1>1, <1>2
<1> QED  BY <1>1, <1>3

LEMMA BehindOne ==
    ASSUME NEW T, NEW s \in Seq(T), NEW a
    PROVE  /\ Len(<<a>> \o s) = 1 + Len(s) /\ (<<a>> \o s)[1] = a
           /\ \A i \in 2 .. 1 + Len(s) : (<<a>> \o s)[i] = s[i - 1]
OBVIOUS

LEMMA ExplorerStep ==
    ASSUME ExplorerInv, [Explorer!Next]_(Explorer!vars)
    PROVE  ExplorerInv'
<1>0. /\ ExplorerShape /\ ExplorerFlags /\ MaxTimers \in Nat /\ shots \in Nat /\ gone \in 0 .. MaxTimers
      /\ f_wire \in Seq(Sent) /\ f_lines \in Seq(Answers) /\ f_pending \in Command \cup {Explorer!Nothing}
      /\ f_flash \in [Pages -> {"FF", "word"}]
  BY ExplorerAssumption DEF ExplorerInv, ExplorerShape
<1>1. CASE UNCHANGED Explorer!vars
  <2>1. UNCHANGED <<worker, port, gone, f_pending, f_timer, stray, shots, range_queue, page_words, page_status, f_sends, f_wire, f_lines,
                    f_flash, unsure>>
    BY <1>1 DEF Explorer!vars, Explorer!link, Explorer!map, Explorer!cmd
  <2>2. ExplorerShape' /\ ExplorerFlags'
    BY <1>0, <2>1 DEF ExplorerShape, ExplorerFlags
  <2> QED  BY <2>1, <2>2, ExplorerIdles
<1>2. ASSUME NEW p \in Pages, NEW kind \in FlashKinds,
             \/ Explorer!CmdRead(p) /\ kind = "frd"
             \/ Explorer!CmdChange(kind, p)
      PROVE  ExplorerInv'
  <2>1. /\ ~Explorer!busy /\ Explorer!SendCmd(kind, p, FALSE)
        /\ UNCHANGED <<worker, port, gone, shots, range_queue, page_words, page_status, f_lines, f_flash, unsure>>
    BY <1>2 DEF Explorer!CmdRead, Explorer!CmdChange, Explorer!link, Explorer!map
  <2>2. /\ f_pending' \in Command /\ f_pending'.buf = <<>> /\ f_wire' \in Seq(Sent)
        /\ f_sends' \in 0 .. MaxReads /\ stray' \in 0 .. MaxTimers /\ f_timer' \in BOOLEAN
        /\ ExplorerChanges' /\ ExplorerOwn' /\ Explorer!PageIsShown'
    BY <2>1, ExplorerSends
  <2>3. Len(f_pending'.buf) = 0 /\ 0 < Rows
    BY <2>2, ShortFacts, ExplorerAssumption
  <2>4. ExplorerShape' /\ ExplorerFlags'
    BY <1>0, <2>1, <2>2, <2>3 DEF ExplorerShape, ExplorerFlags
  <2> QED  BY <2>2, <2>4 DEF ExplorerInv
<1>3. ASSUME NEW S \in SUBSET Pages, Explorer!CmdReadPages(S) PROVE ExplorerInv'
  <2>1. /\ UNCHANGED <<worker, port, gone, f_pending, f_timer, stray, page_words, page_status, f_sends, f_wire, f_lines, f_flash, unsure>>
        /\ range_queue' = Explorer!InOrder(S) /\ shots' = shots + 1
    BY <1>3 DEF Explorer!CmdReadPages, Explorer!link, Explorer!map, Explorer!cmd
  <2>2. S \in SUBSET Nat /\ IsFiniteSet(S)
    BY ExplorerAssumption, FS_Subset
  <2>3. Cardinality(S) \in Nat /\ Explorer!InOrder(S) \in [1 .. Cardinality(S) -> S]
    BY <2>2, ExplorerInOrder
  <2>4. range_queue' \in Seq(Pages)
    BY <2>1, <2>3
  <2>5. ExplorerShape' /\ ExplorerFlags'
    BY <1>0, <2>1, <2>4 DEF ExplorerShape, ExplorerFlags
  <2> QED  BY <2>1, <2>5, ExplorerIdles
<1>4. CASE Explorer!RangeQueueCb
  <2>1. /\ UNCHANGED <<worker, port, gone, page_words, page_status, f_lines, f_flash, unsure>> /\ shots' \in Nat
    BY <1>0, <1>4 DEF Explorer!RangeQueueCb, Explorer!link, Explorer!map
  <2>2. CASE UNCHANGED <<Explorer!cmd, range_queue, f_sends, f_wire>>
    <3>1. UNCHANGED <<f_pending, f_timer, stray, range_queue, f_sends, f_wire>>
      BY <2>2 DEF Explorer!cmd
    <3>2. ExplorerShape' /\ ExplorerFlags'
      BY <1>0, <2>1, <3>1 DEF ExplorerShape, ExplorerFlags
    <3> QED  BY <2>1, <3>1, <3>2, ExplorerIdles
  <2>3. CASE range_queue # <<>> /\ ~Explorer!busy /\ range_queue' = Tail(range_queue)
    <3>1. Head(range_queue) \in Pages /\ range_queue' \in Seq(Pages)
      <4>1. range_queue \in Seq(Pages)
        BY <1>0 DEF ExplorerShape
      <4> QED  BY <2>3, <4>1, TailFacts
    <3>2. PICK p \in Pages : p = Head(range_queue)
      BY <3>1
    <3>3. CASE Explorer!SendCmd("frd", p, TRUE)
      <4>1. "frd" \in FlashKinds /\ TRUE \in BOOLEAN
        BY DEF FlashKinds
      <4>2. /\ f_pending' \in Command /\ f_pending'.buf = <<>> /\ f_wire' \in Seq(Sent)
            /\ f_sends' \in 0 .. MaxReads /\ stray' \in 0 .. MaxTimers /\ f_timer' \in BOOLEAN
            /\ ExplorerChanges' /\ ExplorerOwn' /\ Explorer!PageIsShown'
        BY <2>1, <2>3, <3>3, <4>1, ExplorerSends
      <4>3. Len(f_pending'.buf) = 0 /\ 0 < Rows
        BY <4>2, ShortFacts, ExplorerAssumption
      <4>4. ExplorerShape' /\ ExplorerFlags'
        BY <1>0, <2>1, <3>1, <4>2, <4>3 DEF ExplorerShape, ExplorerFlags
      <4> QED  BY <4>2, <4>4 DEF ExplorerInv
    <3>4. CASE /\ f_pending' = [kind |-> "frd", page |-> p, chained |-> TRUE, buf |-> <<>>, clean |-> FALSE]
               /\ UNCHANGED <<f_timer, stray, f_sends, f_wire>>
      <4>1. <<>> \in Seq(Answers) /\ Len(<<>>) = 0 /\ 0 < Rows
        BY ShortFacts, ExplorerAssumption
      <4>2. f_pending' \in Command /\ f_pending'.buf = <<>> /\ f_pending'.kind = "frd" /\ f_pending'.clean = FALSE
        BY <3>4, <4>1 DEF Command, FlashKinds
      <4>3. ExplorerShape' /\ ExplorerFlags'
        BY <1>0, <2>1, <3>1, <3>4, <4>1, <4>2 DEF ExplorerShape, ExplorerFlags
      <4>4. ExplorerOwn'
        BY <4>2 DEF ExplorerOwn
      <4>5. \A q \in Pages : ~Explorer!Changing(q) /\ (ChangeComes(q)' => ChangeComes(q))
        BY <2>3, <3>4 DEF Explorer!Changing, ChangeComes
      <4>6. ExplorerChanges' /\ Explorer!PageIsShown'
        BY <2>1, <4>5 DEF ExplorerInv, ExplorerChanges, Explorer!PageIsShown, Explorer!Row
      <4> QED  BY <4>3, <4>4, <4>6 DEF ExplorerInv
    <3> QED  BY <1>4, <2>3, <3>2, <3>3, <3>4 DEF Explorer!RangeQueueCb
  <2> QED  BY <1>4, <2>2, <2>3 DEF Explorer!RangeQueueCb
<1>5. CASE Explorer!OnTimeout \/ Explorer!Disconnect
  <2>1. /\ Explorer!GiveUp
        /\ UNCHANGED <<gone, shots, range_queue, page_words, page_status, f_sends, f_wire, f_lines, f_flash>>
    BY <1>5 DEF Explorer!OnTimeout, Explorer!Disconnect, Explorer!link, Explorer!map
  <2>2. worker' \in BOOLEAN /\ port' \in {"free", "open", "stopping"} /\ f_timer' \in BOOLEAN
    BY <1>0, <1>5 DEF Explorer!OnTimeout, Explorer!Disconnect, Explorer!link, Explorer!map, ExplorerFlags
  <2>3. stray' \in 0 .. MaxTimers
    <3>1. stray \in 0 .. MaxTimers
      BY <1>0 DEF ExplorerShape
    <3>2. stray' = stray \/ (stray > 0 /\ stray' = stray - 1)
      BY <1>5 DEF Explorer!OnTimeout, Explorer!Disconnect
    <3> QED  BY <1>0, <3>1, <3>2
  <2>4. f_pending' = Explorer!Nothing /\ unsure' \subseteq Pages
    BY <1>0, <2>1, CommandFacts DEF Explorer!GiveUp, Explorer!busy, ExplorerShape
  <2>5. ExplorerShape' /\ ExplorerFlags'
    BY <1>0, <2>1, <2>2, <2>3, <2>4 DEF ExplorerShape, ExplorerFlags
  <2> QED  BY <2>1, <2>5, ExplorerGivesUp
<1>6. CASE Explorer!Connect \/ Explorer!HandleGone
  <2>1. UNCHANGED <<f_pending, f_timer, stray, shots, range_queue, page_words, page_status, f_sends, f_wire, f_lines, f_flash, unsure>>
    BY <1>6 DEF Explorer!Connect, Explorer!HandleGone, Explorer!cmd, Explorer!map
  <2>2. worker' \in BOOLEAN /\ port' \in {"free", "open", "stopping"}
    BY <1>0, <1>6 DEF Explorer!Connect, Explorer!HandleGone, ExplorerFlags
  <2>3. gone' \in 0 .. MaxTimers
    BY <1>0, <1>6 DEF Explorer!Connect, Explorer!HandleGone
  <2>4. ExplorerShape' /\ ExplorerFlags'
    BY <1>0, <2>1, <2>2, <2>3 DEF ExplorerShape, ExplorerFlags
  <2> QED  BY <2>1, <2>4, ExplorerIdles
<1>7. CASE Explorer!ThreadEnds
  <2>1. /\ UNCHANGED <<worker, f_pending, f_timer, stray, shots, range_queue, page_words, page_status, f_sends, f_lines, f_flash, unsure>>
        /\ f_wire' = <<>> /\ port' = "free" /\ gone' = gone + 1 /\ gone < MaxTimers
    BY <1>7 DEF Explorer!ThreadEnds, Explorer!cmd, Explorer!map
  <2>2. f_wire' \in Seq(Sent) /\ gone' \in 0 .. MaxTimers
    BY <1>0, <2>1, ShortFacts
  <2>3. ExplorerShape' /\ ExplorerFlags'
    BY <1>0, <2>1, <2>2 DEF ExplorerShape, ExplorerFlags
  <2> QED  BY <2>1, <2>3, ExplorerEnds
<1>8. CASE Explorer!Executes
  <2>1. /\ UNCHANGED <<worker, port, gone, f_pending, f_timer, stray, shots, range_queue, page_words, page_status, f_sends, unsure>>
        /\ f_wire # <<>> /\ f_wire' = Tail(f_wire)
    BY <1>8 DEF Explorer!Executes, Explorer!link, Explorer!map, Explorer!cmd
  <2>2. PICK w : w = Head(f_wire)
    OBVIOUS
  <2>3. w \in Sent /\ f_wire' \in Seq(Sent)
    BY <1>0, <2>1, <2>2, TailFacts
  <2>4. w.kind \in FlashKinds /\ w.page \in Pages
    BY <2>3, CommandFacts
  <2>5. PICK ok \in BOOLEAN :
          /\ \/ ~ok /\ UNCHANGED f_flash
             \/ f_flash' = IF w.kind = "frd" \/ Explorer!Refused(w) THEN f_flash
                           ELSE [f_flash EXCEPT ![w.page] = IF w.kind = "ferase" THEN "FF" ELSE "word"]
          /\ \E S \in SUBSET {k \in 1 .. Len(Explorer!Answer(w, ok)) : Explorer!Answer(w, ok)[k].kind # "remark"} :
               f_lines' = f_lines \o Explorer!Whole(Explorer!Answer(w, ok), S)
    BY <1>8, <2>2 DEF Explorer!Executes
  <2>6. PICK out : out = Explorer!Answer(w, ok)
    OBVIOUS
  <2>22. PICK whole \in SUBSET {k \in 1 .. Len(out) : out[k].kind # "remark"} :
           f_lines' = f_lines \o Explorer!Whole(out, whole)
    BY <2>5, <2>6
  <2>7. /\ Len(out) \in Nat
        /\ \A i \in 1 .. Len(out) : out[i].kind # "remark" =>
             /\ out[i] \in Answers
             /\ w.kind = "frd" => /\ out[i] \in RowLine /\ out[i].page = w.page /\ out[i].row = i - 1
                                  /\ out[i].val = f_flash[w.page]
             /\ w.kind = "ferase" /\ ErasedLine(out[i]) => ok /\ ~Explorer!Refused(w)
    <3>1. PICK r : r = Explorer!Remark(w)
      OBVIOUS
    <3>2. r.kind = "remark"
      BY <3>1 DEF Explorer!Remark
    <3>3. CASE w.kind = "frd"
      <4>1. Rows \in Nat /\ \A i \in 1 .. Rows : /\ Explorer!Row(w.page, i) \in RowLine
                                                 /\ Explorer!Row(w.page, i).page = w.page
                                                 /\ Explorer!Row(w.page, i).row = i
                                                 /\ Explorer!Row(w.page, i).val = f_flash[w.page]
        BY <1>0, <2>4, ExplorerAssumption DEF Explorer!Row, RowLine
      <4>2. PICK rws : rws = [i \in 1 .. Rows |-> Explorer!Row(w.page, i)]
        OBVIOUS
      <4>8. rws \in [1 .. Rows -> RowLine]
        BY <4>1, <4>2
      <4>9. rws \in Seq(RowLine)
        BY <4>1, <4>8
      <4>3. Len(rws) = Rows /\ \A i \in 1 .. Rows : rws[i] = Explorer!Row(w.page, i)
        BY <4>1, <4>2
      <4>4. out = <<r>> \o rws
        BY <2>6, <3>1, <3>3, <4>2 DEF Explorer!Answer
      <4>5. /\ Len(out) = 1 + Rows /\ out[1] = r
            /\ \A i \in 2 .. 1 + Rows : out[i] = rws[i - 1]
        BY <4>1, <4>3, <4>4, <4>9, BehindOne
      <4>6. \A i \in 1 .. Len(out) : i = 1 \/ (i \in 2 .. 1 + Rows /\ i - 1 \in 1 .. Rows)
        BY <4>1, <4>5
      <4>7. \A i \in 1 .. Len(out) : out[i].kind # "remark" =>
              /\ out[i] \in RowLine /\ out[i].page = w.page /\ out[i].row = i - 1
              /\ out[i].val = f_flash[w.page]
        BY <3>2, <4>1, <4>3, <4>5, <4>6
      <4> QED  BY <3>3, <4>1, <4>5, <4>7 DEF Answers
    <3>4. CASE w.kind # "frd"
      <4>1. PICK a \in Answers : a = [kind |-> w.kind, ok |-> ok]
        BY <2>4, <3>4 DEF FlashKinds, Answers
      <4>2. a.kind = w.kind /\ a.ok = ok
        BY <4>1
      <4>3. /\ Explorer!Refused(w) => out = <<r>>
            /\ ~Explorer!Refused(w) => out = <<r, a>> \/ out = <<a>>
        BY <2>6, <3>1, <3>4, <4>1 DEF Explorer!Answer
      <4>4. Len(out) \in Nat /\ \A i \in 1 .. Len(out) : out[i] = r \/ (out[i] = a /\ ~Explorer!Refused(w))
        BY <4>3
      <4> QED  BY <3>2, <3>4, <4>2, <4>4 DEF ErasedLine
    <3> QED  BY <3>3, <3>4
  <2>8. whole \in SUBSET Nat /\ IsFiniteSet(whole) /\ \A i \in whole : i \in 1 .. Len(out) /\ out[i].kind # "remark"
    <3>1. IsFiniteSet(1 .. Len(out)) /\ 1 .. Len(out) \subseteq Nat
      BY <2>7, FS_Interval
    <3>2. \A i \in whole : i \in 1 .. Len(out) /\ out[i].kind # "remark"
      OBVIOUS
    <3> QED  BY <3>1, <3>2, FS_Subset
  <2>9. /\ Cardinality(whole) \in Nat /\ Explorer!InOrder(whole) \in [1 .. Cardinality(whole) -> whole]
        /\ \A i, j \in 1 .. Cardinality(whole) : i < j => Explorer!InOrder(whole)[i] < Explorer!InOrder(whole)[j]
    BY <2>8, ExplorerInOrder
  <2>10. PICK num : num = Cardinality(whole)
    OBVIOUS
  <2>11. PICK q : q = Explorer!InOrder(whole)
    OBVIOUS
  <2>12. Explorer!Cardinality(whole) = num
    BY <2>10 DEF Explorer!Cardinality, Cardinality
  <2>13. PICK came : came = [k \in 1 .. num |-> out[q[k]]]
    OBVIOUS
  <2>14. f_lines' = f_lines \o came
    BY <2>11, <2>12, <2>13, <2>22 DEF Explorer!Whole
  <2>15. \A k \in 1 .. num : q[k] \in 1 .. Len(out) /\ out[q[k]].kind # "remark" /\ out[q[k]] \in Answers
    <3>1. TAKE k \in 1 .. num
    <3>2. q[k] \in whole
      BY <2>9, <2>10, <2>11
    <3> QED  BY <2>7, <2>8, <3>2
  <2>16. came \in Seq(Answers) /\ Len(came) = num /\ num \in Nat /\ \A k \in 1 .. num : came[k] = out[q[k]]
    BY <2>9, <2>10, <2>13, <2>15
  <2>17. w.kind = "frd" => /\ \A k \in 1 .. Len(came) : /\ came[k] \in RowLine /\ came[k].page = w.page
                                                        /\ came[k].val = f_flash[w.page]
                           /\ \A i, j \in 1 .. Len(came) : i < j => came[i].row < came[j].row
    <3>1. SUFFICES ASSUME w.kind = "frd"
                   PROVE  /\ \A k \in 1 .. num : /\ came[k] \in RowLine /\ came[k].page = w.page
                                                  /\ came[k].val = f_flash[w.page] /\ came[k].row = q[k] - 1
                          /\ \A i, j \in 1 .. num : i < j => came[i].row < came[j].row
      BY <2>16
    <3>2. \A k \in 1 .. num : /\ came[k] \in RowLine /\ came[k].page = w.page
                              /\ came[k].val = f_flash[w.page] /\ came[k].row = q[k] - 1
      <4>1. \A i \in 1 .. Len(out) : out[i].kind # "remark" =>
              /\ out[i] \in RowLine /\ out[i].page = w.page /\ out[i].row = i - 1
              /\ out[i].val = f_flash[w.page]
        BY <2>7, <3>1
      <4>2. \A k \in 1 .. num : came[k] = out[q[k]]
        BY <2>16
      <4> QED  BY <2>15, <4>1, <4>2
    <3>3. \A i, j \in 1 .. num : i < j => q[i] < q[j]
      BY <2>9, <2>10, <2>11
    <3>4. \A i, j \in 1 .. num : i < j => q[i] - 1 < q[j] - 1
      <4>1. SUFFICES ASSUME NEW i \in 1 .. num, NEW j \in 1 .. num, i < j PROVE q[i] - 1 < q[j] - 1
        OBVIOUS
      <4>2. q[i] \in Nat /\ q[j] \in Nat /\ q[i] < q[j]
        BY <2>7, <2>15, <3>3, <4>1
      <4> QED  BY <4>2
    <3> QED  BY <3>2, <3>4
  <2>18. f_lines' \in Seq(Answers)
    BY <1>0, <2>14, <2>16
  <2>19. /\ f_flash' \in [Pages -> {"FF", "word"}]
         /\ \A p \in Pages : f_flash'[p] = f_flash[p] \/ (w.kind # "frd" /\ w.page = p)
         /\ ok /\ w.kind = "ferase" /\ ~Explorer!Refused(w) => f_flash'[w.page] = "FF"
    BY <1>0, <2>4, <2>5
  <2>20. \A k \in 1 .. Len(came) : w.kind = "ferase" /\ ErasedLine(came[k]) => f_flash'[w.page] = "FF"
    <3>1. SUFFICES ASSUME NEW k \in 1 .. Len(came), w.kind = "ferase", ErasedLine(came[k])
                   PROVE  f_flash'[w.page] = "FF"
      OBVIOUS
    <3>2. came[k] = out[q[k]] /\ q[k] \in 1 .. Len(out) /\ out[q[k]].kind # "remark"
      BY <2>15, <2>16, <3>1
    <3>3. ok /\ ~Explorer!Refused(w)
      BY <2>7, <3>1, <3>2
    <3> QED  BY <2>19, <3>1, <3>3
  <2>21. ExplorerShape' /\ ExplorerFlags'
    BY <1>0, <2>1, <2>3, <2>18, <2>19 DEF ExplorerShape, ExplorerFlags
  <2> QED  BY <2>1, <2>2, <2>14, <2>16, <2>17, <2>19, <2>20, <2>21, ExplorerHears
<1>9. /\ "frd" \in FlashKinds /\ {"ferase", "fwrite"} \subseteq FlashKinds
  BY DEF FlashKinds
<1> QED  BY <1>1, <1>2, <1>3, <1>4, <1>5, <1>6, <1>7, <1>8, <1>9, ExplorerExtra, ExplorerPolls
         DEF Explorer!Next

LEMMA ExplorerStart ==
    ASSUME Explorer!Init
    PROVE  ExplorerInv
<1>1. /\ Rows \in Nat \ {0} /\ MaxReads \in Nat /\ MaxTimers \in Nat
  BY ExplorerAssumption
<1>2. /\ f_wire = <<>> /\ f_lines = <<>> /\ f_pending = Explorer!Nothing /\ range_queue = <<>>
      /\ unsure = {} /\ \A p \in Pages : page_words[p] = Explorer!None /\ page_status[p] = "unknown"
  BY DEF Explorer!Init
<1>3. Len(f_wire) = 0 /\ f_wire \in Seq(Sent) /\ f_lines \in Seq(Answers) /\ range_queue \in Seq(Pages)
  BY <1>2, ShortFacts
<1>4. Explorer!None \in Seq(Answers) /\ Len(Explorer!None) = 0
  BY ShortFacts, CommandFacts
<1>5. /\ page_words \in [Pages -> Seq(Answers)] /\ f_flash \in [Pages -> {"FF", "word"}]
      /\ page_status \in [Pages -> Statuses]
  BY <1>4 DEF Explorer!Init, Statuses
<1>6. f_sends = 0 /\ gone = 0 /\ stray = 0 /\ shots = 0
  BY DEF Explorer!Init
<1>7. ExplorerShape
  BY <1>1, <1>2, <1>3, <1>4, <1>5, <1>6 DEF ExplorerShape
<1>8. ExplorerFlags
  BY DEF Explorer!Init, ExplorerFlags
<1>9. ExplorerChanges /\ ExplorerOwn /\ Explorer!PageIsShown
  BY <1>2, <1>3 DEF ExplorerChanges, ChangeComes, ExplorerOwn, Explorer!PageIsShown
<1> QED  BY <1>7, <1>8, <1>9 DEF ExplorerInv

LEMMA ExplorerKeeps ==
    Explorer!Spec => [](Explorer!TypeOK /\ Explorer!PageIsShown)
<1>1. Explorer!Init => ExplorerInv
  BY ExplorerStart
<1>2. ExplorerInv /\ [Explorer!Next]_(Explorer!vars) => ExplorerInv'
  BY ExplorerStep
<1>3. ExplorerInv => Explorer!TypeOK /\ Explorer!PageIsShown
  BY DEF ExplorerInv, ExplorerShape, ExplorerFlags, Statuses, Explorer!TypeOK, Explorer!busy
<1> QED  BY <1>1, <1>2, <1>3, PTL DEF Explorer!Spec
-----------------------------------------------------------------------------
(* The first configuration tool. *)

SetCmd    == [cmd : {"set"}, key : Tool!Key, val : Tool!Val]
ToolCmd   == SetCmd \cup [cmd : {"get", "other"}]
ToolLine  == [text : {"OK", "ERR"}] \cup [text : {"value"}, of : [Tool!Key -> Tool!Val]]
Table      == [Tool!Key -> Tool!Val]

ToolShape ==
    /\ widgets \in Table /\ params \in Table /\ asked \in Table
    /\ ack_status \in [Tool!Key -> {"none", "pending", "ok", "err"}]
    /\ ack_pending \in Seq(Tool!Key) /\ chains \in Seq(Seq(SetCmd) \ {<<>>})
    /\ c_wire \in Seq(ToolCmd) /\ Len(c_wire) <= MaxLines
    /\ c_lines \in Seq(ToolLine) /\ Len(c_lines) <= MaxLines
    /\ c_sends \in 0 .. MaxSends
ToolFlags == c_open \in BOOLEAN /\ c_excused \in BOOLEAN

\* At each place of the lines and, behind them, of the commands: an answer to a SET, or a SET.
Waits(lns, wr, p) == IF p <= Len(lns) THEN lns[p].text # "value" ELSE wr[p - Len(lns)].cmd = "set"
Later(pend, i)    == \E j \in 1 .. Len(pend) : i < j /\ pend[j] = pend[i]

\* f gives each of the n waiting keys the place of its answer or its SET, in order and without
\* one left over; the latest of a key says what the beacon has, or will have.
Placed(f, n, l, w, pend, lns, wr, par, ask) ==
    /\ f \in [1 .. n -> 1 .. l + w]
    /\ \A i, j \in 1 .. n : i < j => f[i] < f[j]
    /\ \A i \in 1 .. n : Waits(lns, wr, f[i])
    /\ \A p \in 1 .. l + w : Waits(lns, wr, p) => \E i \in 1 .. n : f[i] = p
    /\ \A i \in 1 .. n : f[i] > l => wr[f[i] - l].key = pend[i]
    /\ \A i \in 1 .. n : f[i] > l /\ ~Later(pend, i) => wr[f[i] - l].val = ask[pend[i]]
    /\ \A i \in 1 .. n : f[i] <= l /\ ~Later(pend, i) /\ lns[f[i]].text = "OK" => par[pend[i]] = ask[pend[i]]
Fits(f, pend, lns, wr, par, ask) == Placed(f, Len(pend), Len(lns), Len(wr), pend, lns, wr, par, ask)

ToolQuiet == ~c_open => c_wire = <<>> /\ ack_pending = <<>> /\ \A k \in Tool!Key : ack_status[k] = "none"
ToolFits  == c_open /\ ~c_excused => \E f : Fits(f, ack_pending, c_lines, c_wire, params, asked)
ToolInv   == ToolShape /\ ToolFlags /\ ToolQuiet /\ ToolFits /\ Tool!LabelIsTrue

LEMMA ToolFacts ==
    /\ \A c \in SetCmd : c.cmd = "set" /\ c.key \in Tool!Key /\ c.val \in Tool!Val
    /\ SetCmd \subseteq ToolCmd /\ [cmd |-> "get"] \in ToolCmd /\ [cmd |-> "other"] \in ToolCmd
    /\ \A c \in ToolCmd : c.cmd \in {"set", "get", "other"} /\ (c.cmd = "set" => c \in SetCmd)
    /\ \A l \in ToolLine : l.text \in {"OK", "ERR", "value"} /\ (l.text = "value" => l.of \in Table)
BY DEF SetCmd, ToolCmd, ToolLine, Table

\* With nothing under way nothing is awaited.
LEMMA FitsNothing ==
    ASSUME NEW par, NEW ask
    PROVE  \E f : Fits(f, <<>>, <<>>, <<>>, par, ask)
<1>1. PICK n : n = Len(<<>>)
  OBVIOUS
<1>2. n = 0 /\ n + n = 0 /\ 1 .. n = {} /\ 1 .. n + n = {}
  BY <1>1
<1>3. PICK f : f = [i \in 1 .. n |-> i]
  OBVIOUS
<1>4. Fits(f, <<>>, <<>>, <<>>, par, ask)
  <2>1. (\A i \in 1 .. n : FALSE) /\ (\A i \in 1 .. n + n : FALSE)
    BY <1>2
  <2>2. f \in [1 .. n -> 1 .. n + n]
    BY <1>3, <2>1
  <2> QED  BY <1>1, <2>1, <2>2 DEF Fits, Placed
<1> QED  BY <1>4

LEMMA FitsSends ==
    ASSUME NEW pend \in Seq(Tool!Key), NEW lns \in Seq(ToolLine), NEW wr \in Seq(ToolCmd), NEW par, NEW ask \in Table,
           NEW f, Fits(f, pend, lns, wr, par, ask), NEW s \in SetCmd
    PROVE  \E g : Fits(g, Append(pend, s.key), lns, Append(wr, s), par, [ask EXCEPT ![s.key] = s.val])
<1>1. PICK n \in Nat, l \in Nat, w \in Nat : n = Len(pend) /\ l = Len(lns) /\ w = Len(wr)
  OBVIOUS
<1>2. s.cmd = "set" /\ s.key \in Tool!Key /\ s \in ToolCmd
  BY ToolFacts
<1>3. PICK pnd : pnd = Append(pend, s.key)
  OBVIOUS
<1>4. PICK wrs : wrs = Append(wr, s)
  OBVIOUS
<1>5. PICK asks : asks = [ask EXCEPT ![s.key] = s.val]
  OBVIOUS
<1>6. Len(pnd) = n + 1 /\ pnd[n + 1] = s.key /\ \A i \in 1 .. n : pnd[i] = pend[i] /\ pend[i] \in Tool!Key
  BY <1>1, <1>2, <1>3
<1>7. Len(wrs) = w + 1 /\ wrs[w + 1] = s /\ \A i \in 1 .. w : wrs[i] = wr[i]
  BY <1>1, <1>2, <1>4
<1>8. \A k \in Tool!Key : asks[k] = (IF k = s.key THEN s.val ELSE ask[k])
  BY <1>2, <1>5 DEF Table
<1>9. PICK g : g = [i \in 1 .. n + 1 |-> IF i = n + 1 THEN l + w + 1 ELSE f[i]]
  OBVIOUS
<1>10. \A i \in 1 .. n : i \in 1 .. n + 1 /\ i # n + 1
  BY <1>1
<1>11. g[n + 1] = l + w + 1 /\ \A i \in 1 .. n : g[i] = f[i]
  BY <1>1, <1>9, <1>10
<1>12. /\ \A i \in 1 .. n : f[i] \in 1 .. l + w
       /\ \A i, j \in 1 .. n : i < j => f[i] < f[j]
       /\ \A i \in 1 .. n : Waits(lns, wr, f[i])
       /\ \A p \in 1 .. l + w : Waits(lns, wr, p) => \E i \in 1 .. n : f[i] = p
       /\ \A i \in 1 .. n : f[i] > l => wr[f[i] - l].key = pend[i]
       /\ \A i \in 1 .. n : f[i] > l /\ ~Later(pend, i) => wr[f[i] - l].val = ask[pend[i]]
       /\ \A i \in 1 .. n : f[i] <= l /\ ~Later(pend, i) /\ lns[f[i]].text = "OK" => par[pend[i]] = ask[pend[i]]
  BY <1>1 DEF Fits, Placed
<1>13. \A i \in 1 .. n + 1 : i = n + 1 \/ i \in 1 .. n
  BY <1>1
<1>14. \A p \in 1 .. l + w + 1 : p = l + w + 1 \/ p \in 1 .. l + w
  BY <1>1
<1>15. \A p \in 1 .. l + w : Waits(lns, wrs, p) = Waits(lns, wr, p) /\ (p > l => wrs[p - l] = wr[p - l])
  <2>1. TAKE p \in 1 .. l + w
  <2>2. p > l => p - l \in 1 .. w
    BY <1>1
  <2>3. p > l => wrs[p - l] = wr[p - l]
    BY <1>7, <2>2
  <2>4. p <= l \/ p > l
    BY <1>1
  <2> QED  BY <1>1, <2>3, <2>4 DEF Waits
<1>16. Waits(lns, wrs, l + w + 1) /\ l + w + 1 > l /\ l + w + 1 - l = w + 1
  <2>1. l + w + 1 > l /\ ~(l + w + 1 <= l) /\ l + w + 1 - l = w + 1
    BY <1>1
  <2> QED  BY <1>1, <1>2, <1>7, <2>1 DEF Waits
<1>17. \A i \in 1 .. n : ~Later(pnd, i) => ~Later(pend, i) /\ pend[i] # s.key
  <2>1. SUFFICES ASSUME NEW i \in 1 .. n, Later(pend, i) \/ pend[i] = s.key PROVE Later(pnd, i)
    OBVIOUS
  <2>2. CASE pend[i] = s.key
    <3>1. n + 1 \in 1 .. n + 1 /\ i < n + 1
      BY <1>1
    <3> QED  BY <1>6, <2>2, <3>1 DEF Later
  <2>3. CASE Later(pend, i)
    <3>1. PICK j \in 1 .. n : i < j /\ pend[j] = pend[i]
      BY <1>1, <2>3 DEF Later
    <3> QED  BY <1>6, <1>10, <3>1 DEF Later
  <2> QED  BY <2>1, <2>2, <2>3
<1>18. g \in [1 .. n + 1 -> 1 .. l + w + 1]
  <2>1. l + w + 1 \in 1 .. l + w + 1 /\ \A i \in 1 .. n : f[i] \in 1 .. l + w + 1
    BY <1>1, <1>12
  <2> QED  BY <1>9, <1>13, <2>1
<1>19. \A i, j \in 1 .. n + 1 : i < j => g[i] < g[j]
  <2>1. SUFFICES ASSUME NEW i \in 1 .. n + 1, NEW j \in 1 .. n + 1, i < j PROVE g[i] < g[j]
    OBVIOUS
  <2>2. i \in 1 .. n
    BY <1>1, <2>1
  <2>3. CASE j = n + 1
    <3>1. f[i] \in 1 .. l + w
      BY <1>12, <2>2
    <3>2. f[i] < l + w + 1
      BY <1>1, <3>1
    <3> QED  BY <1>11, <2>2, <2>3, <3>2
  <2>4. CASE j \in 1 .. n
    BY <1>11, <1>12, <2>1, <2>2, <2>4
  <2> QED  BY <1>13, <2>3, <2>4
<1>20. \A i \in 1 .. n + 1 : Waits(lns, wrs, g[i])
  BY <1>11, <1>12, <1>13, <1>15, <1>16
<1>21. \A p \in 1 .. l + w + 1 : Waits(lns, wrs, p) => \E i \in 1 .. n + 1 : g[i] = p
  <2>1. TAKE p \in 1 .. l + w + 1
  <2>2. n + 1 \in 1 .. n + 1
    BY <1>1
  <2>3. CASE p = l + w + 1
    BY <1>11, <2>2, <2>3
  <2>4. CASE p \in 1 .. l + w
    BY <1>10, <1>11, <1>12, <1>15, <2>4
  <2> QED  BY <1>14, <2>3, <2>4
<1>22. \A i \in 1 .. n + 1 : g[i] > l => wrs[g[i] - l].key = pnd[i]
  <2>1. wrs[g[n + 1] - l].key = pnd[n + 1]
    BY <1>6, <1>7, <1>11, <1>16
  <2>2. \A i \in 1 .. n : g[i] > l => wrs[g[i] - l].key = pnd[i]
    BY SMTT(25), <1>6, <1>11, <1>12, <1>15
  <2> QED  BY <1>13, <2>1, <2>2
<1>23. \A i \in 1 .. n + 1 : g[i] > l /\ ~Later(pnd, i) => wrs[g[i] - l].val = asks[pnd[i]]
  <2>1. asks[s.key] = s.val
    BY <1>2, <1>8
  <2>2. \A i \in 1 .. n : ~Later(pnd, i) => asks[pnd[i]] = ask[pend[i]] /\ ~Later(pend, i)
    BY <1>6, <1>8, <1>17
  <2>3. wrs[g[n + 1] - l].val = asks[pnd[n + 1]]
    BY <1>6, <1>7, <1>11, <1>16, <2>1
  <2>4. \A i \in 1 .. n : g[i] > l /\ ~Later(pnd, i) => wrs[g[i] - l].val = asks[pnd[i]]
    BY SMTT(25), <1>11, <1>12, <1>15, <2>2
  <2> QED  BY <1>13, <2>3, <2>4
<1>24. \A i \in 1 .. n + 1 : g[i] <= l /\ ~Later(pnd, i) /\ lns[g[i]].text = "OK" => par[pnd[i]] = asks[pnd[i]]
  <2>1. ~(g[n + 1] <= l)
    BY <1>1, <1>11
  <2>2. \A i \in 1 .. n : ~Later(pnd, i) => asks[pnd[i]] = ask[pend[i]] /\ ~Later(pend, i) /\ pnd[i] = pend[i]
    BY <1>6, <1>8, <1>17
  <2> QED  BY <1>11, <1>12, <1>13, <2>1, <2>2
<1>25. Fits(g, pnd, lns, wrs, par, asks)
  <2>1. Len(lns) + Len(wrs) = l + w + 1
    BY <1>1, <1>7
  <2> QED  BY <1>1, <1>6, <1>18, <1>19, <1>20, <1>21, <1>22, <1>23, <1>24, <2>1 DEF Fits, Placed
<1> QED  BY <1>3, <1>4, <1>5, <1>25

\* A command that is no SET.
LEMMA FitsAsks ==
    ASSUME NEW pend \in Seq(Tool!Key), NEW lns \in Seq(ToolLine), NEW wr \in Seq(ToolCmd), NEW par, NEW ask,
           NEW f, Fits(f, pend, lns, wr, par, ask), NEW s \in ToolCmd, s.cmd # "set"
    PROVE  Fits(f, pend, lns, Append(wr, s), par, ask)
<1>1. PICK n \in Nat, l \in Nat, w \in Nat : n = Len(pend) /\ l = Len(lns) /\ w = Len(wr)
  OBVIOUS
<1>2. PICK wrs : wrs = Append(wr, s)
  OBVIOUS
<1>3. Len(wrs) = w + 1 /\ wrs[w + 1] = s /\ \A i \in 1 .. w : wrs[i] = wr[i]
  BY <1>1, <1>2
<1>4. Placed(f, n, l, w, pend, lns, wr, par, ask)
  BY <1>1 DEF Fits, Placed
<1>5. \A p \in 1 .. l + w + 1 : p = l + w + 1 \/ p \in 1 .. l + w
  BY <1>1
<1>6. \A p \in 1 .. l + w : Waits(lns, wrs, p) = Waits(lns, wr, p) /\ (p > l => wrs[p - l] = wr[p - l])
  <2>1. TAKE p \in 1 .. l + w
  <2>2. p > l => p - l \in 1 .. w
    BY <1>1
  <2>3. p > l => wrs[p - l] = wr[p - l]
    BY <1>3, <2>2
  <2>4. p <= l \/ p > l
    BY <1>1
  <2> QED  BY <1>1, <2>3, <2>4 DEF Waits
<1>7. ~Waits(lns, wrs, l + w + 1)
  <2>1. ~(l + w + 1 <= l) /\ l + w + 1 - l = w + 1
    BY <1>1
  <2> QED  BY <1>1, <1>3, <2>1 DEF Waits
<1>8. \A p \in 1 .. l + w : p \in 1 .. l + (w + 1)
  BY <1>1
<1>9. \A p \in 1 .. l + (w + 1) : Waits(lns, wrs, p) => p \in 1 .. l + w /\ Waits(lns, wr, p)
  <2>1. \A p \in 1 .. l + (w + 1) : p \in 1 .. l + w + 1
    BY <1>1
  <2> QED  BY <1>5, <1>6, <1>7, <2>1
<1>10. Placed(f, n, l, w + 1, pend, lns, wrs, par, ask)
  BY ZenonT(40), <1>4, <1>6, <1>8, <1>9 DEF Placed
<1>11. Fits(f, pend, lns, wrs, par, ask)
  BY <1>1, <1>3, <1>10 DEF Fits, Placed
<1> QED  BY <1>2, <1>11

\* A line that answers no SET is read.
LEMMA FitsSkips ==
    ASSUME NEW pend \in Seq(Tool!Key), NEW lns \in Seq(ToolLine), NEW wr \in Seq(ToolCmd), NEW par, NEW ask,
           NEW f, Fits(f, pend, lns, wr, par, ask), lns # <<>>, lns[1].text = "value"
    PROVE  \E g : Fits(g, pend, Tail(lns), wr, par, ask)
<1>1. PICK n \in Nat, l \in Nat, w \in Nat : n = Len(pend) /\ l = Len(lns) /\ w = Len(wr)
  OBVIOUS
<1>2. PICK rest : rest = Tail(lns)
  OBVIOUS
<1>3. l > 0 /\ Len(rest) = l - 1 /\ l - 1 \in Nat /\ \A i \in 1 .. l - 1 : rest[i] = lns[i + 1]
  BY <1>1, <1>2, TailFacts
<1>4. Placed(f, n, l, w, pend, lns, wr, par, ask)
  BY <1>1 DEF Fits, Placed
<1>5. ~Waits(lns, wr, 1)
  BY <1>1, <1>3 DEF Waits
<1>6. \A p \in 1 .. l - 1 + w : Waits(rest, wr, p) = Waits(lns, wr, p + 1)
  <2>1. TAKE p \in 1 .. l - 1 + w
  <2>2. (p <= l - 1 <=> p + 1 <= l) /\ p - (l - 1) = p + 1 - l /\ (p <= l - 1 => p \in 1 .. l - 1)
    BY <1>1, <1>3
  <2> QED  BY SMTT(25), <1>1, <1>3, <2>2 DEF Waits
<1>7. \A p \in 1 .. l + w : p = 1 \/ p - 1 \in 1 .. l - 1 + w
  BY <1>1, <1>3
<1>8. \A i \in 1 .. n : f[i] \in 1 .. l + w /\ f[i] - 1 \in 1 .. l - 1 + w /\ f[i] - 1 + 1 = f[i]
  <2>1. TAKE i \in 1 .. n
  <2>2. f[i] \in 1 .. l + w /\ f[i] # 1
    BY <1>4, <1>5 DEF Placed
  <2> QED  BY <1>1, <1>7, <2>2
<1>9. PICK g : g = [i \in 1 .. n |-> f[i] - 1]
  OBVIOUS
<1>10. \A i \in 1 .. n : /\ g[i] = f[i] - 1 /\ (g[i] > l - 1 <=> f[i] > l) /\ (g[i] <= l - 1 <=> f[i] <= l)
                         /\ g[i] - (l - 1) = f[i] - l /\ (g[i] <= l - 1 => rest[g[i]] = lns[f[i]])
  <2>1. TAKE i \in 1 .. n
  <2>2. g[i] = f[i] - 1 /\ f[i] \in 1 .. l + w /\ f[i] - 1 \in 1 .. l - 1 + w
    BY <1>8, <1>9
  <2>3. f[i] - 1 <= l - 1 => f[i] - 1 \in 1 .. l - 1 /\ f[i] - 1 + 1 = f[i]
    BY <1>1, <1>3, <2>2
  <2> QED  BY SMTT(25), <1>1, <1>3, <2>2, <2>3
<1>11. Placed(g, n, l - 1, w, pend, rest, wr, par, ask)
  <2>1. g \in [1 .. n -> 1 .. l - 1 + w]
    BY <1>8, <1>9
  <2>2. \A i, j \in 1 .. n : i < j => g[i] < g[j]
    <3>1. TAKE i, j \in 1 .. n
    <3>2. g[i] = f[i] - 1 /\ g[j] = f[j] - 1 /\ f[i] \in 1 .. l + w /\ f[j] \in 1 .. l + w /\ (i < j => f[i] < f[j])
      BY <1>4, <1>8, <1>10 DEF Placed
    <3> QED  BY <1>1, <3>2
  <2>3. \A i \in 1 .. n : Waits(rest, wr, g[i])
    <3>1. TAKE i \in 1 .. n
    <3>2. Waits(rest, wr, f[i] - 1) = Waits(lns, wr, f[i] - 1 + 1)
      BY <1>6, <1>8
    <3> QED  BY <1>4, <1>8, <1>10, <3>2 DEF Placed
  <2>4. ASSUME NEW p \in 1 .. l - 1 + w, Waits(rest, wr, p) PROVE \E i \in 1 .. n : g[i] = p
    <3>1. p + 1 \in 1 .. l + w /\ Waits(lns, wr, p + 1) /\ p + 1 - 1 = p
      BY <1>1, <1>3, <1>6, <2>4
    <3>2. PICK i \in 1 .. n : f[i] = p + 1
      BY <1>4, <3>1 DEF Placed
    <3> QED  BY <1>10, <3>1, <3>2
  <2>5. \A i \in 1 .. n : g[i] > l - 1 => wr[g[i] - (l - 1)].key = pend[i]
    BY <1>4, <1>10 DEF Placed
  <2>6. \A i \in 1 .. n : g[i] > l - 1 /\ ~Later(pend, i) => wr[g[i] - (l - 1)].val = ask[pend[i]]
    BY <1>4, <1>10 DEF Placed
  <2>7. \A i \in 1 .. n : g[i] <= l - 1 /\ ~Later(pend, i) /\ rest[g[i]].text = "OK" => par[pend[i]] = ask[pend[i]]
    BY <1>4, <1>10 DEF Placed
  <2> QED  BY <2>1, <2>2, <2>3, <2>4, <2>5, <2>6, <2>7 DEF Placed
<1>12. Fits(g, pend, rest, wr, par, ask)
  BY <1>1, <1>3, <1>11 DEF Fits, Placed
<1> QED  BY <1>2, <1>12

\* The oldest waiting key is that of the answer that is read.
LEMMA FitsPops ==
    ASSUME NEW pend \in Seq(Tool!Key), NEW lns \in Seq(ToolLine), NEW wr \in Seq(ToolCmd), NEW par, NEW ask,
           NEW f, Fits(f, pend, lns, wr, par, ask), lns # <<>>, lns[1].text # "value"
    PROVE  /\ pend # <<>> /\ \E g : Fits(g, Tail(pend), Tail(lns), wr, par, ask)
           /\ lns[1].text = "OK" /\ (\A j \in 1 .. Len(Tail(pend)) : Tail(pend)[j] # Head(pend))
                => par[Head(pend)] = ask[Head(pend)]
<1>1. PICK n \in Nat, l \in Nat, w \in Nat : n = Len(pend) /\ l = Len(lns) /\ w = Len(wr)
  OBVIOUS
<1>2. PICK rest : rest = Tail(lns)
  OBVIOUS
<1>3. l > 0 /\ Len(rest) = l - 1 /\ l - 1 \in Nat /\ \A i \in 1 .. l - 1 : rest[i] = lns[i + 1]
  BY <1>1, <1>2, TailFacts
<1>4. Placed(f, n, l, w, pend, lns, wr, par, ask)
  BY <1>1 DEF Fits, Placed
<1>5. 1 \in 1 .. n /\ f[1] = 1
  <2>1. 1 \in 1 .. l + w /\ Waits(lns, wr, 1)
    BY <1>1, <1>3 DEF Waits
  <2>2. PICK i \in 1 .. n : f[i] = 1
    BY <1>4, <2>1 DEF Placed
  <2>3. 1 \in 1 .. n /\ (i = 1 \/ 1 < i)
    BY <1>1
  <2>4. 1 < i => f[1] < 1 /\ f[1] \in 1 .. l + w
    BY <1>4, <2>2, <2>3 DEF Placed
  <2>5. f[1] < 1 /\ f[1] \in 1 .. l + w => FALSE
    BY <1>1
  <2> QED  BY <2>2, <2>3, <2>4, <2>5
<1>6. n > 0 /\ pend # <<>>
  <2>1. n > 0
    BY <1>1, <1>5
  <2> QED  BY <1>1, <2>1
<1>7. PICK pnd : pnd = Tail(pend)
  OBVIOUS
<1>8. /\ Head(pend) = pend[1] /\ Len(pnd) = n - 1 /\ n - 1 \in Nat
      /\ \A i \in 1 .. n - 1 : pnd[i] = pend[i + 1] /\ i + 1 \in 1 .. n
  BY <1>1, <1>6, <1>7, TailFacts
<1>9. \A i \in 1 .. n - 1 : Later(pend, i + 1) => Later(pnd, i)
  <2>1. TAKE i \in 1 .. n - 1
  <2>2. HAVE Later(pend, i + 1)
  <2>3. PICK j \in 1 .. n : i + 1 < j /\ pend[j] = pend[i + 1]
    BY <1>1, <2>2 DEF Later
  <2>4. j - 1 \in 1 .. n - 1 /\ i < j - 1 /\ j - 1 + 1 = j
    BY <1>1, <1>6, <2>3
  <2>5. pnd[j - 1] = pnd[i]
    BY <1>8, <2>3, <2>4
  <2> QED  BY <1>8, <2>4, <2>5 DEF Later
<1>10. \A p \in 1 .. l - 1 + w : Waits(rest, wr, p) = Waits(lns, wr, p + 1)
  <2>1. TAKE p \in 1 .. l - 1 + w
  <2>2. (p <= l - 1 <=> p + 1 <= l) /\ p - (l - 1) = p + 1 - l /\ (p <= l - 1 => p \in 1 .. l - 1)
    BY <1>1, <1>3
  <2> QED  BY <1>1, <1>3, <2>2 DEF Waits
<1>11. \A i \in 1 .. n - 1 : f[i + 1] \in 1 .. l + w /\ f[i + 1] - 1 \in 1 .. l - 1 + w /\ f[i + 1] - 1 + 1 = f[i + 1]
  <2>1. TAKE i \in 1 .. n - 1
  <2>2. i + 1 \in 1 .. n /\ 1 < i + 1
    BY <1>1, <1>6
  <2>3. f[i + 1] \in 1 .. l + w /\ 1 < f[i + 1]
    BY <1>4, <1>5, <2>2 DEF Placed
  <2> QED  BY <1>1, <1>3, <2>3
<1>12. PICK g : g = [i \in 1 .. n - 1 |-> f[i + 1] - 1]
  OBVIOUS
<1>13. \A i \in 1 .. n - 1 :
          /\ g[i] = f[i + 1] - 1 /\ (g[i] > l - 1 <=> f[i + 1] > l) /\ (g[i] <= l - 1 <=> f[i + 1] <= l)
          /\ g[i] - (l - 1) = f[i + 1] - l /\ (g[i] <= l - 1 => rest[g[i]] = lns[f[i + 1]])
  <2>1. TAKE i \in 1 .. n - 1
  <2>2. g[i] = f[i + 1] - 1 /\ f[i + 1] \in 1 .. l + w /\ f[i + 1] - 1 \in 1 .. l - 1 + w
    BY <1>11, <1>12
  <2>3. PICK x \in 1 .. l + w : x = f[i + 1]
    BY <2>2
  <2>4. /\ x - 1 > l - 1 <=> x > l
        /\ x - 1 <= l - 1 <=> x <= l
        /\ x - 1 - (l - 1) = x - l
    BY <1>1, <1>3
  <2>5. x - 1 <= l - 1 => x - 1 \in 1 .. l - 1 /\ x - 1 + 1 = x
    BY <1>1, <1>3, <2>2, <2>3
  <2>6. x - 1 <= l - 1 => rest[x - 1] = lns[x]
    BY <1>3, <2>5
  <2> QED  BY <2>2, <2>3, <2>4, <2>6
<1>14. Placed(g, n - 1, l - 1, w, pnd, rest, wr, par, ask)
  <2>1. g \in [1 .. n - 1 -> 1 .. l - 1 + w]
    BY <1>11, <1>12
  <2>2. \A i, j \in 1 .. n - 1 : i < j => g[i] < g[j]
    <3>1. TAKE i, j \in 1 .. n - 1
    <3>2. i < j => i + 1 < j + 1
      BY <1>1, <1>6
    <3>3. g[i] = f[i + 1] - 1 /\ g[j] = f[j + 1] - 1 /\ f[i + 1] \in 1 .. l + w /\ f[j + 1] \in 1 .. l + w
          /\ (i < j => f[i + 1] < f[j + 1])
      BY <1>4, <1>8, <1>11, <1>13, <3>2 DEF Placed
    <3> QED  BY <1>1, <3>3
  <2>3. \A i \in 1 .. n - 1 : Waits(rest, wr, g[i])
    <3>1. TAKE i \in 1 .. n - 1
    <3>2. Waits(rest, wr, f[i + 1] - 1) = Waits(lns, wr, f[i + 1] - 1 + 1)
      BY <1>10, <1>11
    <3> QED  BY <1>4, <1>8, <1>11, <1>13, <3>2 DEF Placed
  <2>4. ASSUME NEW p \in 1 .. l - 1 + w, Waits(rest, wr, p) PROVE \E i \in 1 .. n - 1 : g[i] = p
    <3>1. p + 1 \in 1 .. l + w /\ Waits(lns, wr, p + 1) /\ p + 1 - 1 = p /\ p + 1 # 1
      BY <1>1, <1>3, <1>10, <2>4
    <3>2. PICK i \in 1 .. n : f[i] = p + 1
      BY <1>4, <3>1 DEF Placed
    <3>3. i - 1 \in 1 .. n - 1 /\ i - 1 + 1 = i
      <4>1. i # 1
        BY <1>5, <3>1, <3>2
      <4> QED  BY <1>1, <4>1
    <3>4. g[i - 1] = f[i - 1 + 1] - 1
      BY <1>13, <3>3
    <3> QED  BY SMTT(25), <3>1, <3>2, <3>3, <3>4
  <2>5. \A i \in 1 .. n - 1 : g[i] > l - 1 => wr[g[i] - (l - 1)].key = pnd[i]
    BY ZenonT(40), <1>4, <1>8, <1>13 DEF Placed
  <2>6. \A i \in 1 .. n - 1 : g[i] > l - 1 /\ ~Later(pnd, i) => wr[g[i] - (l - 1)].val = ask[pnd[i]]
    <3>1. TAKE i \in 1 .. n - 1
    <3>2. /\ i + 1 \in 1 .. n /\ pnd[i] = pend[i + 1] /\ (~Later(pnd, i) => ~Later(pend, i + 1))
          /\ (g[i] > l - 1 <=> f[i + 1] > l) /\ g[i] - (l - 1) = f[i + 1] - l
      BY <1>8, <1>9, <1>13
    <3>3. f[i + 1] > l /\ ~Later(pend, i + 1) => wr[f[i + 1] - l].val = ask[pend[i + 1]]
      BY <1>4, <3>2 DEF Placed
    <3> QED  BY <3>2, <3>3
  <2>7. \A i \in 1 .. n - 1 : g[i] <= l - 1 /\ ~Later(pnd, i) /\ rest[g[i]].text = "OK" => par[pnd[i]] = ask[pnd[i]]
    <3>1. TAKE i \in 1 .. n - 1
    <3>2. /\ i + 1 \in 1 .. n /\ pnd[i] = pend[i + 1] /\ (~Later(pnd, i) => ~Later(pend, i + 1))
          /\ (g[i] <= l - 1 <=> f[i + 1] <= l) /\ (g[i] <= l - 1 => rest[g[i]] = lns[f[i + 1]])
      BY <1>8, <1>9, <1>13
    <3>3. f[i + 1] <= l /\ ~Later(pend, i + 1) /\ lns[f[i + 1]].text = "OK" => par[pend[i + 1]] = ask[pend[i + 1]]
      BY <1>4, <3>2 DEF Placed
    <3> QED  BY <3>2, <3>3
  <2> QED  BY <2>1, <2>2, <2>3, <2>4, <2>5, <2>6, <2>7 DEF Placed
<1>15. Fits(g, pnd, rest, wr, par, ask)
  BY <1>1, <1>3, <1>8, <1>14 DEF Fits
<1>16. ASSUME lns[1].text = "OK", \A j \in 1 .. n - 1 : pnd[j] # pend[1]
       PROVE  par[pend[1]] = ask[pend[1]]
  <2>1. ~Later(pend, 1)
    <3>1. SUFFICES ASSUME NEW j \in 1 .. n, 1 < j, pend[j] = pend[1] PROVE FALSE
      BY <1>1 DEF Later
    <3>2. j - 1 \in 1 .. n - 1 /\ j - 1 + 1 = j
      BY <1>1, <3>1
    <3>3. pnd[j - 1] = pend[j]
      BY <1>8, <3>2
    <3> QED  BY <1>16, <3>1, <3>2, <3>3
  <2>2. 1 <= l
    BY <1>1, <1>3
  <2> QED  BY <1>4, <1>5, <1>16, <2>1, <2>2 DEF Placed
<1> QED  BY <1>2, <1>6, <1>7, <1>8, <1>15, <1>16

\* The beacon carries out a SET or refuses it: its answer takes its place.
LEMMA FitsAnswers ==
    ASSUME NEW pend \in Seq(Tool!Key), NEW lns \in Seq(ToolLine), NEW wr \in Seq(ToolCmd), NEW par \in Table, NEW ask,
           NEW f, Fits(f, pend, lns, wr, par, ask), wr # <<>>, NEW a \in ToolLine, NEW pars,
           \/ /\ wr[1].cmd = "set" /\ a.text = "OK" /\ pars = [par EXCEPT ![wr[1].key] = wr[1].val]
           \/ /\ wr[1].cmd = "set" /\ a.text = "ERR" /\ pars = par
           \/ /\ wr[1].cmd # "set" /\ a.text = "value" /\ pars = par
    PROVE  /\ Fits(f, pend, Append(lns, a), Tail(wr), pars, ask)
           /\ wr[1].cmd = "set" => \E i \in 1 .. Len(pend) : pend[i] = wr[1].key
<1>1. PICK n \in Nat, l \in Nat, w \in Nat : n = Len(pend) /\ l = Len(lns) /\ w = Len(wr)
  OBVIOUS
<1>2. PICK lines2 : lines2 = Append(lns, a)
  OBVIOUS
<1>3. PICK wrs : wrs = Tail(wr)
  OBVIOUS
<1>4. Len(lines2) = l + 1 /\ lines2[l + 1] = a /\ \A i \in 1 .. l : lines2[i] = lns[i]
  BY <1>1, <1>2
<1>5. /\ w > 0 /\ Len(wrs) = w - 1 /\ w - 1 \in Nat /\ \A i \in 1 .. w - 1 : wrs[i] = wr[i + 1]
      /\ wr[1] \in ToolCmd
  BY <1>1, <1>3, TailFacts
<1>6. Placed(f, n, l, w, pend, lns, wr, par, ask)
  BY <1>1 DEF Fits
<1>7. l + 1 + (w - 1) = l + w /\ l + 1 \in 1 .. l + w
  BY <1>1, <1>5
<1>8. \A p \in 1 .. l + w :
         /\ p <= l \/ p = l + 1 \/ p > l + 1
         /\ p <= l => p \in 1 .. l /\ p <= l + 1
         /\ p = l + 1 => ~(p <= l) /\ p <= l + 1 /\ p - l = 1
         /\ p > l + 1 => /\ ~(p <= l) /\ ~(p <= l + 1) /\ p > l
                         /\ p - (l + 1) \in 1 .. w - 1 /\ p - (l + 1) + 1 = p - l
  <2>1. TAKE p \in 1 .. l + w
  <2>2. p > l + 1 => p - (l + 1) \in 1 .. w - 1 /\ p - (l + 1) + 1 = p - l
    BY <1>1, <1>5
  <2>3. (p <= l \/ p = l + 1 \/ p > l + 1) /\ (p <= l => p \in 1 .. l /\ p <= l + 1)
    BY <1>1
  <2>4. p = l + 1 => ~(p <= l) /\ p <= l + 1 /\ p - l = 1
    BY <1>1
  <2>5. p > l + 1 => ~(p <= l) /\ ~(p <= l + 1) /\ p > l
    BY <1>1
  <2> QED  BY <2>2, <2>3, <2>4, <2>5
<1>9. \A p \in 1 .. l + w : p > l + 1 => p > l /\ wrs[p - (l + 1)] = wr[p - l]
  <2>1. TAKE p \in 1 .. l + w
  <2>2. HAVE p > l + 1
  <2>3. p > l /\ p - (l + 1) \in 1 .. w - 1 /\ p - (l + 1) + 1 = p - l
    BY <1>8, <2>2
  <2>4. wrs[p - (l + 1)] = wr[p - (l + 1) + 1]
    BY <1>5, <2>3
  <2> QED  BY <2>3, <2>4
<1>10. (a.text # "value") = (wr[1].cmd = "set")
  OBVIOUS
<1>11. \A p \in 1 .. l + w : Waits(lines2, wrs, p) = Waits(lns, wr, p)
  <2>1. TAKE p \in 1 .. l + w
  <2>2. CASE p <= l
    BY <1>1, <1>4, <1>8, <2>2 DEF Waits
  <2>3. CASE p = l + 1
    <3>1. ~(p <= l) /\ p <= l + 1 /\ p - l = 1
      BY <1>8, <2>3
    <3> QED  BY <1>1, <1>4, <1>10, <2>3, <3>1 DEF Waits
  <2>4. CASE p > l + 1
    <3>1. ~(p <= l) /\ ~(p <= l + 1)
      BY <1>8, <2>4
    <3> QED  BY <1>1, <1>4, <1>9, <2>4, <3>1 DEF Waits
  <2> QED  BY <1>8, <2>2, <2>3, <2>4
<1>12. \A i \in 1 .. n : f[i] \in 1 .. l + w
  BY <1>6 DEF Placed
<1>13. ASSUME wr[1].cmd = "set" PROVE \E i \in 1 .. n : f[i] = l + 1 /\ pend[i] = wr[1].key
  <2>1. Waits(lns, wr, l + 1) /\ l + 1 > l /\ l + 1 - l = 1
    <3>1. ~(l + 1 <= l) /\ l + 1 > l /\ l + 1 - l = 1
      BY <1>1
    <3> QED  BY <1>1, <1>13, <3>1 DEF Waits
  <2>2. PICK i \in 1 .. n : f[i] = l + 1
    BY <1>6, <1>7, <2>1 DEF Placed
  <2>3. f[i] > l /\ f[i] - l = 1
    BY <2>1, <2>2
  <2>4. wr[f[i] - l].key = pend[i]
    BY <1>6, <2>3 DEF Placed
  <2> QED  BY <2>2, <2>3, <2>4
<1>14. \A i \in 1 .. n : f[i] <= l + 1 /\ ~Later(pend, i) /\ lines2[f[i]].text = "OK" => pars[pend[i]] = ask[pend[i]]
  <2>1. SUFFICES ASSUME NEW i \in 1 .. n, f[i] <= l + 1, ~Later(pend, i), lines2[f[i]].text = "OK"
                 PROVE  pars[pend[i]] = ask[pend[i]]
    OBVIOUS
  <2>2. pend[i] \in Tool!Key
    BY <1>1
  <2>3. CASE f[i] = l + 1
    <3>1. a.text = "OK" /\ f[i] > l /\ f[i] - l = 1
      BY <1>1, <1>4, <2>1, <2>3
    <3>2. wr[1].key = pend[i] /\ wr[1].val = ask[pend[i]]
      BY <1>6, <2>1, <3>1 DEF Placed
    <3>3. pars = [par EXCEPT ![pend[i]] = ask[pend[i]]]
      BY <3>1, <3>2
    <3> QED  BY <2>2, <3>3 DEF Table
  <2>4. CASE f[i] <= l
    <3>1. f[i] \in 1 .. l
      BY <1>1, <1>12, <2>4
    <3>2. par[pend[i]] = ask[pend[i]]
      BY <1>4, <1>6, <2>1, <2>4, <3>1 DEF Placed
    <3>3. CASE pars = par
      BY <3>2, <3>3
    <3>4. CASE wr[1].cmd = "set" /\ pars = [par EXCEPT ![wr[1].key] = wr[1].val]
      <4>1. PICK j \in 1 .. n : f[j] = l + 1 /\ pend[j] = wr[1].key
        BY <1>13, <3>4
      <4>2. f[i] < f[j]
        BY <1>1, <3>1, <4>1
      <4>3. i < j
        <5>1. i = j \/ i < j \/ j < i
          BY <1>1
        <5>2. ~(f[j] < f[i]) /\ f[i] # f[j]
          BY <1>1, <3>1, <4>1
        <5> QED  BY <1>6, <5>1, <5>2 DEF Placed
      <4>4. pend[i] # wr[1].key
        BY <1>1, <2>1, <4>1, <4>3 DEF Later
      <4> QED  BY <2>2, <3>2, <3>4, <4>4 DEF Table
    <3> QED  BY <3>3, <3>4
  <2>5. PICK x \in 1 .. l + w : x = f[i]
    BY <1>12
  <2>6. x <= l + 1 => x = l + 1 \/ x <= l
    BY <1>1
  <2> QED  BY <2>1, <2>3, <2>4, <2>5, <2>6
<1>15. Placed(f, n, l + 1, w - 1, pend, lines2, wrs, pars, ask)
  <2>1. \A i \in 1 .. n : f[i] > l + 1 => wrs[f[i] - (l + 1)].key = pend[i]
    BY <1>6, <1>9, <1>12 DEF Placed
  <2>2. \A i \in 1 .. n : f[i] > l + 1 /\ ~Later(pend, i) => wrs[f[i] - (l + 1)].val = ask[pend[i]]
    BY <1>6, <1>9, <1>12 DEF Placed
  <2>3. \A i \in 1 .. n : Waits(lines2, wrs, f[i])
    BY <1>6, <1>11, <1>12 DEF Placed
  <2>4. \A p \in 1 .. l + w : Waits(lines2, wrs, p) => \E i \in 1 .. n : f[i] = p
    BY <1>6, <1>11 DEF Placed
  <2>5. f \in [1 .. n -> 1 .. l + w] /\ \A i, j \in 1 .. n : i < j => f[i] < f[j]
    BY <1>6 DEF Placed
  <2> QED  BY <1>7, <1>14, <2>1, <2>2, <2>3, <2>4, <2>5 DEF Placed
<1>16. Fits(f, pend, lines2, wrs, pars, ask)
  BY <1>1, <1>4, <1>5, <1>15 DEF Fits
<1> QED  BY <1>1, <1>2, <1>3, <1>13, <1>16

\* A command that is no SET is carried out without an answer.
LEMMA FitsDrops ==
    ASSUME NEW pend \in Seq(Tool!Key), NEW lns \in Seq(ToolLine), NEW wr \in Seq(ToolCmd), NEW par, NEW ask,
           NEW f, Fits(f, pend, lns, wr, par, ask), wr # <<>>, wr[1].cmd # "set"
    PROVE  \E g : Fits(g, pend, lns, Tail(wr), par, ask)
<1>1. PICK n \in Nat, l \in Nat, w \in Nat : n = Len(pend) /\ l = Len(lns) /\ w = Len(wr)
  OBVIOUS
<1>2. PICK wrs : wrs = Tail(wr)
  OBVIOUS
<1>3. w > 0 /\ Len(wrs) = w - 1 /\ w - 1 \in Nat /\ \A i \in 1 .. w - 1 : wrs[i] = wr[i + 1]
  BY <1>1, <1>2, TailFacts
<1>4. Placed(f, n, l, w, pend, lns, wr, par, ask)
  BY <1>1 DEF Fits
<1>5. ~Waits(lns, wr, l + 1)
  <2>1. ~(l + 1 <= l) /\ l + 1 - l = 1
    BY <1>1
  <2> QED  BY <1>1, <2>1 DEF Waits
<1> DEFINE left(p) == IF p <= l THEN p ELSE p - 1
<1>6. \A p \in 1 .. l + w : p # l + 1 =>
         /\ left(p) \in 1 .. l + (w - 1)
         /\ (p <= l <=> left(p) <= l) /\ (p > l <=> left(p) > l)
         /\ p <= l => left(p) = p
         /\ p > l => left(p) - l \in 1 .. w - 1 /\ left(p) - l + 1 = p - l
  BY <1>1, <1>3
<1>7. \A p, r \in 1 .. l + w : p # l + 1 /\ r # l + 1 /\ p < r => left(p) < left(r)
  BY <1>1
<1>8. \A p \in 1 .. l + (w - 1) : \E r \in 1 .. l + w : r # l + 1 /\ left(r) = p
  <2>1. TAKE p \in 1 .. l + (w - 1)
  <2>2. CASE p <= l
    <3>1. p \in 1 .. l + w /\ p # l + 1 /\ left(p) = p
      BY <1>1, <1>3, <2>2
    <3> QED  BY <3>1
  <2>3. CASE p > l
    <3>1. p + 1 \in 1 .. l + w /\ p + 1 # l + 1 /\ left(p + 1) = p
      BY <1>1, <1>3, <2>3
    <3> QED  BY <3>1
  <2> QED  BY <1>1, <2>2, <2>3
<1> HIDE DEF left
<1>9. \A p \in 1 .. l + w : p # l + 1 => /\ Waits(lns, wrs, left(p)) = Waits(lns, wr, p)
                                         /\ p > l => wrs[left(p) - l] = wr[p - l]
  <2>1. \A p \in 1 .. l + w : p # l + 1 /\ p > l => wrs[left(p) - l] = wr[p - l]
    BY <1>3, <1>6
  <2>2. \A p \in 1 .. l + w : p <= l \/ p > l
    BY <1>1
  <2>3. \A p \in 1 .. l + w : p > l => ~(p <= l)
    BY <1>1
  <2>4. \A p \in 1 .. l + w : p # l + 1 /\ p <= l => Waits(lns, wrs, left(p)) = Waits(lns, wr, p)
    BY <1>1, <1>6 DEF Waits
  <2>5. \A p \in 1 .. l + w : p # l + 1 /\ p > l => Waits(lns, wrs, left(p)) = Waits(lns, wr, p)
    BY <1>1, <1>6, <2>1, <2>3 DEF Waits
  <2> QED  BY <2>1, <2>2, <2>4, <2>5
<1>10. \A i \in 1 .. n : f[i] \in 1 .. l + w /\ f[i] # l + 1
  BY <1>4, <1>5 DEF Placed
<1>11. PICK g : g = [i \in 1 .. n |-> left(f[i])]
  OBVIOUS
<1>12. \A i \in 1 .. n : g[i] = left(f[i])
  BY <1>11
<1>13. Placed(g, n, l, w - 1, pend, lns, wrs, par, ask)
  <2>1. g \in [1 .. n -> 1 .. l + (w - 1)]
    BY <1>6, <1>10, <1>11
  <2>2. \A i, j \in 1 .. n : i < j => g[i] < g[j]
    <3>1. TAKE i, j \in 1 .. n
    <3>2. HAVE i < j
    <3>3. f[i] < f[j]
      BY <1>4, <3>2 DEF Placed
    <3> QED  BY <1>7, <1>10, <1>12, <3>3
  <2>3. \A i \in 1 .. n : Waits(lns, wrs, g[i])
    BY <1>4, <1>9, <1>10, <1>12 DEF Placed
  <2>4. ASSUME NEW p \in 1 .. l + (w - 1), Waits(lns, wrs, p) PROVE \E i \in 1 .. n : g[i] = p
    <3>1. PICK r \in 1 .. l + w : r # l + 1 /\ left(r) = p
      BY <1>8
    <3>2. PICK i \in 1 .. n : f[i] = r
      BY <1>4, <1>9, <2>4, <3>1 DEF Placed
    <3> QED  BY <1>12, <3>1, <3>2
  <2>5. \A i \in 1 .. n : /\ g[i] > l <=> f[i] > l
                          /\ g[i] <= l <=> f[i] <= l
                          /\ f[i] <= l => g[i] = f[i]
                          /\ f[i] > l => wrs[g[i] - l] = wr[f[i] - l]
    <3>1. TAKE i \in 1 .. n
    <3>2. PICK x \in 1 .. l + w : x = f[i] /\ x # l + 1 /\ g[i] = left(x)
      BY <1>10, <1>12
    <3> QED  BY ZenonT(40), <1>6, <1>9, <3>2
  <2>6. \A i \in 1 .. n : /\ g[i] > l => wrs[g[i] - l].key = pend[i]
                          /\ g[i] > l /\ ~Later(pend, i) => wrs[g[i] - l].val = ask[pend[i]]
                          /\ g[i] <= l /\ ~Later(pend, i) /\ lns[g[i]].text = "OK" => par[pend[i]] = ask[pend[i]]
    BY <1>4, <2>5 DEF Placed
  <2> QED  BY <2>1, <2>2, <2>3, <2>4, <2>6 DEF Placed
<1>14. Fits(g, pend, lns, wrs, par, ask)
  BY <1>1, <1>3, <1>13 DEF Fits
<1> QED  BY <1>2, <1>14

\* send_next: a SET goes out, or there is no port.
LEMMA ToolSends ==
    ASSUME ToolInv, NEW pairs \in Seq(SetCmd) \ {<<>>}, NEW rest \in Seq(Seq(SetCmd) \ {<<>>}),
           NEW labels \in [Tool!Key -> {"none", "pending", "ok", "err"}],
           \A k \in Tool!Key : labels[k] \in {"none", ack_status[k]},
           Tool!SendSet(pairs, rest, labels), UNCHANGED <<c_open, widgets, c_lines, params>>
    PROVE  ToolInv'
<1>0. /\ ToolShape /\ ToolFlags /\ MaxSends \in Nat /\ c_sends \in 0 .. MaxSends
      /\ ack_status \in [Tool!Key -> {"none", "pending", "ok", "err"}] /\ asked \in Table /\ params \in Table
      /\ ack_pending \in Seq(Tool!Key) /\ c_wire \in Seq(ToolCmd) /\ c_lines \in Seq(ToolLine)
  BY QueueAssumption DEF ToolInv, ToolShape
<1>1. PICK s : s = Head(pairs)
  OBVIOUS
<1>2. s \in SetCmd /\ Tail(pairs) \in Seq(SetCmd) /\ Len(Tail(pairs)) = Len(pairs) - 1 /\ Len(pairs) \in Nat
  BY <1>1, TailFacts
<1>3. s.key \in Tool!Key /\ s.val \in Tool!Val /\ s.cmd = "set" /\ s \in ToolCmd
  BY <1>2, ToolFacts
<1>4. PICK more \in Seq(Seq(SetCmd) \ {<<>>}) : more = IF Len(pairs) > 1 THEN Append(rest, Tail(pairs)) ELSE rest
  <2>1. CASE Len(pairs) > 1
    <3>1. Tail(pairs) # <<>>
      <4>1. PICK m \in Nat : m = Len(pairs) /\ m > 1 /\ Len(Tail(pairs)) = m - 1
        BY <1>2, <2>1
      <4>2. \A x \in Nat : x > 1 => x - 1 # 0
        OBVIOUS
      <4>3. Tail(pairs) = <<>> => Len(Tail(pairs)) = 0
        BY ShortFacts
      <4> QED  BY <4>1, <4>2, <4>3
    <3>2. PICK t \in Seq(SetCmd) \ {<<>>} : t = Tail(pairs)
      BY <1>2, <3>1
    <3> QED  BY <2>1, <3>2, AppendFacts
  <2>2. CASE ~(Len(pairs) > 1)
    BY <2>2
  <2> QED  BY <2>1, <2>2
<1>5. CASE ~c_open
  <2>1. UNCHANGED <<c_sends, c_wire, ack_pending, asked, c_excused>> /\ ack_status' = labels /\ chains' = more
    BY <1>4, <1>5 DEF Tool!SendSet
  <2>2. ToolShape' /\ ToolFlags'
    BY <1>0, <1>4, <2>1 DEF ToolShape, ToolFlags
  <2>3. ToolQuiet' /\ \A k \in Tool!Key : ack_status'[k] = "none"
    BY <1>5, <2>1 DEF ToolInv, ToolQuiet
  <2>4. ToolFits' /\ Tool!LabelIsTrue'
    BY <1>5, <2>3 DEF ToolFits, Tool!LabelIsTrue
  <2> QED  BY <2>2, <2>3, <2>4 DEF ToolInv
<1>7. CASE c_open /\ c_sends < MaxSends /\ c_sends' = c_sends + 1 /\ chains' = rest /\ c_excused' = TRUE /\ UNCHANGED <<c_wire, asked>>
  <2>1. ack_status' = [labels EXCEPT ![s.key] = "pending"] /\ ack_pending' = Append(ack_pending, s.key)
    BY <1>1, <1>7 DEF Tool!SendSet
  <2>2. ack_pending' \in Seq(Tool!Key) /\ c_sends' \in 0 .. MaxSends
    BY <1>0, <1>3, <1>7, <2>1, AppendFacts
  <2>3. ack_status' \in [Tool!Key -> {"none", "pending", "ok", "err"}]
    BY <1>3, <2>1
  <2>4. ToolShape' /\ ToolFlags'
    BY <1>0, <1>7, <2>2, <2>3 DEF ToolShape, ToolFlags
  <2> QED  BY <1>7, <2>4 DEF ToolInv, ToolQuiet, ToolFits, Tool!LabelIsTrue
<1>6. CASE c_open /\ Tool!Send(s) /\ chains' = more /\ asked' = [asked EXCEPT ![s.key] = s.val] /\ UNCHANGED c_excused
  <2>1. /\ c_sends < MaxSends /\ Len(c_wire) < MaxLines /\ c_sends' = c_sends + 1 /\ c_wire' = Append(c_wire, s)
        /\ ack_status' = [labels EXCEPT ![s.key] = "pending"] /\ ack_pending' = Append(ack_pending, s.key)
        /\ asked' = [asked EXCEPT ![s.key] = s.val]
    BY <1>1, <1>6 DEF Tool!SendSet, Tool!Send
  <2>2. /\ c_wire' \in Seq(ToolCmd) /\ Len(c_wire') = Len(c_wire) + 1 /\ Len(c_wire) \in Nat
    BY <1>0, <1>3, <2>1, AppendFacts
  <2>3. /\ ack_pending' \in Seq(Tool!Key) /\ Len(ack_pending') = Len(ack_pending) + 1 /\ Len(ack_pending) \in Nat
        /\ ack_pending'[Len(ack_pending) + 1] = s.key
        /\ \A i \in 1 .. Len(ack_pending) : ack_pending'[i] = ack_pending[i]
    BY <1>0, <1>3, <2>1, AppendFacts
  <2>4. Len(c_wire') <= MaxLines
    BY <2>1, <2>2, QueueAssumption
  <2>5. c_sends' \in 0 .. MaxSends
    BY <1>0, <2>1
  <2>6. asked' \in Table /\ \A k \in Tool!Key : k # s.key => asked'[k] = asked[k]
    BY <1>0, <1>3, <2>1 DEF Table
  <2>7. /\ ack_status' \in [Tool!Key -> {"none", "pending", "ok", "err"}]
        /\ \A k \in Tool!Key : ack_status'[k] = (IF k = s.key THEN "pending" ELSE labels[k])
    BY <1>3, <2>1
  <2>8. ToolShape' /\ ToolFlags'
    BY <1>0, <1>4, <1>6, <2>2, <2>3, <2>4, <2>5, <2>6, <2>7 DEF ToolShape, ToolFlags
  <2>9. ToolQuiet'
    BY <1>6 DEF ToolQuiet
  <2>10. ToolFits'
    <3>1. SUFFICES ASSUME ~c_excused PROVE \E f : Fits(f, ack_pending', c_lines', c_wire', params', asked')
      BY <1>6 DEF ToolFits
    <3>2. PICK f : Fits(f, ack_pending, c_lines, c_wire, params, asked)
      BY <1>6, <3>1 DEF ToolInv, ToolFits
    <3>3. PICK g : Fits(g, Append(ack_pending, s.key), c_lines, Append(c_wire, s), params, [asked EXCEPT ![s.key] = s.val])
      BY <1>0, <1>2, <3>2, FitsSends
    <3>4. Fits(g, ack_pending', c_lines', c_wire', params', asked')
      BY <2>1, <3>3
    <3> QED  BY <3>4
  <2>11. Tool!LabelIsTrue'
    <3>1. SUFFICES ASSUME NEW k \in Tool!Key, ~c_excused, ack_status'[k] = "ok",
                          \A i \in 1 .. Len(ack_pending') : ack_pending'[i] # k
                   PROVE  params[k] = asked'[k]
      BY <1>6 DEF Tool!LabelIsTrue
    <3>2. k # s.key /\ ack_status[k] = "ok"
      BY <2>7, <3>1
    <3>3. \A i \in 1 .. Len(ack_pending) : i \in 1 .. Len(ack_pending')
      BY <2>3
    <3>4. \A i \in 1 .. Len(ack_pending) : ack_pending[i] # k
      BY <2>3, <3>1, <3>3
    <3>5. params[k] = asked[k]
      BY <3>1, <3>2, <3>4 DEF ToolInv, Tool!LabelIsTrue
    <3> QED  BY <2>6, <3>2, <3>5
  <2> QED  BY <2>8, <2>9, <2>10, <2>11 DEF ToolInv
<1> QED  BY <1>1, <1>4, <1>5, <1>6, <1>7 DEF Tool!SendSet

\* GET and the other commands.
LEMMA ToolAsks ==
    ASSUME ToolInv, NEW s \in ToolCmd, s.cmd # "set", c_open, Tool!Send(s),
           UNCHANGED <<c_open, widgets, ack_status, ack_pending, chains, c_lines, params, asked, c_excused>>
    PROVE  ToolInv'
<1>0. /\ ToolShape /\ ToolFlags /\ MaxSends \in Nat /\ c_sends \in 0 .. MaxSends
      /\ ack_pending \in Seq(Tool!Key) /\ c_wire \in Seq(ToolCmd) /\ c_lines \in Seq(ToolLine)
  BY QueueAssumption DEF ToolInv, ToolShape
<1>1. c_sends < MaxSends /\ Len(c_wire) < MaxLines /\ c_sends' = c_sends + 1 /\ c_wire' = Append(c_wire, s)
  BY DEF Tool!Send
<1>2. /\ c_wire' \in Seq(ToolCmd) /\ Len(c_wire') = Len(c_wire) + 1 /\ Len(c_wire) \in Nat
  BY <1>0, <1>1, AppendFacts
<1>3. Len(c_wire') <= MaxLines
  BY <1>1, <1>2, QueueAssumption
<1>4. c_sends' \in 0 .. MaxSends
  BY <1>0, <1>1
<1>5. ToolShape' /\ ToolFlags'
  BY <1>0, <1>2, <1>3, <1>4 DEF ToolShape, ToolFlags
<1>6. ToolFits'
  <2>1. SUFFICES ASSUME ~c_excused PROVE \E f : Fits(f, ack_pending', c_lines', c_wire', params', asked')
    BY DEF ToolFits
  <2>2. PICK f : Fits(f, ack_pending, c_lines, c_wire, params, asked)
    BY <2>1 DEF ToolInv, ToolFits
  <2>3. Fits(f, ack_pending, c_lines, Append(c_wire, s), params, asked)
    BY <1>0, <2>2, FitsAsks
  <2>4. Fits(f, ack_pending', c_lines', c_wire', params', asked')
    BY <1>1, <2>3
  <2> QED  BY <2>4
<1>7. ToolQuiet' /\ Tool!LabelIsTrue'
  BY DEF ToolInv, ToolQuiet, Tool!LabelIsTrue
<1> QED  BY <1>5, <1>6, <1>7 DEF ToolInv

\* _parse_line.
LEMMA ToolParses ==
    ASSUME ToolInv, Tool!ParseLine
    PROVE  ToolInv'
<1>0. /\ ToolShape /\ ToolFlags
      /\ ack_status \in [Tool!Key -> {"none", "pending", "ok", "err"}]
      /\ ack_pending \in Seq(Tool!Key) /\ c_wire \in Seq(ToolCmd) /\ c_lines \in Seq(ToolLine) /\ Len(c_lines) <= MaxLines
  BY DEF ToolInv, ToolShape
<1>1. /\ c_lines # <<>> /\ c_lines' = Tail(c_lines)
      /\ UNCHANGED <<c_open, chains, c_wire, params, c_sends, asked, c_excused>>
  BY DEF Tool!ParseLine
<1>2. PICK s : s = Head(c_lines)
  OBVIOUS
<1>3. /\ s \in ToolLine /\ s = c_lines[1] /\ c_lines' \in Seq(ToolLine)
      /\ Len(c_lines') = Len(c_lines) - 1 /\ Len(c_lines) \in Nat
  BY <1>0, <1>1, <1>2, TailFacts
<1>4. Len(c_lines') <= MaxLines
  BY <1>0, <1>3, QueueAssumption
<1>5. CASE s.text = "value"
  <2>1. widgets' = s.of /\ UNCHANGED <<ack_status, ack_pending>>
    BY <1>2, <1>5 DEF Tool!ParseLine
  <2>2. ToolShape' /\ ToolFlags'
    <3>1. widgets' \in Table
      BY <1>3, <1>5, <2>1, ToolFacts
    <3> QED  BY <1>0, <1>1, <1>3, <1>4, <2>1, <3>1 DEF ToolShape, ToolFlags
  <2>3. ToolFits'
    <3>1. SUFFICES ASSUME c_open, ~c_excused PROVE \E f : Fits(f, ack_pending', c_lines', c_wire', params', asked')
      BY <1>1 DEF ToolFits
    <3>2. PICK f : Fits(f, ack_pending, c_lines, c_wire, params, asked)
      BY <3>1 DEF ToolInv, ToolFits
    <3>3. PICK g : Fits(g, ack_pending, Tail(c_lines), c_wire, params, asked)
      BY <1>0, <1>1, <1>3, <1>5, <3>2, FitsSkips
    <3>4. Fits(g, ack_pending', c_lines', c_wire', params', asked')
      BY <1>1, <2>1, <3>3
    <3> QED  BY <3>4
  <2>4. ToolQuiet' /\ Tool!LabelIsTrue'
    BY <1>1, <2>1 DEF ToolInv, ToolQuiet, Tool!LabelIsTrue
  <2> QED  BY <2>2, <2>3, <2>4 DEF ToolInv
<1>6. CASE s.text # "value"
  <2>1. PICK st \in {"ok", "err"} : Tool!Pop(st) /\ (st = "ok" => s.text = "OK") /\ UNCHANGED widgets
    BY <1>2, <1>6 DEF Tool!ParseLine
  <2>2. CASE ack_pending = <<>>
    <3>1. UNCHANGED <<ack_status, ack_pending>>
      BY <2>1, <2>2 DEF Tool!Pop
    <3>2. ToolShape' /\ ToolFlags'
      BY <1>0, <1>1, <1>3, <1>4, <2>1, <3>1 DEF ToolShape, ToolFlags
    <3>3. ToolQuiet' /\ Tool!LabelIsTrue'
      BY <1>1, <3>1 DEF ToolInv, ToolQuiet, Tool!LabelIsTrue
    <3>4. ToolFits'
      <4>1. SUFFICES ASSUME c_open, ~c_excused PROVE FALSE
        BY <1>1 DEF ToolFits
      <4>2. PICK f : Fits(f, ack_pending, c_lines, c_wire, params, asked)
        BY <4>1 DEF ToolInv, ToolFits
      <4> QED  BY <1>0, <1>1, <1>3, <1>6, <2>2, <4>2, FitsPops
    <3> QED  BY <3>2, <3>3, <3>4 DEF ToolInv
  <2>3. CASE ack_pending # <<>>
    <3>1. PICK k : k = Head(ack_pending)
      OBVIOUS
    <3>2. /\ k \in Tool!Key /\ ack_pending' = Tail(ack_pending) /\ ack_pending' \in Seq(Tool!Key)
          /\ ack_status' = [ack_status EXCEPT ![k] = st] /\ k = ack_pending[1] /\ 1 \in 1 .. Len(ack_pending)
          /\ Len(ack_pending) \in Nat /\ Len(ack_pending') = Len(ack_pending) - 1
          /\ \A i \in 1 .. Len(ack_pending') : ack_pending'[i] = ack_pending[i + 1]
      <4>1. ack_pending' = Tail(ack_pending) /\ ack_status' = [ack_status EXCEPT ![k] = st]
        BY <2>1, <2>3, <3>1 DEF Tool!Pop
      <4>2. PICK q \in Seq(Tool!Key) : q = ack_pending /\ q # <<>>
        BY <1>0, <2>3
      <4>3. /\ Head(q) \in Tool!Key /\ Head(q) = q[1] /\ Tail(q) \in Seq(Tool!Key)
            /\ Len(q) \in Nat /\ Len(q) > 0 /\ Len(Tail(q)) = Len(q) - 1
            /\ \A i \in 1 .. Len(Tail(q)) : Tail(q)[i] = q[i + 1]
            /\ 1 \in 1 .. Len(q)
        BY <4>2, TailFacts
      <4> QED  BY <3>1, <4>1, <4>2, <4>3
    <3>3. ack_status' \in [Tool!Key -> {"none", "pending", "ok", "err"}] /\ \A q \in Tool!Key : q # k => ack_status'[q] = ack_status[q]
      BY <1>0, <2>1, <3>2
    <3>4. ToolShape' /\ ToolFlags'
      BY <1>0, <1>1, <1>3, <1>4, <2>1, <3>2, <3>3 DEF ToolShape, ToolFlags
    <3>5. c_open
      BY <1>0, <2>3 DEF ToolInv, ToolQuiet, ToolFlags
    <3>6. ToolQuiet'
      BY <1>1, <3>5 DEF ToolQuiet
    <3>7. ASSUME ~c_excused
          PROVE  /\ \E f : Fits(f, ack_pending', c_lines', c_wire', params', asked')
                 /\ s.text = "OK" /\ (\A j \in 1 .. Len(ack_pending') : ack_pending'[j] # k) => params[k] = asked[k]
      <4>1. PICK f : Fits(f, ack_pending, c_lines, c_wire, params, asked)
        BY <3>5, <3>7 DEF ToolInv, ToolFits
      <4>2. /\ \E g : Fits(g, Tail(ack_pending), Tail(c_lines), c_wire, params, asked)
            /\ s.text = "OK" /\ (\A j \in 1 .. Len(Tail(ack_pending)) : Tail(ack_pending)[j] # Head(ack_pending))
                 => params[Head(ack_pending)] = asked[Head(ack_pending)]
        BY <1>0, <1>1, <1>3, <1>6, <4>1, FitsPops
      <4> QED  BY <1>1, <3>1, <3>2, <4>2
    <3>8. ToolFits'
      BY <1>1, <3>7 DEF ToolFits
    <3>9. Tool!LabelIsTrue'
      <4>1. SUFFICES ASSUME NEW q \in Tool!Key, ~c_excused, ack_status'[q] = "ok",
                            \A i \in 1 .. Len(ack_pending') : ack_pending'[i] # q
                     PROVE  params[q] = asked[q]
        BY <1>1 DEF Tool!LabelIsTrue
      <4>2. CASE q = k
        <5>1. st = "ok"
          BY <1>0, <3>2, <4>1, <4>2
        <5> QED  BY <2>1, <3>7, <4>1, <4>2, <5>1
      <4>3. CASE q # k
        <5>1. \A i \in 1 .. Len(ack_pending) : i = 1 \/ (i - 1 \in 1 .. Len(ack_pending') /\ i - 1 + 1 = i)
          BY <3>2
        <5>2. \A i \in 1 .. Len(ack_pending) : ack_pending[i] # q
          BY <3>2, <4>1, <4>3, <5>1
        <5> QED  BY <3>3, <4>1, <4>3, <5>2 DEF ToolInv, Tool!LabelIsTrue
      <4> QED  BY <4>2, <4>3
    <3> QED  BY <3>4, <3>6, <3>8, <3>9 DEF ToolInv
  <2> QED  BY <2>2, <2>3
<1> QED  BY <1>5, <1>6

\* The beacon, as this tool takes it to be.
LEMMA ToolExecutes ==
    ASSUME ToolInv, Tool!Executes
    PROVE  ToolInv'
<1>0. /\ ToolShape /\ ToolFlags /\ params \in Table
      /\ ack_pending \in Seq(Tool!Key) /\ c_wire \in Seq(ToolCmd) /\ c_lines \in Seq(ToolLine) /\ Len(c_lines) <= MaxLines
      /\ Len(c_wire) <= MaxLines
  BY DEF ToolInv, ToolShape
<1>1. /\ c_wire # <<>> /\ c_wire' = Tail(c_wire)
      /\ UNCHANGED <<c_open, widgets, ack_status, ack_pending, chains, c_sends, asked>>
  BY DEF Tool!Executes, Tool!tool
<1>2. PICK w : w = Head(c_wire)
  OBVIOUS
<1>3. /\ w \in ToolCmd /\ w = c_wire[1] /\ c_wire' \in Seq(ToolCmd)
      /\ Len(c_wire') = Len(c_wire) - 1 /\ Len(c_wire) \in Nat
  BY <1>0, <1>1, <1>2, TailFacts
<1>4. Len(c_wire') <= MaxLines
  BY <1>0, <1>3, QueueAssumption
<1>5. c_open
  BY <1>0, <1>1 DEF ToolInv, ToolQuiet, ToolFlags
<1>6. ToolQuiet'
  BY <1>1, <1>5 DEF ToolQuiet
<1>7. w.cmd = "set" => w.key \in Tool!Key /\ w.val \in Tool!Val
  BY <1>3, ToolFacts
<1>8. ASSUME NEW a \in ToolLine, Tool!Prints(a)
      PROVE  c_lines' = Append(c_lines, a) /\ c_lines' \in Seq(ToolLine) /\ Len(c_lines') <= MaxLines
  <2>1. c_lines' = Append(c_lines, a) /\ Len(c_lines) < MaxLines
    BY <1>8 DEF Tool!Prints
  <2>2. c_lines' \in Seq(ToolLine) /\ Len(c_lines') = Len(c_lines) + 1 /\ Len(c_lines) \in Nat
    BY <1>0, <2>1, AppendFacts
  <2>3. Len(c_lines') <= MaxLines
    BY <2>1, <2>2, QueueAssumption
  <2> QED  BY <2>1, <2>2, <2>3
<1>9. CASE c_excused' = TRUE
  <2>1. /\ c_lines' = c_lines \/ \E a \in ToolLine : Tool!Prints(a)
        /\ params' = params \/ (w.cmd = "set" /\ params' = [params EXCEPT ![w.key] = w.val])
    <3>1. \A text \in {"OK", "ERR"} : Tool!Answer(text) \in ToolLine
      BY DEF Tool!Answer, ToolLine
    <3>2. [text |-> "value", of |-> params] \in ToolLine
      BY <1>0 DEF ToolLine, Table
    <3> QED  BY <1>2, <3>1, <3>2 DEF Tool!Executes
  <2>2. c_lines' \in Seq(ToolLine) /\ Len(c_lines') <= MaxLines
    BY <1>0, <1>8, <2>1
  <2>3. params' \in Table
    BY <1>0, <1>7, <2>1 DEF Table
  <2>4. ToolShape' /\ ToolFlags'
    BY <1>0, <1>1, <1>3, <1>4, <1>9, <2>2, <2>3 DEF ToolShape, ToolFlags
  <2>5. ToolFits' /\ Tool!LabelIsTrue'
    BY <1>9 DEF ToolFits, Tool!LabelIsTrue
  <2> QED  BY <1>6, <2>4, <2>5 DEF ToolInv
<1>10. CASE c_excused' = c_excused /\ c_excused' # TRUE
  <2>1. ~c_excused /\ \E f : Fits(f, ack_pending, c_lines, c_wire, params, asked)
    BY <1>0, <1>5, <1>10 DEF ToolInv, ToolFits, ToolFlags
  <2>2. PICK f : Fits(f, ack_pending, c_lines, c_wire, params, asked)
    BY <2>1
  <2>3. CASE w.cmd = "other"
    <3>1. UNCHANGED <<c_lines, params>>
      BY <1>2, <1>10, <2>3 DEF Tool!Executes
    <3>2. \E g : Fits(g, ack_pending, c_lines, Tail(c_wire), params, asked)
      BY <1>0, <1>1, <1>3, <2>2, <2>3, FitsDrops
    <3>3. ToolFits'
      BY <1>1, <3>1, <3>2 DEF ToolFits
    <3>4. ToolShape' /\ ToolFlags'
      BY <1>0, <1>1, <1>3, <1>4, <1>10, <3>1 DEF ToolShape, ToolFlags
    <3>5. Tool!LabelIsTrue'
      BY <1>1, <1>10, <3>1 DEF ToolInv, Tool!LabelIsTrue
    <3> QED  BY <1>6, <3>3, <3>4, <3>5 DEF ToolInv
  <2>4. CASE w.cmd # "other"
    <3>1. PICK a \in ToolLine :
             /\ Tool!Prints(a)
             /\ \/ w.cmd = "set" /\ a.text = "OK" /\ params' = [params EXCEPT ![w.key] = w.val]
                \/ w.cmd = "set" /\ a.text = "ERR" /\ params' = params
                \/ w.cmd # "set" /\ a.text = "value" /\ params' = params
      <4>1. \A text \in {"OK", "ERR"} : Tool!Answer(text) \in ToolLine /\ Tool!Answer(text).text = text
        BY DEF Tool!Answer, ToolLine
      <4>2. /\ [text |-> "value", of |-> params] \in ToolLine
            /\ [text |-> "value", of |-> params].text = "value"
        BY <1>0 DEF ToolLine, Table
      <4>3. \/ w.cmd = "set" /\ params' = [params EXCEPT ![w.key] = w.val] /\ Tool!Prints(Tool!Answer("OK"))
            \/ w.cmd = "set" /\ params' = params /\ Tool!Prints(Tool!Answer("ERR"))
            \/ w.cmd = "get" /\ params' = params /\ Tool!Prints([text |-> "value", of |-> params])
        BY <1>2, <1>10, <2>4 DEF Tool!Executes
      <4>4. CASE w.cmd = "set" /\ params' = [params EXCEPT ![w.key] = w.val] /\ Tool!Prints(Tool!Answer("OK"))
        BY <4>1, <4>4
      <4>5. CASE w.cmd = "set" /\ params' = params /\ Tool!Prints(Tool!Answer("ERR"))
        BY <4>1, <4>5
      <4>6. CASE w.cmd = "get" /\ params' = params /\ Tool!Prints([text |-> "value", of |-> params])
        BY <4>2, <4>6
      <4> QED  BY <4>3, <4>4, <4>5, <4>6
    <3>2. c_lines' = Append(c_lines, a) /\ c_lines' \in Seq(ToolLine) /\ Len(c_lines') <= MaxLines
      BY <1>8, <3>1
    <3>3. PICK pars : pars = params'
      OBVIOUS
    <3>4. /\ Fits(f, ack_pending, Append(c_lines, a), Tail(c_wire), pars, asked)
          /\ w.cmd = "set" => \E i \in 1 .. Len(ack_pending) : ack_pending[i] = w.key
      BY <1>0, <1>1, <1>3, <2>2, <3>1, <3>3, FitsAnswers
    <3>5. Fits(f, ack_pending', c_lines', c_wire', params', asked')
      BY <1>1, <3>2, <3>3, <3>4
    <3>6. ToolFits'
      BY <3>5 DEF ToolFits
    <3>7. params' \in Table /\ \A k \in Tool!Key : params'[k] = params[k] \/ (w.cmd = "set" /\ k = w.key)
      BY <1>0, <1>7, <3>1 DEF Table
    <3>8. ToolShape' /\ ToolFlags'
      BY <1>0, <1>1, <1>3, <1>4, <1>10, <3>2, <3>7 DEF ToolShape, ToolFlags
    <3>9. Tool!LabelIsTrue'
      <4>1. SUFFICES ASSUME NEW q \in Tool!Key, ack_status[q] = "ok", \A i \in 1 .. Len(ack_pending) : ack_pending[i] # q
                     PROVE  params'[q] = asked[q]
        BY <1>1 DEF Tool!LabelIsTrue
      <4>2. params[q] = asked[q]
        BY <2>1, <4>1 DEF ToolInv, Tool!LabelIsTrue
      <4> QED  BY <3>4, <3>7, <4>1, <4>2
    <3> QED  BY <1>6, <3>6, <3>8, <3>9 DEF ToolInv
  <2> QED  BY <2>3, <2>4
<1>11. c_excused' = TRUE \/ c_excused' = c_excused
  BY DEF Tool!Executes
<1> QED  BY <1>9, <1>10, <1>11

LEMMA ToolStep ==
    ASSUME ToolInv, [Tool!Next]_(Tool!vars)
    PROVE  ToolInv'
<1>0. /\ ToolShape /\ ToolFlags /\ widgets \in Table /\ chains \in Seq(Seq(SetCmd) \ {<<>>})
      /\ ack_status \in [Tool!Key -> {"none", "pending", "ok", "err"}]
  BY DEF ToolInv, ToolShape
<1>1. CASE UNCHANGED Tool!vars
  <2>1. UNCHANGED <<c_open, widgets, ack_status, ack_pending, chains, c_wire, c_lines, params, c_sends, asked, c_excused>>
    BY <1>1 DEF Tool!vars, Tool!tool
  <2> QED  BY <2>1 DEF ToolInv, ToolShape, ToolFlags, ToolQuiet, ToolFits, Tool!LabelIsTrue
<1>2. CASE Tool!DoSetAll
  <2>1. PICK pairs : pairs = [i \in 1 .. Len(Keys) |-> Tool!Set(Keys[i], widgets[Keys[i]])]
    OBVIOUS
  <2>2. PICK labels : labels = [k \in Tool!Key |-> "none"]
    OBVIOUS
  <2>3. Len(Keys) \in Nat /\ Len(Keys) # 0
    BY ToolAssumption
  <2>4. \A i \in 1 .. Len(Keys) : Tool!Set(Keys[i], widgets[Keys[i]]) \in SetCmd
    <3>1. TAKE i \in 1 .. Len(Keys)
    <3>2. Keys[i] \in Tool!Key
      BY DEF Tool!Key
    <3>3. widgets[Keys[i]] \in Tool!Val
      BY <1>0, <3>2 DEF Table
    <3> QED  BY <3>2, <3>3 DEF Tool!Set, SetCmd
  <2>5. pairs \in Seq(SetCmd) \ {<<>>}
    <3>1. pairs \in Seq(SetCmd) /\ Len(pairs) = Len(Keys)
      BY <2>1, <2>3, <2>4
    <3>2. pairs = <<>> => Len(pairs) = 0
      BY ShortFacts
    <3> QED  BY <2>3, <3>1, <3>2
  <2>6. /\ labels \in [Tool!Key -> {"none", "pending", "ok", "err"}]
        /\ \A k \in Tool!Key : labels[k] \in {"none", ack_status[k]}
    BY <2>2
  <2>7. Tool!SendSet(pairs, chains, labels) /\ UNCHANGED <<c_open, widgets, c_lines, params>>
    BY <1>2, <2>1, <2>2 DEF Tool!DoSetAll
  <2> QED  BY <1>0, <2>5, <2>6, <2>7, ToolSends
<1>3. CASE Tool!SendNext
  <2>1. PICK i \in 1 .. Len(chains) : Tool!SendSet(chains[i], Tool!RemoveAt(chains, i), ack_status)
    BY <1>3 DEF Tool!SendNext
  <2>2. UNCHANGED <<c_open, widgets, c_lines, params>>
    BY <1>3 DEF Tool!SendNext
  <2>3. Tool!RemoveAt(chains, i) \in Seq(Seq(SetCmd) \ {<<>>})
    BY <1>0 DEF Tool!RemoveAt
  <2>4. PICK pairs \in Seq(SetCmd) \ {<<>>} : pairs = chains[i]
    BY <1>0, ElementFacts
  <2>5. PICK rest \in Seq(Seq(SetCmd) \ {<<>>}) : rest = Tool!RemoveAt(chains, i)
    BY <2>3
  <2>6. PICK labels : labels = ack_status
    OBVIOUS
  <2>7. /\ labels \in [Tool!Key -> {"none", "pending", "ok", "err"}]
        /\ \A k \in Tool!Key : labels[k] \in {"none", ack_status[k]}
    BY <1>0, <2>6
  <2>8. Tool!SendSet(pairs, rest, labels)
    BY <2>1, <2>4, <2>5, <2>6
  <2> QED  BY <2>2, <2>7, <2>8, ToolSends
<1>4. CASE Tool!DoGet \/ Tool!DoOther
  <2>1. PICK s \in ToolCmd : s.cmd # "set" /\ Tool!Send(s)
    BY <1>4, ToolFacts DEF Tool!DoGet, Tool!DoOther, Tool!Get, Tool!Other
  <2>2. c_open /\ UNCHANGED <<c_open, widgets, ack_status, ack_pending, chains, c_lines, params, asked, c_excused>>
    BY <1>4 DEF Tool!DoGet, Tool!DoOther, Tool!tool
  <2> QED  BY <2>1, <2>2, ToolAsks
<1>5. CASE Tool!Connect \/ Tool!Disconnect
  <2>1. /\ UNCHANGED <<widgets, chains, c_lines, params, c_sends, asked>>
        /\ ack_pending' = <<>> /\ ack_status' = [k \in Tool!Key |-> "none"]
        /\ c_open' \in BOOLEAN /\ (c_wire' = c_wire \/ c_wire' = <<>>)
    BY <1>5 DEF Tool!Connect, Tool!Disconnect, Tool!ClearAckState
  <2>2. c_excused' \in BOOLEAN
    BY <1>0, <1>5 DEF Tool!Connect, Tool!Disconnect, ToolFlags
  <2>3. ack_pending' \in Seq(Tool!Key) /\ c_wire' \in Seq(ToolCmd) /\ Len(c_wire') <= MaxLines
    <3>1. <<>> \in Seq(Tool!Key) /\ <<>> \in Seq(ToolCmd) /\ Len(<<>>) = 0
      BY ShortFacts
    <3>2. c_wire \in Seq(ToolCmd) /\ Len(c_wire) <= MaxLines
      BY <1>0 DEF ToolShape
    <3>3. 0 <= MaxLines
      BY QueueAssumption
    <3>4. CASE c_wire' = c_wire
      BY <2>1, <3>1, <3>2, <3>4
    <3>5. CASE c_wire' = <<>>
      BY <2>1, <3>1, <3>3, <3>5
    <3> QED  BY <2>1, <3>4, <3>5
  <2>4. ack_status' \in [Tool!Key -> {"none", "pending", "ok", "err"}] /\ \A k \in Tool!Key : ack_status'[k] = "none"
    BY <2>1
  <2>5. ToolShape' /\ ToolFlags'
    BY <1>0, <2>1, <2>2, <2>3, <2>4 DEF ToolShape, ToolFlags
  <2>6. Tool!LabelIsTrue'
    BY <2>4 DEF Tool!LabelIsTrue
  <2>7. CASE Tool!Disconnect
    <3>1. ~c_open' /\ c_wire' = <<>>
      BY <2>7 DEF Tool!Disconnect
    <3>2. ToolQuiet' /\ ToolFits'
      BY <2>1, <2>4, <3>1 DEF ToolQuiet, ToolFits
    <3> QED  BY <2>5, <2>6, <3>2 DEF ToolInv
  <2>8. CASE Tool!Connect
    <3>1. c_open' /\ ~c_open /\ c_wire' = c_wire /\ (c_lines # <<>> => c_excused')
      BY <2>8 DEF Tool!Connect
    <3>2. c_wire = <<>>
      BY <3>1 DEF ToolInv, ToolQuiet
    <3>3. ASSUME ~c_excused' PROVE \E f : Fits(f, ack_pending', c_lines', c_wire', params', asked')
      <4>1. c_lines' = <<>> /\ c_wire' = <<>> /\ ack_pending' = <<>>
        BY <2>1, <3>1, <3>2, <3>3
      <4>2. PICK par, ask : par = params' /\ ask = asked'
        OBVIOUS
      <4>3. \E f : Fits(f, <<>>, <<>>, <<>>, par, ask)
        BY FitsNothing
      <4> QED  BY <4>1, <4>2, <4>3
    <3>4. ToolQuiet' /\ ToolFits'
      BY <3>1, <3>3 DEF ToolQuiet, ToolFits
    <3> QED  BY <2>5, <2>6, <3>4 DEF ToolInv
  <2> QED  BY <1>5, <2>7, <2>8
<1>6. ASSUME NEW k \in Tool!Key, NEW v \in Tool!Val, Tool!Edit(k, v) PROVE ToolInv'
  <2>1. /\ widgets' = [widgets EXCEPT ![k] = v]
        /\ UNCHANGED <<c_open, ack_status, ack_pending, chains, c_wire, c_lines, params, c_sends, asked, c_excused>>
    BY <1>6 DEF Tool!Edit
  <2>2. widgets' \in Table
    BY <1>0, <2>1 DEF Table
  <2>3. ToolShape' /\ ToolFlags'
    BY <1>0, <2>1, <2>2 DEF ToolShape, ToolFlags
  <2> QED  BY <2>1, <2>3 DEF ToolInv, ToolQuiet, ToolFits, Tool!LabelIsTrue
<1> QED  BY <1>1, <1>2, <1>3, <1>4, <1>5, <1>6, ToolParses, ToolExecutes DEF Tool!Next

LEMMA ToolStart ==
    ASSUME Tool!Init
    PROVE  ToolInv
<1>1. 0 \in Tool!Val /\ MaxSends \in Nat /\ MaxLines \in Nat
  BY QueueAssumption DEF Tool!Val
<1>2. widgets \in Table /\ params \in Table /\ asked \in Table /\ ack_status \in [Tool!Key -> {"none", "pending", "ok", "err"}]
  BY <1>1 DEF Tool!Init, Table
<1>3. /\ ack_pending = <<>> /\ chains = <<>> /\ c_wire = <<>> /\ c_lines = <<>>
      /\ c_sends = 0 /\ c_open = FALSE /\ c_excused = FALSE
      /\ \A k \in Tool!Key : ack_status[k] = "none"
  BY DEF Tool!Init
<1>4. /\ <<>> \in Seq(Tool!Key) /\ <<>> \in Seq(Seq(SetCmd) \ {<<>>}) /\ <<>> \in Seq(ToolCmd) /\ <<>> \in Seq(ToolLine)
      /\ Len(<<>>) = 0
  BY ShortFacts
<1>5. 0 <= MaxLines /\ 0 \in 0 .. MaxSends
  BY <1>1
<1>6. ToolShape
  BY <1>2, <1>3, <1>4, <1>5 DEF ToolShape
<1>7. ToolFlags /\ ToolQuiet /\ ToolFits /\ Tool!LabelIsTrue
  BY <1>3 DEF ToolFlags, ToolQuiet, ToolFits, Tool!LabelIsTrue
<1> QED  BY <1>6, <1>7 DEF ToolInv

LEMMA ToolKeeps ==
    Tool!Spec => [](Tool!TypeOK /\ Tool!LabelIsTrue)
<1>1. Tool!Init => ToolInv
  BY ToolStart
<1>2. ToolInv /\ [Tool!Next]_(Tool!vars) => ToolInv'
  BY ToolStep
<1>3. ToolInv => Tool!TypeOK /\ Tool!LabelIsTrue
  BY DEF ToolInv, ToolShape, ToolFlags, Table, Tool!TypeOK
<1> QED  BY <1>1, <1>2, <1>3, PTL DEF Tool!Spec
-----------------------------------------------------------------------------
(* The composition: whatever part runs, each part goes its own way. *)

LEMMA PortRuns == AnySpec => Port!Spec
<1>1. AnyInit => Port!Init
  BY DEF AnyInit
<1>2. [AnyNext]_<<part, vars, download, cmdqueue, explorer, tool, serial>> => [Port!Next]_(Port!vars)
  BY DEF AnyNext, serial, Port!vars, Port!transport, Port!history
<1> QED  BY <1>1, <1>2, PTL DEF AnySpec, Port!Spec

\* A request over the serial port ends as the beacon answered it, for any number of workers
\* and requests: UartTransport._request and _on_line.
THEOREM PortAnswers == AnySpec => []EndsAsAnswered
<1>1. Port!EndsAsAnswered => EndsAsAnswered
  BY DEF EndsAsAnswered
<1> QED  BY <1>1, PortRuns, PortKeeps, PTL

\* "Calling read_info() from the main thread would block Qt's event loop": with any
\* number of workers and requests, what the main thread asks for in _on_tag_set and
\* _on_uptime_reset ends without an answer.
THEOREM NothingForMain == AnySpec => []MainReadsNothing
<1>1. Port!MainReadsNothing => MainReadsNothing
  BY DEF MainReadsNothing
<1> QED  BY <1>1, PortRuns, PortKeeps, PTL

LEMMA DownRuns == AnySpec => Download!Spec
<1>1. AnyInit => Download!Init
  BY DEF AnyInit
<1>2. [AnyNext]_<<part, vars, download, cmdqueue, explorer, tool, serial>>
        => [Download!Next]_(Download!vars)
  BY DEF AnyNext, download, Download!vars, Download!dl, Download!log
<1> QED  BY <1>1, <1>2, PTL DEF AnySpec, Download!Spec

\* A download or an erasing always turns the polling on again, however many chains run:
\* _dl_finish, _on_dl_batch and _erase_log.
THEOREM PausesEnd == AnySpec => []PausedForAReason
<1>1. Download!PausedForAReason => PausedForAReason
  BY DEF PausedForAReason
<1> QED  BY <1>1, DownRuns, DownKeeps, PTL

\* A download shows each record once and in order, and skips none that is still there,
\* for any log, batch and retries: _on_dl_batch, _dl_batch and _merge_by_ts, as long as
\* only one chain runs at a time.
THEOREM DownloadIsExact == AnySpec => []DownloadExact
<1>1. Download!DownloadExact => DownloadExact
  BY DEF DownloadExact
<1> QED  BY <1>1, DownRuns, DownKeeps, PTL

LEMMA QueueRunsAlone == AnySpec => Queue!Spec
<1>1. AnyInit => Queue!Init
  BY DEF AnyInit
<1>2. [AnyNext]_<<part, vars, download, cmdqueue, explorer, tool, serial>> => [Queue!Next]_(Queue!vars)
  BY DEF AnyNext, cmdqueue, Queue!vars, Queue!cmdq, Queue!beacon
<1> QED  BY <1>1, <1>2, PTL DEF AnySpec, Queue!Spec

\* The command queue reports a command as "RAM" or "flash" only when it was executed or
\* saved, for any number of commands and lines, if no other line could have its tag: no
\* command of this tag, nor a line, was under way when it was sent or sent before its
\* answer, and the beacon prints the tag for a command only ("sched" and "" are not such
\* tags, and late acknowledgements of an earlier command of the same tag are left out):
\* CmdQueue.on_line and _on_timeout.
THEOREM ReportsAreTrue == AnySpec => []ReportIsTrue
<1>1. Queue!ReportIsTrue => ReportIsTrue
  BY DEF ReportIsTrue
<1> QED  BY <1>1, QueueRunsAlone, QueueKeeps, PTL

LEMMA ExplorerRuns == AnySpec => Explorer!Spec
<1>1. AnyInit => Explorer!Init
  BY DEF AnyInit
<1>2. [AnyNext]_<<part, vars, download, cmdqueue, explorer, tool, serial>> => [Explorer!Next]_(Explorer!vars)
  BY DEF AnyNext, explorer, Explorer!vars, Explorer!link, Explorer!cmd, Explorer!map
<1> QED  BY <1>1, <1>2, PTL DEF AnySpec, Explorer!Spec

\* A page that the flash explorer shows has the rows that are in flash, in order, and one
\* that it marks as erased is blank, for any pages and rows, unless another command or its
\* lines were under way when the page was read or changed, or a later change of it is
\* pending, failed or not confirmed: FlashExplorer._parse_response and _poll.
THEOREM PagesAreShown == AnySpec => []PageIsShown
<1>1. Explorer!PageIsShown => PageIsShown
  BY DEF PageIsShown
<1> QED  BY <1>1, ExplorerRuns, ExplorerKeeps, PTL

LEMMA ToolRuns == AnySpec => Tool!Spec
<1>1. AnyInit => Tool!Init
  BY DEF AnyInit
<1>2. [AnyNext]_<<part, vars, download, cmdqueue, explorer, tool, serial>> => [Tool!Next]_(Tool!vars)
  BY DEF AnyNext, tool, Tool!vars, Tool!tool
<1> QED  BY <1>1, <1>2, PTL DEF AnySpec, Tool!Spec

\* A parameter that the first tool marks as set has the value that was sent last, for any
\* parameters, as long as each SET is answered and nothing else is: BeaconConfigTool._parse_line
\* and _update_ack_label, whose answers carry no key.
THEOREM LabelsAreTrue == AnySpec => []LabelIsTrue
<1>1. Tool!LabelIsTrue => LabelIsTrue
  BY DEF LabelIsTrue
<1> QED  BY <1>1, ToolRuns, ToolKeeps, PTL

LEMMA EditorRuns == AnySpec => Spec
<1>1. AnyInit => Init
  BY DEF AnyInit
<1>2. [AnyNext]_<<part, vars, download, cmdqueue, explorer, tool, serial>> => [Next]_vars
  BY DEF AnyNext
<1> QED  BY <1>1, <1>2, PTL DEF AnySpec, Spec

PartOK == part \in {"editor", "download", "queue", "explorer", "tool", "port"}

\* The state of the part that runs is of its types, whichever part it is.
THEOREM TypesCorrect == AnySpec => []TypesOK
<1>1. AnyInit => PartOK
  BY DEF AnyInit, PartOK
<1>2. PartOK /\ [AnyNext]_<<part, vars, download, cmdqueue, explorer, tool, serial>> => PartOK'
  BY DEF AnyNext, PartOK
<1>3. AnySpec => []Download!TypeOK /\ []Queue!TypeOK
  BY DownRuns, DownKeeps, QueueRunsAlone, QueueKeeps, PTL
<1>4. AnySpec => []Explorer!TypeOK /\ []Tool!TypeOK
  BY ExplorerRuns, ExplorerKeeps, ToolRuns, ToolKeeps, PTL
<1>5. AnySpec => []TypeOK /\ []Port!TypeOK
  BY EditorRuns, TypeCorrect, PortRuns, PortKeeps, PTL
<1>6. /\ PartOK
      /\ TypeOK /\ Download!TypeOK /\ Queue!TypeOK /\ Explorer!TypeOK /\ Tool!TypeOK /\ Port!TypeOK
      => TypesOK
  BY DEF TypesOK, PartOK
<1> QED  BY <1>1, <1>2, <1>3, <1>4, <1>5, <1>6, PTL DEF AnySpec
=============================================================================

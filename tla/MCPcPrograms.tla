---------------------------- MODULE MCPcPrograms ----------------------------
\* The parts of the PC programs that share nothing are checked together: a behaviour
\* runs one of them, the others stay as they are.
EXTENDS PcEditor, Sequences, FiniteSets
LOCAL INSTANCE TLC

CONSTANTS Capacity, Page, Batch, MaxRetries, Chains, MaxSerial, MaxStarts,  \* PcDownload
          MaxSends, MaxLines,                                            \* CmdQueue
          Pages, Rows, MaxReads, MaxWire, MaxTimers,                     \* FlashExplorer
          Keys,                                                          \* ConfigTool
          Main, MaxRequests                                              \* PcSerial

ASSUME DownloadAssumption ==
    /\ Capacity \in Nat /\ Page \in 1..Capacity /\ Batch \in Nat \ {0}
    /\ MaxRetries \in Nat \ {0} /\ MaxSerial \in Nat \ {0} /\ MaxStarts \in Nat
ASSUME QueueAssumption == MaxSends \in Nat /\ MaxLines \in Nat
ASSUME ExplorerAssumption ==
    /\ Pages \subseteq Nat /\ IsFiniteSet(Pages) /\ Rows \in Nat \ {0}
    /\ MaxReads \in Nat /\ MaxWire \in Nat /\ MaxTimers \in Nat
ASSUME ToolAssumption == Keys # <<>> /\ Keys \in Seq({Keys[i] : i \in 1..Len(Keys)})
ASSUME PortAssumption == MaxRequests \in Nat /\ Main \notin Workers

VARIABLES
    part,
    d_connected, polling, stat, total, offset, retries, records, rows, chain, erasing,
    circular, first, last, doomed, starts, single, from,
    open, queue, current, results, ramIdx, q_timer, onDone, polls, wire, lines, executed,
    saved, q_pending, sends,
    worker, port, gone, f_pending, f_timer, stray, shots, range_queue, page_words,
    page_status, f_sends, f_wire, f_lines, f_flash, unsure,
    c_open, widgets, ack_status, ack_pending, chains, c_wire, c_lines, params, c_sends,
    asked, c_excused,
    ser, req_id, tagged, mailbox, call, info, s_wire, s_lines, s_executed, lost, blind

Download == INSTANCE PcDownload WITH connected <- d_connected
Queue    == INSTANCE CmdQueue WITH timer <- q_timer, pending <- q_pending
Explorer == INSTANCE FlashExplorer WITH
              pending <- f_pending, timer <- f_timer, sends <- f_sends, wire <- f_wire,
              lines <- f_lines, flash <- f_flash, MaxSends <- MaxReads
Tool     == INSTANCE ConfigTool WITH
              open <- c_open, wire <- c_wire, lines <- c_lines, sends <- c_sends,
              excused <- c_excused
Port     == INSTANCE PcSerial WITH
              wire <- s_wire, lines <- s_lines, executed <- s_executed

TwoKeys  == <<"ch", "pwr">>
Symmetry == Permutations(Workers)     \* worker threads are told apart by nothing
-----------------------------------------------------------------------------
AnyInit ==
    /\ part \in {"editor", "download", "queue", "explorer", "tool", "port"}
    /\ Init /\ Download!Init /\ Queue!Init /\ Explorer!Init /\ Tool!Init
    /\ Port!Init
    /\ IF part = "editor" THEN accel.on /\ ram.iv = 1
       ELSE ram = [mask |-> 0, iv |-> 0] /\ accel = [on |-> FALSE, iv |-> FirstIv]
    /\ part = "download" \/ ~circular

download == <<d_connected, polling, stat, total, offset, retries, records, rows, chain,
              erasing, circular, first, last, doomed, starts, single, from>>
cmdqueue == <<open, queue, current, results, ramIdx, q_timer, onDone, polls, wire, lines,
              executed, saved, q_pending, sends>>
explorer == <<worker, port, gone, f_pending, f_timer, stray, shots, range_queue, page_words,
              page_status, f_sends, f_wire, f_lines, f_flash, unsure>>
tool     == <<c_open, widgets, ack_status, ack_pending, chains, c_wire, c_lines, params,
              c_sends, asked, c_excused>>
serial   == <<ser, req_id, tagged, mailbox, call, info, s_wire, s_lines, s_executed, lost,
              blind>>

AnyNext ==
    \/ /\ part = "editor" /\ Next
       /\ UNCHANGED <<part, download, cmdqueue, explorer, tool, serial>>
    \/ /\ part = "download" /\ Download!Next
       /\ UNCHANGED <<part, vars, cmdqueue, explorer, tool, serial>>
    \/ /\ part = "queue" /\ Queue!Next
       /\ UNCHANGED <<part, vars, download, explorer, tool, serial>>
    \/ /\ part = "explorer" /\ Explorer!Next
       /\ UNCHANGED <<part, vars, download, cmdqueue, tool, serial>>
    \/ /\ part = "tool" /\ Tool!Next
       /\ UNCHANGED <<part, vars, download, cmdqueue, explorer, serial>>
    \/ /\ part = "port" /\ Port!Next
       /\ UNCHANGED <<part, vars, download, cmdqueue, explorer, tool>>

AnySpec == AnyInit /\ [][AnyNext]_<<part, vars, download, cmdqueue, explorer, tool,
                               serial>>
-----------------------------------------------------------------------------
\* The part that runs and its state: the others' variables are as they were.  What the
\* explorer shows of an unsure page no action reads, nor a property but the types, before
\* it is replaced.
ShownOf(p) == IF p \in unsure THEN <<>> ELSE <<page_words[p], page_status[p]>>
Seen ==
    CASE part = "editor"   -> <<part, vars>>
      [] part = "download" -> <<part, download>>
      [] part = "queue"    -> <<part, cmdqueue>>
      [] part = "explorer" ->
             <<part, worker, port, gone, f_pending, f_timer, stray, shots, range_queue,
               [p \in Pages |-> ShownOf(p)], f_sends, f_wire, f_lines, f_flash, unsure>>
      [] part = "tool"     -> <<part, tool>>
      [] part = "port"     -> <<part, serial>>

\* The types of the part that runs; those of the others never change.
TypesOK ==
    CASE part = "editor"   -> TypeOK
      [] part = "download" -> Download!TypeOK
      [] part = "queue"    -> Queue!TypeOK
      [] part = "explorer" -> Explorer!TypeOK
      [] part = "tool"     -> Tool!TypeOK
      [] part = "port"     -> Port!TypeOK

\* The properties of PcEditor are taken as they are; those of the other parts:

\* A download shows each record once and in order, and skips none that is still there.
DownloadExact == part = "download" => Download!DownloadExact

\* Polling is off in a session only during a download or an erasing that ends.
PausedForAReason == part = "download" => Download!PausedForAReason

\* A command reported as taken was executed, one reported as saved was saved.
ReportIsTrue == part = "queue" => Queue!ReportIsTrue

\* A page shows its own rows as they are in flash, and is marked as erased when it is.
PageIsShown == part = "explorer" => Explorer!PageIsShown

\* A parameter marked as set has the value that was sent.
LabelIsTrue == part = "tool" => Tool!LabelIsTrue

\* A request over the serial port ends as the beacon answered it, unless the main thread
\* waited for an answer meanwhile.
EndsAsAnswered == part = "port" => Port!EndsAsAnswered

\* What the main thread asks for over the serial port is never read.
MainReadsNothing == part = "port" => Port!MainReadsNothing
=============================================================================

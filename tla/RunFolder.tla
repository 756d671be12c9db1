------------------------------- MODULE RunFolder -------------------------------
(***************************************************************************)
(* The folder of a run: processes with the same run id, protocol,          *)
(* serializer and compression write to the same one (run_folder_name), a   *)
(* sender beside its receiver on one machine, a run again after one that   *)
(* was killed, or by mistake beside it.  DataManager writes config.json    *)
(* and summary.json, CsvPacketWriter packets.csv; the analyzer reads.      *)
(*                                                                         *)
(* A file is the sequence of its blocks, each with the process that wrote  *)
(* it.  Every process has an offset of its own in a file it opened: what   *)
(* it writes over does not change what is behind.                          *)
(***************************************************************************)
EXTENDS Integers, Sequences

CONSTANTS
  Receivers, Senders,
  Blocks,        \* the length of config.json as each process writes it
  SummaryBlocks, \* and of summary.json, whose numbers have any number of digits
  MaxRows,       \* bound: rows of packets.csv, the header being one, per process
  NoFile, Hole

Processes == Receivers \cup Senders

ASSUME FolderAssumption ==
  /\ Blocks \in [Processes -> Nat \ {0}]
  /\ SummaryBlocks \in [Receivers -> Nat \ {0}]
  /\ MaxRows \in Nat
  /\ NoFile \notin Seq(Processes \cup {Hole})
  /\ Hole \notin Processes

VARIABLES
  pc,            \* where main is
  config, packets, summary,   \* the files
  made,          \* rows write_row was called for, the header included
  written,       \* of these, how many are out of the buffer
  latest,        \* history: the receiver that opened packets.csv last
  alone,         \* history: no other had it open then
  torn           \* history: config.json or summary.json was opened by two at
                 \* once, or one was killed between opening it and writing it

files == <<config, packets, summary>>
history == <<latest, alone, torn>>
folderVars == <<pc, files, made, written, history>>

FolderInit ==
  /\ pc = [p \in Processes |-> "new"]
  /\ config = NoFile /\ packets = NoFile /\ summary = NoFile
  /\ made = [r \in Receivers |-> 0]
  /\ written = [r \in Receivers |-> 0]
  /\ latest = NoFile /\ alone = FALSE /\ torn = FALSE

Goto(p, from, to) == pc[p] = from /\ pc' = [pc EXCEPT ![p] = to]

(* A file after p wrote blocks first to last of its own.                   *)
Write(file, p, first, last) ==
  [i \in 1 .. IF Len(file) > last THEN Len(file) ELSE last |->
     IF i \in first .. last THEN p ELSE IF i <= Len(file) THEN file[i] ELSE Hole]

-----------------------------------------------------------------------------
(* DataManager::init                                                       *)

OpenConfig(p) ==
  /\ Goto(p, "new", "config")
  /\ config' = <<>>
  /\ torn' = (torn \/ \E q \in Processes : pc[q] = "config")
  /\ UNCHANGED <<packets, summary, made, written, latest, alone>>

WriteConfig(p) ==
  /\ Goto(p, "config", IF p \in Receivers THEN "writer" ELSE "done")
  /\ config' = Write(config, p, 1, Blocks[p])
  /\ UNCHANGED <<packets, summary, made, written, history>>

-----------------------------------------------------------------------------
(* The receiver                                                            *)

(* From start() until the threads are joined at the end of main.           *)
MayWriteRows(r) == pc[r] \in {"running", "save", "summary", "exit"}

HasPackets(r) == pc[r] = "bind" \/ MayWriteRows(r)

Opened(r) ==
  /\ Goto(r, "writer", "bind")
  /\ made' = [made EXCEPT ![r] = 1]
  /\ latest' = r
  /\ alone' = \A q \in Receivers : ~HasPackets(q)
  /\ UNCHANGED <<config, summary, written, torn>>

(* Mutant: packets.csv is opened without ios::trunc.                       *)
OpenPacketsKeeping(r) ==
  Opened(r) /\ packets' = IF packets = NoFile THEN <<>> ELSE packets

(* CsvPacketWriter comes before bind: a receiver that cannot have the port *)
(* has emptied the file of the one that has it.                            *)
OpenPackets(r) == Opened(r) /\ packets' = <<>>

(* Whether another receiver is in the way depends on the transport.        *)
Bind(r) ==
  /\ Goto(r, "bind", "running") \/ Goto(r, "bind", "dead")
  /\ UNCHANGED <<files, made, written, history>>

AddRow(r) ==
  /\ MayWriteRows(r) /\ made[r] < MaxRows
  /\ made' = [made EXCEPT ![r] = @ + 1]
  /\ UNCHANGED <<pc, files, written, history>>

Out(r, n) ==
  /\ packets' = Write(packets, r, written[r] + 1, n)
  /\ written' = [written EXCEPT ![r] = n]
  /\ UNCHANGED <<config, summary, made, history>>

(* The buffer of the stream is full.                                       *)
Spill(r) ==
  /\ MayWriteRows(r)
  /\ \E n \in written[r] + 1 .. made[r] : Out(r, n)
  /\ UNCHANGED pc

(* The receiver has stopped: csv_writer.flush().  Its processing thread    *)
(* has not, and rows may follow.                                           *)
Flush(r) == Goto(r, "running", "save") /\ Out(r, made[r])

(* save_result                                                             *)
(* Mutant: what summary.json had is written over.                          *)
OpenSummaryKeeping(r) ==
  /\ Goto(r, "save", "summary")
  /\ summary' = IF summary = NoFile THEN <<>> ELSE summary
  /\ torn' = (torn \/ \E q \in Receivers : pc[q] = "summary")
  /\ UNCHANGED <<config, packets, made, written, latest, alone>>

OpenSummary(r) ==
  /\ Goto(r, "save", "summary")
  /\ summary' = <<>>
  /\ torn' = (torn \/ \E q \in Receivers : pc[q] = "summary")
  /\ UNCHANGED <<config, packets, made, written, latest, alone>>

WriteSummary(r) ==
  /\ Goto(r, "summary", "exit")
  /\ summary' = Write(summary, r, 1, SummaryBlocks[r])
  /\ UNCHANGED <<config, packets, made, written, history>>

(* The locals of main go: the processing thread is joined before           *)
(* ~CsvPacketWriter flushes what it wrote last.                            *)
Exit(r) == Goto(r, "exit", "done") /\ Out(r, made[r])

Kill(p) ==
  /\ pc[p] \notin {"new", "done", "dead"}
  /\ pc' = [pc EXCEPT ![p] = "dead"]
  /\ torn' = (torn \/ pc[p] \in {"config", "summary"})
  /\ UNCHANGED <<files, made, written, latest, alone>>

FolderNext ==
  \/ \E p \in Processes : OpenConfig(p) \/ WriteConfig(p) \/ Kill(p)
  \/ \E r \in Receivers :
       \/ OpenPackets(r)
       \/ Bind(r)
       \/ AddRow(r)
       \/ Spill(r)
       \/ Flush(r)
       \/ OpenSummary(r)
       \/ WriteSummary(r)
       \/ Exit(r)

FolderSpec == FolderInit /\ [][FolderNext]_folderVars

-----------------------------------------------------------------------------
(* What the analyzer makes of the folder (results.py)                      *)

IsConfigOf(p) == config = [i \in 1 .. Blocks[p] |-> p]
IsSummaryOf(r) == summary = [i \in 1 .. SummaryBlocks[r] |-> r]

(* A file that is not JSON ends the scan of all runs.                      *)
Scan ==
  IF config = NoFile THEN "skipped"
  ELSE IF \A p \in Processes : ~IsConfigOf(p) THEN "aborted"
  ELSE IF summary # NoFile /\ \A r \in Receivers : ~IsSummaryOf(r) THEN "aborted"
  ELSE IF summary # NoFile /\ packets # NoFile THEN "complete" ELSE "incomplete"

-----------------------------------------------------------------------------
FolderTypeOK ==
  /\ pc \in [Processes -> {"new", "config", "writer", "bind", "running", "save", "summary",
                           "exit", "done", "dead"}]
  /\ config \in Seq(Processes) \cup {NoFile}
  /\ packets \in Seq(Receivers \cup {Hole}) \cup {NoFile}
  /\ summary \in Seq(Receivers) \cup {NoFile}
  /\ made \in [Receivers -> Nat] /\ written \in [Receivers -> Nat]
  /\ latest \in Receivers \cup {NoFile} /\ alone \in BOOLEAN /\ torn \in BOOLEAN

(* A receiver that ended as it should leaves its own packets.csv, whole,   *)
(* and its own summary.json, whatever an earlier one left there when it    *)
(* was killed, if no other was writing when it came and none came later:   *)
(* the truncation at the start is all that keeps two runs apart.           *)
FinishedRunIsWhole ==
  \A r \in Receivers :
    r = latest /\ alone /\ pc[r] = "done" =>
      packets = [i \in 1 .. made[r] |-> r] /\ IsSummaryOf(r)

(* The analyzer gives up on all runs only for a folder in which a process  *)
(* is, or was killed, between opening a file and writing it, or in which   *)
(* two had config.json, or two receivers summary.json, open at once: the   *)
(* end of a longer text may be left behind a shorter one.  Processes that  *)
(* come one after the other leave a configuration and a summary of one.    *)
ScanSucceeds ==
  ~torn /\ (\A p \in Processes : pc[p] \notin {"config", "summary"}) => Scan # "aborted"
===============================================================================

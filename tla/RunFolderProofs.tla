---------------------------- MODULE RunFolderProofs ----------------------------
(***************************************************************************)
(* The folder of a run for any number of senders and receivers, however    *)
(* long their files are and wherever they are killed: what the files hold  *)
(* follows from who opened them last and whether anyone else had them open.*)
(* And config.json itself, which makes the configuration it records again. *)
(***************************************************************************)
EXTENDS RunFolder, PureFunctions, SequenceTheorems, TLAPS

Rows(r, n) == [i \in 1 .. n |-> r]

(* A file stays once a process has opened it.                              *)
FilesThere ==
  /\ \A p \in Processes : pc[p] # "new" => config # NoFile
  /\ \A r \in Receivers : HasPackets(r) => packets # NoFile
  /\ \A r \in Receivers : pc[r] = "summary" => summary # NoFile

(* While nothing is torn one process at most is at config.json, which is   *)
(* empty then and somebody's whole configuration otherwise.                *)
ConfigWhole ==
  ~torn =>
    /\ \A p, q \in Processes : pc[p] = "config" /\ pc[q] = "config" => p = q
    /\ (\E p \in Processes : pc[p] = "config") => config = <<>>
    /\ (\A p \in Processes : pc[p] # "config") =>
         config = NoFile \/ \E p \in Processes : IsConfigOf(p)

(* And so for the receivers and summary.json.                              *)
SummaryWhole ==
  ~torn =>
    /\ \A r, q \in Receivers : pc[r] = "summary" /\ pc[q] = "summary" => r = q
    /\ (\E r \in Receivers : pc[r] = "summary") => summary = <<>>
    /\ (\A r \in Receivers : pc[r] # "summary") =>
         summary = NoFile \/ \E r \in Receivers : IsSummaryOf(r)

(* What a receiver has written and what is still in its buffer.            *)
RowsCounted ==
  \A r \in Receivers :
    /\ written[r] <= made[r]
    /\ pc[r] \in {"new", "config", "writer"} => written[r] = 0
    /\ pc[r] = "done" => written[r] = made[r]

(* The receiver that opened packets.csv last, when it was alone, still is, *)
(* and the file has its rows and no others.                                *)
LatestIsAlone ==
  latest \in Receivers /\ alone =>
    /\ \A q \in Receivers : q # latest => ~HasPackets(q)
    /\ HasPackets(latest) \/ pc[latest] = "done" =>
         packets = Rows(latest, written[latest])
    /\ pc[latest] = "summary" => summary = <<>>
    /\ pc[latest] \in {"exit", "done"} => IsSummaryOf(latest)

FolderInv ==
  FolderTypeOK /\ FilesThere /\ ConfigWhole /\ SummaryWhole /\ RowsCounted /\ LatestIsAlone

-----------------------------------------------------------------------------
(* Write                                                                   *)

(* What is written over a file is a file again, without holes when it      *)
(* begins at the first block.                                              *)
LEMMA WriteIsFile ==
  ASSUME NEW S, NEW file \in Seq(S), NEW p \in S, NEW first \in Nat, NEW last \in Nat
  PROVE  /\ Hole \in S => Write(file, p, first, last) \in Seq(S)
         /\ first = 1 => Write(file, p, first, last) \in Seq(S)
<1> DEFINE n == IF Len(file) > last THEN Len(file) ELSE last
<1>1. Len(file) \in Nat /\ n \in Nat
  OBVIOUS
<1>2. \A i \in 1 .. Len(file) : file[i] \in S
  OBVIOUS
<1>3. Write(file, p, first, last) =
        [i \in 1 .. n |->
           IF i \in first .. last THEN p ELSE IF i <= Len(file) THEN file[i] ELSE Hole]
  BY DEF Write
<1>4. ASSUME Hole \in S \/ first = 1, NEW i \in 1 .. n
      PROVE  (IF i \in first .. last THEN p ELSE IF i <= Len(file) THEN file[i] ELSE Hole) \in S
  BY <1>1, <1>2, <1>4
<1> HIDE DEF n
<1>5. ASSUME Hole \in S \/ first = 1 PROVE Write(file, p, first, last) \in Seq(S)
  <2>1. Write(file, p, first, last) \in [1 .. n -> S]
    BY <1>3, <1>4, <1>5
  <2> QED
    BY <2>1, <1>1, SeqDef
<1> QED
  BY <1>5

LEMMA RowsLen ==
  ASSUME NEW r, NEW n \in Nat
  PROVE  Rows(r, n) \in Seq({r}) /\ Len(Rows(r, n)) = n
BY DEF Rows

(* Rows appended to one's own rows.                                        *)
LEMMA WriteOwnRows ==
  ASSUME NEW r, NEW k \in Nat, NEW n \in Nat, k <= n
  PROVE  Write(Rows(r, k), r, k + 1, n) = Rows(r, n)
<1>1. Len(Rows(r, k)) = k
  BY RowsLen
<1>2. \A i \in 1 .. n : i \notin k + 1 .. n => i \in 1 .. k
  OBVIOUS
<1>3. \A i \in 1 .. k : Rows(r, k)[i] = r
  BY DEF Rows
<1>4. (IF Len(Rows(r, k)) > n THEN Len(Rows(r, k)) ELSE n) = n
  BY <1>1
<1>5. Write(Rows(r, k), r, k + 1, n) =
        [i \in 1 .. n |->
           IF i \in k + 1 .. n THEN r ELSE IF i <= Len(Rows(r, k)) THEN Rows(r, k)[i] ELSE Hole]
  BY <1>4 DEF Write
<1>6. \A i \in 1 .. n :
        (IF i \in k + 1 .. n THEN r ELSE IF i <= Len(Rows(r, k)) THEN Rows(r, k)[i] ELSE Hole) = r
  BY <1>1, <1>2, <1>3
<1> QED
  BY <1>5, <1>6 DEF Rows

LEMMA WriteWhole ==
  ASSUME NEW p, NEW n \in Nat
  PROVE  Write(<<>>, p, 1, n) = Rows(p, n)
<1>1. Rows(p, 0) = <<>>
  BY DEF Rows
<1> QED
  BY <1>1, WriteOwnRows

LEMMA EmptyIsThere == <<>> # NoFile
<1>1. <<>> \in Seq(Processes \cup {Hole})
  OBVIOUS
<1> QED
  BY <1>1, FolderAssumption

-----------------------------------------------------------------------------
(* Every action keeps the types.                                           *)

LEMMA TypesStep == FolderTypeOK /\ FilesThere /\ [FolderNext]_folderVars => FolderTypeOK'
<1> SUFFICES ASSUME FolderTypeOK, FilesThere, [FolderNext]_folderVars PROVE FolderTypeOK'
  OBVIOUS
<1> USE DEF Processes, files, history
<1>1. CASE UNCHANGED folderVars
  BY <1>1 DEF folderVars, FolderTypeOK
<1>2. ASSUME NEW p \in Processes, OpenConfig(p) PROVE FolderTypeOK'
  <2>1. <<>> \in Seq(Processes)
    OBVIOUS
  <2> QED
    BY <1>2, <2>1 DEF OpenConfig, Goto, FolderTypeOK
<1>3. ASSUME NEW p \in Processes, WriteConfig(p) PROVE FolderTypeOK'
  <2>1. config \in Seq(Processes)
    BY <1>3 DEF WriteConfig, Goto, FilesThere, FolderTypeOK
  <2>2. Blocks[p] \in Nat
    BY FolderAssumption
  <2>3. config' \in Seq(Processes)
    BY <1>3, <2>1, <2>2, WriteIsFile DEF WriteConfig
  <2> QED
    BY <1>3, <2>3 DEF WriteConfig, Goto, FolderTypeOK
<1>4. ASSUME NEW p \in Processes, Kill(p) PROVE FolderTypeOK'
  BY <1>4 DEF Kill, FolderTypeOK
<1>5. ASSUME NEW r \in Receivers, OpenPackets(r) PROVE FolderTypeOK'
  <2>1. <<>> \in Seq(Receivers \cup {Hole})
    OBVIOUS
  <2> QED
    BY <1>5, <2>1 DEF OpenPackets, Opened, Goto, FolderTypeOK
<1>6. ASSUME NEW r \in Receivers, Bind(r) PROVE FolderTypeOK'
  BY <1>6 DEF Bind, Goto, FolderTypeOK
<1>7. ASSUME NEW r \in Receivers, AddRow(r) PROVE FolderTypeOK'
  BY <1>7 DEF AddRow, FolderTypeOK
<1>8. ASSUME NEW r \in Receivers, NEW n \in Nat, HasPackets(r), Out(r, n)
      PROVE  packets' \in Seq(Receivers \cup {Hole}) /\ written' \in [Receivers -> Nat]
  <2>1. packets \in Seq(Receivers \cup {Hole})
    BY <1>8 DEF FilesThere, FolderTypeOK
  <2>2. written[r] + 1 \in Nat
    BY DEF FolderTypeOK
  <2>3. packets' \in Seq(Receivers \cup {Hole})
    BY <1>8, <2>1, <2>2, WriteIsFile DEF Out
  <2> QED
    BY <1>8, <2>3 DEF Out, FolderTypeOK
<1>9. ASSUME NEW r \in Receivers, Spill(r) PROVE FolderTypeOK'
  <2>1. PICK n \in written[r] + 1 .. made[r] : Out(r, n)
    BY <1>9 DEF Spill
  <2>2. n \in Nat /\ HasPackets(r)
    BY <1>9 DEF Spill, MayWriteRows, HasPackets, FolderTypeOK
  <2>3. packets' \in Seq(Receivers \cup {Hole}) /\ written' \in [Receivers -> Nat]
    BY <1>8, <2>1, <2>2
  <2> QED
    BY <1>9, <2>1, <2>3 DEF Spill, Out, FolderTypeOK
<1>10. ASSUME NEW r \in Receivers, Flush(r) PROVE FolderTypeOK'
  <2>1. made[r] \in Nat /\ HasPackets(r) /\ Out(r, made[r])
    BY <1>10 DEF Flush, Goto, MayWriteRows, HasPackets, FolderTypeOK
  <2>2. packets' \in Seq(Receivers \cup {Hole}) /\ written' \in [Receivers -> Nat]
    BY <1>8, <2>1
  <2> QED
    BY <1>10, <2>1, <2>2 DEF Flush, Goto, Out, FolderTypeOK
<1>11. ASSUME NEW r \in Receivers, OpenSummary(r) PROVE FolderTypeOK'
  <2>1. <<>> \in Seq(Receivers)
    OBVIOUS
  <2> QED
    BY <1>11, <2>1 DEF OpenSummary, Goto, FolderTypeOK
<1>12. ASSUME NEW r \in Receivers, WriteSummary(r) PROVE FolderTypeOK'
  <2>1. summary \in Seq(Receivers)
    BY <1>12 DEF WriteSummary, Goto, FilesThere, FolderTypeOK
  <2>2. SummaryBlocks[r] \in Nat
    BY FolderAssumption
  <2>3. summary' \in Seq(Receivers)
    BY <1>12, <2>1, <2>2, WriteIsFile DEF WriteSummary
  <2> QED
    BY <1>12, <2>3 DEF WriteSummary, Goto, FolderTypeOK
<1>13. ASSUME NEW r \in Receivers, Exit(r) PROVE FolderTypeOK'
  <2>1. made[r] \in Nat /\ HasPackets(r) /\ Out(r, made[r])
    BY <1>13 DEF Exit, Goto, MayWriteRows, HasPackets, FolderTypeOK
  <2>2. packets' \in Seq(Receivers \cup {Hole}) /\ written' \in [Receivers -> Nat]
    BY <1>8, <2>1
  <2> QED
    BY <1>13, <2>1, <2>2 DEF Exit, Goto, Out, FolderTypeOK
<1> QED
  BY <1>1, <1>2, <1>3, <1>4, <1>5, <1>6, <1>7, <1>9, <1>10, <1>11, <1>12, <1>13 DEF FolderNext

-----------------------------------------------------------------------------
LEMMA FolderInvInit == FolderInit => FolderInv
<1> SUFFICES ASSUME FolderInit PROVE FolderInv
  OBVIOUS
<1> USE DEF FolderInit, Processes
<1>1. FolderTypeOK
  BY DEF FolderTypeOK
<1>2. FilesThere /\ RowsCounted
  BY DEF FilesThere, RowsCounted, HasPackets, MayWriteRows
<1>3. ConfigWhole
  BY DEF ConfigWhole
<1>4. SummaryWhole
  BY DEF SummaryWhole
<1>5. LatestIsAlone
  BY DEF LatestIsAlone
<1> QED
  BY <1>1, <1>2, <1>3, <1>4, <1>5 DEF FolderInv

-----------------------------------------------------------------------------
(* The parts of the invariant, one by one.                                 *)

LEMMA IsThere ==
  /\ \A s \in Seq(Processes) : s # NoFile
  /\ \A s \in Seq(Receivers \cup {Hole}) : s # NoFile
  /\ \A s \in Seq(Receivers) : s # NoFile
<1>1. ASSUME NEW s \in Seq(Processes) PROVE s \in Seq(Processes \cup {Hole})
  BY <1>1, SeqMonotonic
<1>2. ASSUME NEW s \in Seq(Receivers \cup {Hole}) PROVE s \in Seq(Processes \cup {Hole})
  BY <1>2, SeqMonotonic DEF Processes
<1>3. ASSUME NEW s \in Seq(Receivers) PROVE s \in Seq(Processes \cup {Hole})
  BY <1>3, SeqMonotonic DEF Processes
<1> QED
  BY <1>1, <1>2, <1>3, FolderAssumption

LEMMA OutIsThere ==
  ASSUME FolderTypeOK, FilesThere, NEW r \in Receivers, HasPackets(r),
         NEW n \in Nat, Out(r, n)
  PROVE  packets' # NoFile
<1>1. packets \in Seq(Receivers \cup {Hole}) /\ written[r] + 1 \in Nat
  BY DEF FilesThere, FolderTypeOK
<1>2. packets' \in Seq(Receivers \cup {Hole})
  BY <1>1, WriteIsFile DEF Out
<1> QED
  BY <1>2, IsThere

LEMMA FilesThereStep == FolderTypeOK /\ FilesThere /\ [FolderNext]_folderVars => FilesThere'
<1> SUFFICES ASSUME FolderTypeOK, FilesThere, [FolderNext]_folderVars PROVE FilesThere'
  OBVIOUS
<1> USE DEF Processes, files, history, FolderTypeOK, FilesThere, HasPackets, MayWriteRows
<1>1. CASE UNCHANGED folderVars
  BY <1>1 DEF folderVars
<1>2. ASSUME NEW p \in Processes, OpenConfig(p) PROVE FilesThere'
  BY <1>2, EmptyIsThere DEF OpenConfig, Goto
<1>3. ASSUME NEW p \in Processes, WriteConfig(p) PROVE FilesThere'
  <2>1. config' # NoFile
    <3>1. config \in Seq(Processes) /\ Blocks[p] \in Nat
      BY <1>3, FolderAssumption DEF WriteConfig, Goto
    <3>2. config' \in Seq(Processes)
      BY <1>3, <3>1, WriteIsFile DEF WriteConfig
    <3> QED
      BY <3>2, IsThere
  <2> QED
    BY <1>3, <2>1 DEF WriteConfig, Goto
<1>4. ASSUME NEW p \in Processes, Kill(p) PROVE FilesThere'
  BY <1>4 DEF Kill
<1>5. ASSUME NEW r \in Receivers, OpenPackets(r) PROVE FilesThere'
  BY <1>5, EmptyIsThere DEF OpenPackets, Opened, Goto
<1>6. ASSUME NEW r \in Receivers, Bind(r) PROVE FilesThere'
  BY <1>6 DEF Bind, Goto
<1>7. ASSUME NEW r \in Receivers, AddRow(r) PROVE FilesThere'
  BY <1>7 DEF AddRow
<1>8. ASSUME NEW r \in Receivers, Spill(r) PROVE FilesThere'
  <2>1. PICK n \in written[r] + 1 .. made[r] : Out(r, n)
    BY <1>8 DEF Spill
  <2>2. packets' # NoFile
    BY <1>8, <2>1, OutIsThere DEF Spill
  <2> QED
    BY <1>8, <2>1, <2>2 DEF Spill, Out
<1>9. ASSUME NEW r \in Receivers, Flush(r) PROVE FilesThere'
  <2>1. packets' # NoFile
    BY <1>9, OutIsThere DEF Flush, Goto
  <2> QED
    BY <1>9, <2>1 DEF Flush, Out, Goto
<1>10. ASSUME NEW r \in Receivers, OpenSummary(r) PROVE FilesThere'
  BY <1>10, EmptyIsThere DEF OpenSummary, Goto
<1>11. ASSUME NEW r \in Receivers, WriteSummary(r) PROVE FilesThere'
  <2>1. summary' # NoFile
    <3>1. summary \in Seq(Receivers) /\ SummaryBlocks[r] \in Nat
      BY <1>11, FolderAssumption DEF WriteSummary, Goto
    <3>2. summary' \in Seq(Receivers)
      BY <1>11, <3>1, WriteIsFile DEF WriteSummary
    <3> QED
      BY <3>2, IsThere
  <2> QED
    BY <1>11, <2>1 DEF WriteSummary, Goto
<1>12. ASSUME NEW r \in Receivers, Exit(r) PROVE FilesThere'
  <2>1. packets' # NoFile
    BY <1>12, OutIsThere DEF Exit, Goto
  <2> QED
    BY <1>12, <2>1 DEF Exit, Out, Goto
<1> QED
  BY <1>1, <1>2, <1>3, <1>4, <1>5, <1>6, <1>7, <1>8, <1>9, <1>10, <1>11, <1>12 DEF FolderNext

LEMMA ConfigWholeStep == FolderTypeOK /\ ConfigWhole /\ [FolderNext]_folderVars => ConfigWhole'
<1> SUFFICES ASSUME FolderTypeOK, ConfigWhole, [FolderNext]_folderVars PROVE ConfigWhole'
  OBVIOUS
<1> USE DEF Processes, files, history, FolderTypeOK, ConfigWhole, IsConfigOf
<1>1. CASE UNCHANGED folderVars
  BY <1>1 DEF folderVars
<1>2. ASSUME NEW p \in Processes, OpenConfig(p) PROVE ConfigWhole'
  BY <1>2 DEF OpenConfig, Goto
<1>3. ASSUME NEW p \in Processes, WriteConfig(p) PROVE ConfigWhole'
  <2>1. CASE torn
    BY <1>3, <2>1 DEF WriteConfig
  <2>2. CASE ~torn
    <3>1. config = <<>> /\ Blocks[p] \in Nat
      BY <1>3, <2>2, FolderAssumption DEF WriteConfig, Goto
    <3>2. config' = Rows(p, Blocks[p])
      BY <1>3, <3>1, WriteWhole DEF WriteConfig
    <3>3. IsConfigOf(p)'
      BY <3>2 DEF Rows
    <3>4. \A q \in Processes : pc'[q] # "config"
      BY <1>3, <2>2 DEF WriteConfig, Goto
    <3> QED
      BY <3>3, <3>4
  <2> QED
    BY <2>1, <2>2
<1>4. ASSUME NEW p \in Processes, Kill(p) PROVE ConfigWhole'
  BY <1>4 DEF Kill
<1>5. ASSUME NEW r \in Receivers, OpenPackets(r) PROVE ConfigWhole'
  BY <1>5 DEF OpenPackets, Opened, Goto
<1>6. ASSUME NEW r \in Receivers, Bind(r) PROVE ConfigWhole'
  BY <1>6 DEF Bind, Goto
<1>7. ASSUME NEW r \in Receivers, AddRow(r) PROVE ConfigWhole'
  BY <1>7 DEF AddRow
<1>8. ASSUME NEW r \in Receivers, Spill(r) PROVE ConfigWhole'
  BY <1>8 DEF Spill, Out
<1>9. ASSUME NEW r \in Receivers, Flush(r) PROVE ConfigWhole'
  BY <1>9 DEF Flush, Out, Goto
<1>10. ASSUME NEW r \in Receivers, OpenSummary(r) PROVE ConfigWhole'
  BY <1>10 DEF OpenSummary, Goto
<1>11. ASSUME NEW r \in Receivers, WriteSummary(r) PROVE ConfigWhole'
  BY <1>11 DEF WriteSummary, Goto
<1>12. ASSUME NEW r \in Receivers, Exit(r) PROVE ConfigWhole'
  BY <1>12 DEF Exit, Out, Goto
<1> QED
  BY <1>1, <1>2, <1>3, <1>4, <1>5, <1>6, <1>7, <1>8, <1>9, <1>10, <1>11, <1>12 DEF FolderNext

LEMMA SummaryWholeStep == FolderTypeOK /\ SummaryWhole /\ [FolderNext]_folderVars => SummaryWhole'
<1> SUFFICES ASSUME FolderTypeOK, SummaryWhole, [FolderNext]_folderVars PROVE SummaryWhole'
  OBVIOUS
<1> USE DEF Processes, files, history, FolderTypeOK, SummaryWhole, IsSummaryOf
<1>1. CASE UNCHANGED folderVars
  BY <1>1 DEF folderVars
<1>2. ASSUME NEW p \in Processes, OpenConfig(p) PROVE SummaryWhole'
  BY <1>2 DEF OpenConfig, Goto
<1>3. ASSUME NEW p \in Processes, WriteConfig(p) PROVE SummaryWhole'
  BY <1>3 DEF WriteConfig, Goto
<1>4. ASSUME NEW p \in Processes, Kill(p) PROVE SummaryWhole'
  BY <1>4 DEF Kill
<1>5. ASSUME NEW r \in Receivers, OpenPackets(r) PROVE SummaryWhole'
  BY <1>5 DEF OpenPackets, Opened, Goto
<1>6. ASSUME NEW r \in Receivers, Bind(r) PROVE SummaryWhole'
  BY <1>6 DEF Bind, Goto
<1>7. ASSUME NEW r \in Receivers, AddRow(r) PROVE SummaryWhole'
  BY <1>7 DEF AddRow
<1>8. ASSUME NEW r \in Receivers, Spill(r) PROVE SummaryWhole'
  BY <1>8 DEF Spill, Out
<1>9. ASSUME NEW r \in Receivers, Flush(r) PROVE SummaryWhole'
  BY <1>9 DEF Flush, Out, Goto
<1>10. ASSUME NEW r \in Receivers, OpenSummary(r) PROVE SummaryWhole'
  BY <1>10 DEF OpenSummary, Goto
<1>11. ASSUME NEW r \in Receivers, WriteSummary(r) PROVE SummaryWhole'
  <2>1. CASE torn
    BY <1>11, <2>1 DEF WriteSummary
  <2>2. CASE ~torn
    <3>1. summary = <<>> /\ SummaryBlocks[r] \in Nat
      BY <1>11, <2>2, FolderAssumption DEF WriteSummary, Goto
    <3>2. summary' = Rows(r, SummaryBlocks[r])
      BY <1>11, <3>1, WriteWhole DEF WriteSummary
    <3>3. IsSummaryOf(r)'
      BY <3>2 DEF Rows
    <3>4. \A q \in Receivers : pc'[q] # "summary"
      BY <1>11, <2>2 DEF WriteSummary, Goto
    <3> QED
      BY <3>3, <3>4
  <2> QED
    BY <2>1, <2>2
<1>12. ASSUME NEW r \in Receivers, Exit(r) PROVE SummaryWhole'
  BY <1>12 DEF Exit, Out, Goto
<1> QED
  BY <1>1, <1>2, <1>3, <1>4, <1>5, <1>6, <1>7, <1>8, <1>9, <1>10, <1>11, <1>12 DEF FolderNext

LEMMA RowsCountedStep == FolderTypeOK /\ RowsCounted /\ [FolderNext]_folderVars => RowsCounted'
<1> SUFFICES ASSUME FolderTypeOK, RowsCounted, [FolderNext]_folderVars PROVE RowsCounted'
  OBVIOUS
<1> USE DEF Processes, files, history, FolderTypeOK, RowsCounted, MayWriteRows
<1>1. CASE UNCHANGED folderVars
  BY <1>1 DEF folderVars
<1>2. ASSUME NEW p \in Processes, OpenConfig(p) PROVE RowsCounted'
  BY <1>2 DEF OpenConfig, Goto
<1>3. ASSUME NEW p \in Processes, WriteConfig(p) PROVE RowsCounted'
  BY <1>3 DEF WriteConfig, Goto
<1>4. ASSUME NEW p \in Processes, Kill(p) PROVE RowsCounted'
  BY <1>4 DEF Kill
<1>5. ASSUME NEW r \in Receivers, OpenPackets(r) PROVE RowsCounted'
  BY <1>5 DEF OpenPackets, Opened, Goto
<1>6. ASSUME NEW r \in Receivers, Bind(r) PROVE RowsCounted'
  BY <1>6 DEF Bind, Goto
<1>7. ASSUME NEW r \in Receivers, AddRow(r) PROVE RowsCounted'
  BY <1>7 DEF AddRow
<1>8. ASSUME NEW r \in Receivers, Spill(r) PROVE RowsCounted'
  BY <1>8 DEF Spill, Out
<1>9. ASSUME NEW r \in Receivers, Flush(r) PROVE RowsCounted'
  BY <1>9 DEF Flush, Out, Goto
<1>10. ASSUME NEW r \in Receivers, OpenSummary(r) PROVE RowsCounted'
  BY <1>10 DEF OpenSummary, Goto
<1>11. ASSUME NEW r \in Receivers, WriteSummary(r) PROVE RowsCounted'
  BY <1>11 DEF WriteSummary, Goto
<1>12. ASSUME NEW r \in Receivers, Exit(r) PROVE RowsCounted'
  BY <1>12 DEF Exit, Out, Goto
<1> QED
  BY <1>1, <1>2, <1>3, <1>4, <1>5, <1>6, <1>7, <1>8, <1>9, <1>10, <1>11, <1>12 DEF FolderNext

LEMMA LatestIsAloneStep ==
  FolderTypeOK /\ RowsCounted /\ LatestIsAlone /\ [FolderNext]_folderVars => LatestIsAlone'
<1> SUFFICES ASSUME FolderTypeOK, RowsCounted, LatestIsAlone, [FolderNext]_folderVars
             PROVE  LatestIsAlone'
  OBVIOUS
<1> USE DEF Processes, files, history, FolderTypeOK, RowsCounted, LatestIsAlone, HasPackets,
            MayWriteRows, IsSummaryOf
<1>1. CASE UNCHANGED folderVars
  BY <1>1 DEF folderVars
<1>2. ASSUME NEW p \in Processes, OpenConfig(p) PROVE LatestIsAlone'
  BY <1>2 DEF OpenConfig, Goto
<1>3. ASSUME NEW p \in Processes, WriteConfig(p) PROVE LatestIsAlone'
  BY <1>3 DEF WriteConfig, Goto
<1>4. ASSUME NEW p \in Processes, Kill(p) PROVE LatestIsAlone'
  BY <1>4 DEF Kill
<1>5. ASSUME NEW r \in Receivers, OpenPackets(r) PROVE LatestIsAlone'
  <2>1. packets' = Rows(r, written'[r])
    <3>1. written'[r] = 0
      BY <1>5 DEF OpenPackets, Opened, Goto
    <3> QED
      BY <1>5, <3>1 DEF OpenPackets, Rows
  <2> QED
    BY <1>5, <2>1 DEF OpenPackets, Opened, Goto
<1>6. ASSUME NEW r \in Receivers, Bind(r) PROVE LatestIsAlone'
  BY <1>6 DEF Bind, Goto
<1>7. ASSUME NEW r \in Receivers, AddRow(r) PROVE LatestIsAlone'
  BY <1>7 DEF AddRow
<1>8. ASSUME NEW r \in Receivers, Spill(r) PROVE LatestIsAlone'
  <2>1. CASE latest = r /\ alone
    <3>1. packets' = Rows(r, written'[r])
      BY <1>8, <2>1, WriteOwnRows DEF Spill, Out
    <3> QED
      BY <1>8, <2>1, <3>1 DEF Spill, Out
  <2>2. CASE ~(latest = r /\ alone)
    BY <1>8, <2>2 DEF Spill, Out
  <2> QED
    BY <2>1, <2>2
<1>9. ASSUME NEW r \in Receivers, Flush(r) PROVE LatestIsAlone'
  <2>1. CASE latest = r /\ alone
    <3>1. packets' = Rows(r, written'[r])
      BY <1>9, <2>1, WriteOwnRows DEF Flush, Out, Goto
    <3> QED
      BY <1>9, <2>1, <3>1 DEF Flush, Out, Goto
  <2>2. CASE ~(latest = r /\ alone)
    BY <1>9, <2>2 DEF Flush, Out, Goto
  <2> QED
    BY <2>1, <2>2
<1>10. ASSUME NEW r \in Receivers, OpenSummary(r) PROVE LatestIsAlone'
  BY <1>10 DEF OpenSummary, Goto
<1>11. ASSUME NEW r \in Receivers, WriteSummary(r) PROVE LatestIsAlone'
  <2>1. CASE latest = r /\ alone
    <3>1. summary = <<>> /\ SummaryBlocks[r] \in Nat
      BY <1>11, <2>1, FolderAssumption DEF WriteSummary, Goto
    <3>2. summary' = Rows(r, SummaryBlocks[r])
      BY <1>11, <3>1, WriteWhole DEF WriteSummary
    <3>3. IsSummaryOf(r)'
      BY <3>2 DEF Rows
    <3> QED
      BY <1>11, <2>1, <3>3 DEF WriteSummary, Goto
  <2>2. CASE ~(latest = r /\ alone)
    BY <1>11, <2>2 DEF WriteSummary, Goto
  <2> QED
    BY <2>1, <2>2
<1>12. ASSUME NEW r \in Receivers, Exit(r) PROVE LatestIsAlone'
  <2>1. CASE latest = r /\ alone
    <3>1. packets' = Rows(r, written'[r])
      BY <1>12, <2>1, WriteOwnRows DEF Exit, Out, Goto
    <3> QED
      BY <1>12, <2>1, <3>1 DEF Exit, Out, Goto
  <2>2. CASE ~(latest = r /\ alone)
    BY <1>12, <2>2 DEF Exit, Out, Goto
  <2> QED
    BY <2>1, <2>2
<1> QED
  BY <1>1, <1>2, <1>3, <1>4, <1>5, <1>6, <1>7, <1>8, <1>9, <1>10, <1>11, <1>12 DEF FolderNext

LEMMA FolderInvStep == FolderInv /\ [FolderNext]_folderVars => FolderInv'
BY TypesStep, FilesThereStep, ConfigWholeStep, SummaryWholeStep, RowsCountedStep,
   LatestIsAloneStep DEF FolderInv

-----------------------------------------------------------------------------
(* Every variable keeps its type: config.json never has a hole.            *)
THEOREM FolderTypeCorrect == FolderSpec => []FolderTypeOK
<1>1. FolderInv => FolderTypeOK
  BY DEF FolderInv
<1> QED
  BY FolderInvInit, FolderInvStep, <1>1, PTL DEF FolderSpec

(* A receiver that was alone when it opened packets.csv, and was not       *)
(* followed by another, leaves its own whole files.                        *)
THEOREM FinishedRunIsWholeAlways == FolderSpec => []FinishedRunIsWhole
<1>1. FolderInv => FinishedRunIsWhole
  BY DEF FolderInv, LatestIsAlone, RowsCounted, FinishedRunIsWhole, Rows
<1> QED
  BY FolderInvInit, FolderInvStep, <1>1, PTL DEF FolderSpec

(* The analyzer's scan fails only over a file that was torn.               *)
THEOREM ScanSucceedsAlways == FolderSpec => []ScanSucceeds
<1>1. FolderInv => ScanSucceeds
  BY DEF FolderInv, ConfigWhole, SummaryWhole, ScanSucceeds, Scan, Processes
<1> QED
  BY FolderInvInit, FolderInvStep, <1>1, PTL DEF FolderSpec

-----------------------------------------------------------------------------
(* Configuration: what every configuration holds, and what its JSON gives  *)
(* back.                                                                   *)

FieldOK(f, v) ==
  /\ f \in Enums => v \in 0 .. Len(Names[f]) - 1
  /\ f = "port" => v \in 0 .. PortRange - 1
  /\ f \in Counts => v \in 0 .. CountRange - 1

ConfigOK(c) == c = [f \in Fields |-> c[f]] /\ \A f \in Fields : FieldOK(f, c[f])

(* What is read has integers where a number is wanted.                     *)
Numeric(j) == \A f \in DOMAIN j : f = "port" \/ f \in Counts => j[f] \in Int

LEMMA FieldKinds ==
  /\ Enums = {"protocol", "serializer", "compression", "payload_format", "mqtt_qos",
              "zmq_pattern"}
  /\ "port" \notin Enums /\ "port" \notin Counts /\ "metadata" \notin Enums
  /\ "metadata" \notin Counts /\ "metadata" # "port" /\ "run_id" \notin Fields
  /\ "port" \in Fields /\ Enums \subseteq Fields /\ Counts \subseteq Fields
  /\ \A f \in Enums : f \notin Counts
BY DEF Enums, Names, Counts, Texts, Fields

(* Names are numbered without a gap, and no two values share one.          *)
LEMMA NamesAreNumbered ==
  ASSUME NEW f \in Enums
  PROVE  /\ Len(Names[f]) \in Nat /\ DOMAIN Names[f] = 1 .. Len(Names[f])
         /\ \A i, k \in DOMAIN Names[f] : Names[f][i] = Names[f][k] => i = k
<1>1. CASE f = "protocol"
  BY <1>1 DEF Names
<1>2. CASE f = "serializer"
  BY <1>2 DEF Names
<1>3. CASE f = "compression"
  BY <1>3 DEF Names
<1>4. CASE f = "payload_format"
  BY <1>4 DEF Names
<1>5. CASE f = "mqtt_qos"
  BY <1>5 DEF Names
<1>6. CASE f = "zmq_pattern"
  BY <1>6 DEF Names
<1> QED
  BY <1>1, <1>2, <1>3, <1>4, <1>5, <1>6, FieldKinds

LEMMA EnumOfKnown ==
  ASSUME NEW f \in Enums, NEW s, Known(f, s)
  PROVE  Enum(f, s) \in 0 .. Len(Names[f]) - 1 /\ EnumName(f, Enum(f, s)) = s
<1>1. PICK k : k = (CHOOSE i \in DOMAIN Names[f] : Names[f][i] = s)
  OBVIOUS
<1>2. k \in DOMAIN Names[f] /\ Names[f][k] = s
  BY <1>1 DEF Known
<1>3. Enum(f, s) = k - 1 /\ k \in 1 .. Len(Names[f]) /\ Len(Names[f]) \in Nat
  BY <1>1, <1>2, NamesAreNumbered DEF Enum
<1> QED
  BY <1>2, <1>3 DEF EnumName

LEMMA EnumOfName ==
  ASSUME NEW f \in Enums, NEW v \in 0 .. Len(Names[f]) - 1
  PROVE  Known(f, EnumName(f, v)) /\ Enum(f, EnumName(f, v)) = v
<1>1. PICK s : s = EnumName(f, v)
  OBVIOUS
<1>2. v + 1 \in DOMAIN Names[f] /\ Names[f][v + 1] = s
  BY <1>1, NamesAreNumbered DEF EnumName
<1>3. Known(f, s)
  BY <1>2 DEF Known
<1>4. PICK k : k = Enum(f, s) + 1
  OBVIOUS
<1>5. k \in DOMAIN Names[f] /\ Names[f][k] = s /\ Enum(f, s) = k - 1
  BY <1>3, <1>4, EnumOfKnown, NamesAreNumbered DEF EnumName
<1>6. k = v + 1
  BY <1>2, <1>5, NamesAreNumbered
<1> QED
  BY <1>1, <1>3, <1>5, <1>6

LEMMA ReadFieldOK ==
  ASSUME NEW f, NEW v, f \in Enums => Known(f, v), f = "port" \/ f \in Counts => v \in Int
  PROVE  FieldOK(f, ReadField(f, v))
<1>1. CASE f \in Enums
  BY <1>1, EnumOfKnown, FieldKinds DEF FieldOK, ReadField
<1>2. CASE f = "port"
  BY <1>2, FieldKinds, ConfigurationAssumption DEF FieldOK, ReadField, Fit
<1>3. CASE f \in Counts
  BY <1>3, FieldKinds, ConfigurationAssumption DEF FieldOK, ReadField, Fit
<1> QED
  BY <1>1, <1>2, <1>3 DEF FieldOK

LEMMA ReadBack ==
  ASSUME NEW f \in Fields, NEW c, ConfigOK(c)
  PROVE  /\ f \in Enums => Known(f, ToJson(c)[f])
         /\ ReadField(f, ToJson(c)[f]) = c[f]
<1>1. FieldOK(f, c[f])
  BY DEF ConfigOK
<1>2. CASE f \in Enums
  <2>1. ToJson(c)[f] = EnumName(f, c[f])
    BY <1>2 DEF ToJson
  <2> QED
    BY <1>1, <1>2, <2>1, EnumOfName DEF FieldOK, ReadField
<1>3. CASE f \notin Enums
  <2>1. ToJson(c)[f] = c[f]
    BY <1>3 DEF ToJson
  <2>2. Fit(f, c[f]) = c[f]
    <3>1. \A m \in Nat : \A v \in 0 .. m - 1 : v % m = v
      OBVIOUS
    <3> QED
      BY <1>1, <3>1, ConfigurationAssumption DEF FieldOK, Fit
  <2> QED
    BY <1>3, <2>1, <2>2 DEF ReadField
<1> QED
  BY <1>2, <1>3

LEMMA DefaultsAreOK == ConfigOK(Defaults)
<1>1. /\ Known("protocol", "tcp") /\ Known("serializer", "none") /\ Known("compression", "none")
      /\ Known("payload_format", "random") /\ Known("mqtt_qos", "0")
      /\ Known("zmq_pattern", "push_pull")
  BY DEF Known, Names
<1>2. Defaults = [f \in Fields |-> Defaults[f]]
  BY DEF Defaults, Fields, Enums, Names, Counts, Texts
<1>3. ASSUME NEW f \in Enums PROVE FieldOK(f, Defaults[f])
  BY SMTT(30), <1>1, <1>3, EnumOfKnown, FieldKinds DEF Defaults, FieldOK
<1>4. ASSUME NEW f \in Counts PROVE FieldOK(f, Defaults[f])
  BY <1>4, FieldKinds, ConfigurationAssumption DEF Defaults, FieldOK, Counts
<1>5. FieldOK("port", Defaults["port"])
  BY FieldKinds, ConfigurationAssumption DEF Defaults, FieldOK
<1> QED
  BY <1>2, <1>3, <1>4, <1>5 DEF ConfigOK, FieldOK

LEMMA FromJsonOK ==
  ASSUME NEW j, Numeric(j), Readable(j)
  PROVE  ConfigOK(FromJson(j))
<1> DEFINE read == [f \in DOMAIN j \cap Fields |-> ReadField(f, j[f])]
<1>1. FromJson(j) = Over(read, Defaults) /\ DOMAIN Defaults = Fields
  BY DefaultsAreOK DEF FromJson, ConfigOK
<1>2. Over(read, Defaults)
        = [f \in Fields |-> IF f \in DOMAIN j THEN ReadField(f, j[f]) ELSE Defaults[f]]
  BY <1>1 DEF Over
<1>3. ASSUME NEW f \in Fields
      PROVE  FieldOK(f, IF f \in DOMAIN j THEN ReadField(f, j[f]) ELSE Defaults[f])
  <2>1. CASE f \in DOMAIN j
    BY <2>1, ReadFieldOK DEF Readable, Numeric
  <2>2. CASE f \notin DOMAIN j
    BY <2>2, DefaultsAreOK DEF ConfigOK
  <2> QED
    BY <2>1, <2>2
<1> QED
  BY <1>1, <1>2, <1>3 DEF ConfigOK

LEMMA OverrideOK ==
  ASSUME NEW cli, Numeric(cli), Readable(cli), NEW c, ConfigOK(c)
  PROVE  ConfigOK(Override(cli, c))
<1> DEFINE v(f) == IF f \notin DOMAIN cli THEN c[f]
                   ELSE IF f = "metadata" THEN MergeMetadata(Parse(cli)[f], c[f])
                   ELSE Parse(cli)[f]
<1>1. Override(cli, c) = [f \in Fields |-> v(f)]
  BY DEF Override, Parse
<1>2. ASSUME NEW f \in Fields PROVE FieldOK(f, v(f))
  <2>1. CASE f \notin DOMAIN cli
    BY <2>1 DEF ConfigOK
  <2>2. CASE f = "metadata"
    BY <2>2, FieldKinds DEF FieldOK
  <2>3. CASE f \in DOMAIN cli /\ f # "metadata"
    <3>1. Parse(cli)[f] = ReadField(f, cli[f])
      BY <2>3 DEF Parse
    <3> QED
      BY <2>3, <3>1, ReadFieldOK DEF Readable, Numeric
  <2> QED
    BY <2>1, <2>2, <2>3
<1> HIDE DEF v
<1> QED
  BY <1>1, <1>2 DEF ConfigOK

LEMMA EffectiveOK ==
  ASSUME NEW cli, Numeric(cli), NEW given, given = <<>> \/ Numeric(given[1]),
         Effective(cli, given) # Invalid
  PROVE  ConfigOK(Effective(cli, given))
<1>1. Readable(cli)
  BY DEF Effective
<1>2. CASE given = <<>>
  BY <1>1, <1>2, OverrideOK, DefaultsAreOK DEF Effective
<1>3. CASE given # <<>>
  <2>1. FromJson(given[1]) # Invalid /\ Effective(cli, given) = Override(cli, FromJson(given[1]))
    BY <1>1, <1>3 DEF Effective
  <2>2. Readable(given[1])
    BY <2>1 DEF FromJson
  <2> QED
    BY <1>1, <1>3, <2>1, <2>2, OverrideOK, FromJsonOK
<1> QED
  BY <1>2, <1>3

LEMMA RecordedIsRead ==
  ASSUME NEW c, ConfigOK(c), c # Invalid
  PROVE  Effective(Unset, <<Recorded(c)>>) = c
<1> DEFINE r == Recorded(c)
<1>1. DOMAIN r = Fields \cup {"run_id"} /\ \A f \in Fields : r[f] = ToJson(c)[f]
  BY DEF Recorded, Over, ToJson
<1>2. Readable(r)
  BY <1>1, ReadBack, FieldKinds DEF Readable
<1>3. FromJson(r) = c
  <2>1. DOMAIN r \cap Fields = Fields
    BY <1>1
  <2>2. FromJson(r) = Over([f \in Fields |-> ReadField(f, r[f])], Defaults)
    BY <1>2, <2>1 DEF FromJson
  <2>3. DOMAIN Defaults = Fields
    BY DefaultsAreOK DEF ConfigOK
  <2>4. FromJson(r) = [f \in Fields |-> ReadField(f, r[f])]
    BY <2>2, <2>3 DEF Over
  <2>5. \A f \in Fields : ReadField(f, r[f]) = c[f]
    BY <1>1, ReadBack
  <2> HIDE DEF r
  <2> QED
    BY <2>4, <2>5 DEF ConfigOK
<1>4. Readable(Unset) /\ Override(Unset, c) = [f \in Fields |-> c[f]]
  BY DEF Readable, Unset, Override, Parse
<1>5. <<r>>[1] = r /\ <<r>> # <<>>
  OBVIOUS
<1> HIDE DEF r
<1>6. Effective(Unset, <<r>>) = c
  BY <1>3, <1>4, <1>5 DEF Effective, ConfigOK
<1> QED
  BY <1>6 DEF r

CallInv ==
  /\ call.of = "compute" => call.samples \in SeqOf(Samples, MaxSamples)
  /\ call.of = "configure" =>
       Numeric(call.cli) /\ (call.files = <<>> \/ Numeric(call.files[1]))

LEMMA CallInvAlways == FunctionsSpec => []CallInv
<1>1. NoCall => CallInv
  BY DEF NoCall, CallInv
<1>2. CallInv /\ [CallFunction]_callVars => CallInv'
  <2> SUFFICES ASSUME CallInv, [CallFunction]_callVars PROVE CallInv'
    OBVIOUS
  <2>1. CASE CallCompute
    BY <2>1 DEF CallCompute, Call, CallInv
  <2>2. CASE CallConfigure
    <3>1. PICK cli \in Settings, given \in {<<>>} \cup {<<s>> : s \in Settings} :
            call' = [of |-> "configure", cli |-> cli, files |-> given]
      BY <2>2 DEF CallConfigure, Call
    <3>2. Numeric(cli)
      BY FunctionsAssumption DEF Numeric
    <3>3. given = <<>> \/ Numeric(given[1])
      <4>1. CASE given = <<>>
        BY <4>1
      <4>2. ASSUME NEW s \in Settings, given = <<s>> PROVE Numeric(given[1])
        <5>1. given[1] = s
          BY <4>2
        <5> QED
          BY <5>1, FunctionsAssumption DEF Numeric
      <4> QED
        BY <4>1, <4>2
    <3> QED
      BY <3>1, <3>2, <3>3 DEF CallInv
  <2>3. CASE CallCodec
    BY <2>3 DEF CallCodec, Call, CallInv
  <2>4. CASE UNCHANGED callVars
    BY <2>4 DEF callVars, CallInv
  <2> QED
    BY <2>1, <2>2, <2>3, <2>4 DEF CallFunction
<1> QED
  BY <1>1, <1>2, PTL DEF FunctionsSpec

(* config.json reproduces the run: whatever command line and file made a   *)
(* configuration, what the file records makes it again, in the same        *)
(* folder, and it is accepted again.                                       *)
THEOREM RecordedConfigReproducesAlways == FunctionsSpec => []RecordedConfigReproduces
<1>1. CallInv => RecordedConfigReproduces
  BY EffectiveOK, RecordedIsRead DEF CallInv, RecordedConfigReproduces
<1> QED
  BY <1>1, CallInvAlways, PTL
================================================================================

-------------------------- MODULE CertStoreProofs ---------------------------
(* Theorems about CertStore and PublicIP, for any number of issued         *)
(* credentials and of faults: what is on disk and in the directory at      *)
(* every step, and that the discovery of the addresses changes none of it. *)
EXTENDS PublicIP, SequenceTheorems, TLAPS

\* How a write stands with the disk: it belongs to the caller whose files it
\* has, and what it has renamed is there.
WriteInv ==
  writer # NoWrite =>
    /\ writer.issue = issued /\ writer.key = issued /\ issued > 0
    /\ \/ mode = "enroll" /\ writer.files = EnrollFiles
       \/ mode = "running" /\ writer.files \in {RenewFiles(TRUE), RenewFiles(FALSE)}
    /\ mode = "enroll" => /\ writer.renamed > 0 => disk["ca"] = issued
                          /\ writer.renamed > 1 => disk["crt"] = issued
                          /\ writer.renamed > 2 => disk["key"] = issued
                          /\ writer.renamed > 3 => disk["id"] = issued
    /\ mode = "running" => /\ writer.renamed > 0 => disk["crt"] = issued
                           /\ writer.renamed > 1 => disk["key"] = issued

\* The temp files: those of the write in progress, and what crashes left.
TempInv ==
  /\ temps >= writer.staged - writer.renamed
  /\ ~crashed => temps = writer.staged - writer.renamed

\* The agent ID is the last file of an enrollment: with it the others are there,
\* and none is older; while an agent enrolls it is missing.
IdentInv ==
  /\ \A f \in Files : disk[f] \in 0 .. issued
  /\ disk["id"] # Absent => \A f \in Files : disk[f] >= disk["id"]
  /\ mode \in {"client", "running"} => disk["id"] # Absent
  /\ mode = "enroll" => disk["id"] = Absent \/ writer.renamed = 4
  /\ renew = "post" => mode = "running" /\ writer = NoWrite

\* The pair, once the agent ID makes it count.
PairInv ==
  disk["id"] # Absent /\ disk["crt"] # disk["key"] =>
    cut \/ (mode = "running" /\ writer.renamed = 1)

-----------------------------------------------------------------------------
\* The lists of files, by length and position.
LEMMA FileLists ==
  /\ Len(EnrollFiles) = 4 /\ EnrollFiles[1] = "ca" /\ EnrollFiles[2] = "crt"
  /\ EnrollFiles[3] = "key" /\ EnrollFiles[4] = "id"
  /\ Len(RenewFiles(TRUE)) = 3 /\ RenewFiles(TRUE)[1] = "crt"
  /\ RenewFiles(TRUE)[2] = "key" /\ RenewFiles(TRUE)[3] = "ca"
  /\ Len(RenewFiles(FALSE)) = 2 /\ RenewFiles(FALSE)[1] = "crt"
  /\ RenewFiles(FALSE)[2] = "key"
  BY DEF EnrollFiles, RenewFiles

LEMMA NoFiles == \A f : f = <<>> => Len(f) = 0
  OBVIOUS

\* The parts of the type invariant: numbers and records, and booleans.
DataInv ==
  /\ disk \in [Files -> -1 .. MaxIssued]
  /\ temps \in Nat
  /\ mode \in {"down", "boot", "enroll", "client", "running"}
  /\ writer \in Writers
  /\ writer.renamed <= writer.staged /\ writer.staged <= Len(writer.files)
  /\ writer.renamed > 0 => writer.staged = Len(writer.files)
  /\ renew \in {"idle", "post"}
  /\ dial \in Dials
  /\ issued \in 0 .. MaxIssued /\ faults \in 0 .. MaxFaults

BoolInv ==
  /\ connected \in BOOLEAN /\ near \in BOOLEAN /\ token \in BOOLEAN
  /\ crashed \in BOOLEAN /\ cut \in BOOLEAN

LEMMA TypeParts == (TypeOK <=> DataInv /\ BoolInv) /\ (TypeOK' <=> DataInv' /\ BoolInv')
  BY DEF TypeOK, DataInv, BoolInv

CertInv == DataInv /\ WriteInv /\ TempInv /\ IdentInv /\ PairInv

LEMMA WriterFacts ==
  /\ NoWrite \in Writers /\ NoWrite.staged = 0 /\ NoWrite.renamed = 0
  /\ NoWrite.files = <<>> /\ NoDial \in Dials
  /\ \A w \in Writers :
       /\ Len(w.files) \in 0 .. 4 /\ w.staged \in 0 .. 4 /\ w.renamed \in 0 .. 4
       /\ w.issue \in 0 .. MaxIssued /\ w.key \in -1 .. MaxIssued
  <1>1. NoWrite.staged = 0 /\ NoWrite.renamed = 0 /\ NoWrite.files = <<>>
    BY DEF NoWrite
  <1>2. NoWrite \in Writers
    BY CertAssumption DEF NoWrite, Writers, Absent
  <1>3. NoDial \in Dials
    BY CertAssumption DEF NoDial, Dials, Absent
  <1>4. ASSUME NEW w \in Writers
        PROVE  /\ Len(w.files) \in 0 .. 4
               /\ w.staged \in 0 .. 4 /\ w.renamed \in 0 .. 4
               /\ w.issue \in 0 .. MaxIssued /\ w.key \in -1 .. MaxIssued
    <2>1. w.files \in {<<>>, EnrollFiles, RenewFiles(TRUE), RenewFiles(FALSE)}
      BY DEF Writers
    <2>2. CASE w.files = <<>>
      <3>1. Len(w.files) = 0
        BY <2>2, NoFiles
      <3> QED BY <3>1 DEF Writers
    <2>3. CASE w.files # <<>>
      <3>1. Len(w.files) \in {4, 3, 2}
        BY <2>1, <2>3, FileLists
      <3> QED BY <3>1 DEF Writers
    <2> QED BY <2>2, <2>3
  <1> QED BY <1>1, <1>2, <1>3, <1>4

\* The record of a write that begins.
LEMMA BeginFacts ==
  ASSUME NEW files \in {EnrollFiles, RenewFiles(TRUE), RenewFiles(FALSE)},
         NEW issue \in 1 .. MaxIssued, Begin(files, issue, issue)
  PROVE  /\ writer' \in Writers /\ writer'.staged = 0 /\ writer'.renamed = 0
         /\ writer'.files = files /\ writer'.issue = issue /\ writer'.key = issue
         /\ Len(files) \in Nat
  <1>1. writer' = [files |-> files, issue |-> issue, key |-> issue,
                   staged |-> 0, renamed |-> 0]
    BY DEF Begin
  <1>2. issue \in 0 .. MaxIssued /\ issue \in -1 .. MaxIssued /\ 0 \in 0 .. 4
    BY CertAssumption
  <1>3. writer' \in Writers
    BY <1>1, <1>2 DEF Writers
  <1>4. Len(files) \in Nat
    BY FileLists
  <1> QED BY <1>1, <1>3, <1>4

LEMMA InitCert == Init => CertInv
  <1> SUFFICES ASSUME Init PROVE CertInv
    OBVIOUS
  <1>1. DataInv
    BY CertAssumption, WriterFacts, FileLists DEF Init, DataInv, Absent
  <1> QED
    BY <1>1, WriterFacts, CertAssumption
       DEF Init, CertInv, WriteInv, TempInv, IdentInv, PairInv, Absent, Files

\* The end of the process: the invariant holds of what it leaves.
LEMMA ExitInv ==
  ASSUME CertInv, Exit, writer' = NoWrite, disk' = disk, issued' \in Nat,
         issued' >= issued, issued' <= MaxIssued,
         faults' \in 0 .. MaxFaults, temps' \in Nat,
         ~crashed' => temps' = 0,
         cut \/ (mode = "running" /\ writer.renamed = 1) => cut'
  PROVE  CertInv'
  <1>1. DataInv'
    <2>2. writer' \in Writers /\ writer'.staged = 0 /\ writer'.renamed = 0
          /\ writer'.files = <<>>
      BY WriterFacts
    <2>3. issued' \in 0 .. MaxIssued
      BY CertAssumption
    <2> QED
      BY <2>2, <2>3, WriterFacts, NoFiles DEF CertInv, DataInv, Exit
  <1>2. WriteInv'
    BY DEF WriteInv
  <1>3. TempInv'
    BY WriterFacts DEF TempInv
  <1>4. IdentInv'
    <2>1. \A f \in Files : disk'[f] \in 0 .. issued'
      BY CertAssumption DEF CertInv, IdentInv, DataInv
    <2> QED BY <2>1 DEF CertInv, IdentInv, Exit
  <1>5. PairInv'
    BY DEF CertInv, PairInv
  <1> QED BY <1>1, <1>2, <1>3, <1>4, <1>5 DEF CertInv

\* Steps that leave the files, the temp files and the write as they are.
LEMMA StillInv ==
  ASSUME CertInv, UNCHANGED <<disk, temps, writer, issued, crashed, cut>>, DataInv',
         writer # NoWrite => mode' = mode,
         mode' \in {"client", "running"} => disk["id"] # Absent,
         mode' = "enroll" => disk["id"] = Absent \/ writer.renamed = 4,
         renew' = "post" => mode' = "running" /\ writer = NoWrite
  PROVE  CertInv'
  <1>1. WriteInv'
    BY DEF CertInv, WriteInv
  <1>2. TempInv' /\ IdentInv'
    BY DEF CertInv, TempInv, IdentInv
  <1>3. PairInv'
    <2>1. writer = NoWrite => writer.renamed = 0
      BY WriterFacts
    <2> QED BY <2>1 DEF CertInv, PairInv
  <1> QED BY <1>1, <1>2, <1>3 DEF CertInv

\* Start-up, the daily check, dials, and what time, network and operator do.
LEMMA QuietStep ==
  ASSUME CertInv,
         \/ Start \/ Boot \/ EnrollFails \/ NewClient \/ Check \/ RenewFails
         \/ DialStart \/ DialCA \/ DialCrt \/ DialKey
         \/ Age \/ Disconnect \/ NewToken
  PROVE  CertInv'
  <1>1. /\ DataInv /\ IdentInv
        /\ writer # NoWrite => mode \in {"enroll", "running"}
    BY DEF CertInv, WriteInv
  <1>2. CASE Start
    <2>1. DataInv'
      BY <1>1, <1>2 DEF Start, DataInv, net, hist
    <2> QED BY <1>1, <1>2, <2>1, StillInv DEF Start, IdentInv, hist
  <1>3. CASE Exit /\ UNCHANGED <<disk, temps, writer, issued, hist>> /\ writer = NoWrite
    <2>1. DataInv'
      BY <1>1, <1>3, WriterFacts DEF Exit, DataInv, hist
    <2> QED BY <1>3, <2>1, StillInv DEF Exit, hist
  <1>4. CASE Boot
    <2>1. writer = NoWrite
      BY <1>1, <1>4 DEF Boot
    <2>2. CASE ~HasCerts
      <3>1. mode' = "enroll" /\ UNCHANGED <<disk, temps, writer, issued, hist, renew, dial>>
        BY <1>4, <2>2 DEF Boot, net
      <3>2. disk["id"] = Absent
        BY <1>1, <2>2 DEF IdentInv, HasCerts, Files, Absent
      <3>3. DataInv'
        BY <1>1, <3>1 DEF DataInv, hist
      <3>4. renew # "post"
        BY <1>1, <1>4 DEF IdentInv, Boot
      <3> QED BY <2>1, <3>1, <3>2, <3>3, <3>4, StillInv DEF hist
    <2>3. CASE HasCerts
      <3>1. disk["id"] # Absent
        BY <2>3 DEF HasCerts, Files
      <3>2. mode' = "client" /\ UNCHANGED <<disk, temps, writer, issued, hist, renew, dial>>
        BY <1>4, <2>3, <3>1 DEF Boot, net
      <3>3. DataInv'
        BY <1>1, <3>2 DEF DataInv, hist
      <3>4. renew # "post"
        BY <1>1, <1>4 DEF IdentInv, Boot
      <3> QED BY <2>1, <3>1, <3>2, <3>3, <3>4, StillInv DEF hist
    <2> QED BY <2>2, <2>3
  <1>5. CASE EnrollFails
    BY <1>3, <1>5 DEF EnrollFails, Writing
  <1>6. CASE NewClient
    <2>1. writer = NoWrite
      BY <1>1, <1>6 DEF NewClient
    <2>2. CASE Matching(disk["crt"], disk["key"])
      <3>1. mode' = "running" /\ UNCHANGED <<disk, temps, writer, issued, hist, renew, dial>>
        BY <1>6, <2>2 DEF NewClient, net
      <3>2. DataInv'
        BY <1>1, <3>1 DEF DataInv, hist
      <3>3. disk["id"] # Absent
        BY <1>1, <1>6 DEF IdentInv, NewClient
      <3> QED BY <2>1, <3>1, <3>2, <3>3, StillInv DEF hist
    <2>3. CASE ~Matching(disk["crt"], disk["key"])
      BY <1>3, <1>6, <2>1, <2>3 DEF NewClient
    <2> QED BY <2>2, <2>3
  <1>7. CASE Check
    <2>1. DataInv'
      BY <1>1, <1>7 DEF Check, DataInv, net, hist
    <2> QED BY <1>1, <1>7, <2>1, StillInv DEF Check, IdentInv, Writing, hist
  <1>8. CASE RenewFails
    <2>1. DataInv'
      BY <1>1, <1>8 DEF RenewFails, DataInv, net, hist
    <2> QED BY <1>1, <1>8, <2>1, StillInv DEF RenewFails, IdentInv, hist
  <1>9. CASE DialStart \/ DialCA \/ DialCrt \/ DialKey
    <2>1. disk["crt"] \in 0 .. MaxIssued
      BY <1>1, CertAssumption DEF IdentInv, DataInv, Files
    <2>2. dial' \in Dials
      <3>1. dial \in Dials /\ 0 \in 0 .. MaxIssued
        BY <1>1, CertAssumption DEF DataInv
      <3>2. CASE DialStart
        BY <3>1, <3>2 DEF DialStart, Dials, Absent
      <3>3. CASE DialCA
        BY <3>1, <3>3 DEF DialCA, Dials
      <3>4. CASE DialCrt
        BY <2>1, <3>1, <3>4 DEF DialCrt, Dials
      <3>5. CASE DialKey
        BY <3>5, WriterFacts DEF DialKey
      <3> QED BY <1>9, <3>2, <3>3, <3>4, <3>5
    <2>3. UNCHANGED <<disk, temps, mode, renew, writer, issued, hist>>
      BY <1>9 DEF DialStart, DialCA, DialCrt, DialKey
    <2>4. DataInv'
      BY <1>1, <2>2, <2>3 DEF DataInv, hist
    <2> QED BY <1>1, <2>3, <2>4, StillInv DEF IdentInv, hist
  <1>10. CASE Age \/ Disconnect \/ NewToken
    <2>1. /\ UNCHANGED <<disk, temps, mode, renew, dial, writer, issued, crashed, cut>>
          /\ faults' \in {faults, faults + 1} /\ faults' <= MaxFaults
      BY <1>1, <1>10, CertAssumption DEF Age, Disconnect, NewToken, proc, net, hist, DataInv
    <2>2. DataInv'
      BY <1>1, <2>1, CertAssumption DEF DataInv
    <2> QED BY <1>1, <2>1, <2>2, StillInv DEF IdentInv
  <1> QED BY <1>2, <1>4, <1>5, <1>6, <1>7, <1>8, <1>9, <1>10

-----------------------------------------------------------------------------
\* One file more staged, or renamed.
LEMMA Succ == \A a, b \in 0 .. 4 : a < b => a + 1 \in 0 .. 4
  OBVIOUS

LEMMA SetStaged ==
  ASSUME NEW w \in Writers, NEW n \in 0 .. 4
  PROVE  LET v == [w EXCEPT !.staged = n]
         IN  /\ v \in Writers /\ v.staged = n /\ v.renamed = w.renamed
             /\ v.files = w.files /\ v.issue = w.issue /\ v.key = w.key
  BY DEF Writers

LEMMA SetRenamed ==
  ASSUME NEW w \in Writers, NEW n \in 0 .. 4
  PROVE  LET v == [w EXCEPT !.renamed = n]
         IN  /\ v \in Writers /\ v.renamed = n /\ v.staged = w.staged
             /\ v.files = w.files /\ v.issue = w.issue /\ v.key = w.key
  BY DEF Writers

LEMMA StageStep ==
  ASSUME CertInv, Stage
  PROVE  CertInv'
  <1>1. DataInv /\ WriteInv /\ TempInv /\ IdentInv /\ PairInv /\ writer # NoWrite
    BY DEF CertInv, Stage, Writing
  <1>2. /\ writer \in Writers /\ writer.staged < Len(writer.files)
        /\ writer.staged \in 0 .. 4 /\ writer.renamed \in 0 .. 4
        /\ Len(writer.files) \in 0 .. 4
        /\ writer.renamed = 0
    BY <1>1, WriterFacts DEF DataInv, Stage
  <1>3. /\ writer' = [writer EXCEPT !.staged = @ + 1] /\ temps' = temps + 1
        /\ UNCHANGED <<disk, mode, renew, dial, issued, faults, crashed, cut>>
    BY DEF Stage, proc, net, hist
  <1>4. /\ writer' \in Writers /\ writer'.staged = writer.staged + 1
        /\ writer'.renamed = writer.renamed /\ writer'.files = writer.files
        /\ writer'.issue = writer.issue /\ writer'.key = writer.key
    <2>1. writer.staged + 1 \in 0 .. 4
      BY <1>2, Succ, Zenon
    <2>2. writer' = [writer EXCEPT !.staged = writer.staged + 1]
      BY <1>3
    <2> QED BY <1>2, <2>1, <2>2, SetStaged, Zenon
  <1>5. DataInv'
    BY <1>1, <1>2, <1>3, <1>4 DEF DataInv
  <1>6. WriteInv'
    BY <1>1, <1>3, <1>4 DEF WriteInv
  <1>7. TempInv'
    BY <1>1, <1>2, <1>3, <1>4 DEF TempInv, DataInv
  <1>8. IdentInv' /\ PairInv'
    BY <1>1, <1>2, <1>3, <1>4 DEF IdentInv, PairInv
  <1> QED BY <1>5, <1>6, <1>7, <1>8 DEF CertInv

LEMMA RenameStep ==
  ASSUME CertInv, Rename
  PROVE  CertInv'
  <1>1. DataInv /\ WriteInv /\ TempInv /\ IdentInv /\ PairInv /\ writer # NoWrite
    BY DEF CertInv, Rename, Writing
  <1> DEFINE f == writer.files[writer.renamed + 1]
  <1>2. /\ writer \in Writers /\ writer.staged = Len(writer.files)
        /\ writer.renamed < writer.staged
        /\ writer.staged \in 0 .. 4 /\ writer.renamed \in 0 .. 4
        /\ writer.issue = issued /\ writer.key = issued /\ issued \in 1 .. MaxIssued
    BY <1>1, WriterFacts, CertAssumption DEF DataInv, Rename, WriteInv
  <1>3. \/ /\ mode = "enroll" /\ Len(writer.files) = 4
           /\ \/ writer.renamed = 0 /\ f = "ca"
              \/ writer.renamed = 1 /\ f = "crt"
              \/ writer.renamed = 2 /\ f = "key"
              \/ writer.renamed = 3 /\ f = "id"
        \/ /\ mode = "running" /\ Len(writer.files) \in {2, 3}
           /\ \/ writer.renamed = 0 /\ f = "crt"
              \/ writer.renamed = 1 /\ f = "key"
              \/ writer.renamed = 2 /\ f = "ca"
    <2>1. CASE mode = "enroll"
      <3>1. writer.files = EnrollFiles
        BY <1>1, <2>1 DEF WriteInv
      <3>2. writer.renamed \in {0, 1, 2, 3}
        BY <1>2, <3>1, FileLists
      <3> QED BY <2>1, <3>1, <3>2, FileLists
    <2>2. CASE mode = "running" /\ writer.files = RenewFiles(TRUE)
      <3>1. /\ Len(writer.files) = 3 /\ writer.files[1] = "crt"
            /\ writer.files[2] = "key" /\ writer.files[3] = "ca"
        BY <2>2, FileLists, Zenon
      <3>2. writer.renamed \in {0, 1, 2}
        BY <1>2, <3>1
      <3>3. 0 + 1 = 1 /\ 1 + 1 = 2 /\ 2 + 1 = 3
        OBVIOUS
      <3> QED BY <2>2, <3>1, <3>2, <3>3, Zenon
    <2>3. CASE mode = "running" /\ writer.files = RenewFiles(FALSE)
      <3>1. /\ Len(writer.files) = 2 /\ writer.files[1] = "crt"
            /\ writer.files[2] = "key"
        BY <2>3, FileLists, Zenon
      <3>2. writer.renamed \in {0, 1}
        BY <1>2, <3>1
      <3>3. 0 + 1 = 1 /\ 1 + 1 = 2
        OBVIOUS
      <3> QED BY <2>3, <3>1, <3>2, <3>3, Zenon
    <2> QED BY <1>1, <2>1, <2>2, <2>3 DEF WriteInv
  <1>4. /\ disk' = [disk EXCEPT ![f] = issued] /\ temps' = temps - 1
        /\ writer' = [writer EXCEPT !.renamed = @ + 1]
        /\ UNCHANGED <<mode, renew, dial, issued, faults, crashed, cut>>
    BY <1>2 DEF Rename, proc, net, hist
  <1>5. /\ writer' \in Writers /\ writer'.staged = writer.staged
        /\ writer'.renamed = writer.renamed + 1 /\ writer'.files = writer.files
        /\ writer'.issue = writer.issue /\ writer'.key = writer.key
    <2>1. writer.renamed + 1 \in 0 .. 4
      BY <1>2, Succ, Zenon
    <2>2. writer' = [writer EXCEPT !.renamed = writer.renamed + 1]
      BY <1>4
    <2> QED BY <1>2, <2>1, <2>2, SetRenamed, Zenon
  <1>6. /\ f \in Files /\ disk \in [Files -> -1 .. MaxIssued]
        /\ disk'[f] = issued
        /\ \A e \in Files : disk'[e] = IF e = f THEN issued ELSE disk[e]
    BY <1>1, <1>3, <1>4 DEF DataInv, Files
  <1> HIDE DEF f
  <1>7. DataInv'
    <2>1. temps' \in Nat
      BY <1>1, <1>2, <1>4 DEF DataInv, TempInv
    <2>2. disk' \in [Files -> -1 .. MaxIssued]
      BY <1>2, <1>4, <1>6
    <2>3. /\ writer'.renamed <= writer'.staged /\ writer'.staged = Len(writer'.files)
      BY <1>2, <1>5
    <2>4. writer'.staged <= Len(writer'.files)
      BY <1>2, <1>5
    <2> QED BY <1>1, <1>4, <1>5, <2>1, <2>2, <2>3, <2>4 DEF DataInv
  <1>8. WriteInv'
    <2>1. /\ mode = "enroll" => /\ writer'.renamed > 0 => disk'["ca"] = issued
                                /\ writer'.renamed > 1 => disk'["crt"] = issued
                                /\ writer'.renamed > 2 => disk'["key"] = issued
                                /\ writer'.renamed > 3 => disk'["id"] = issued
          /\ mode = "running" => /\ writer'.renamed > 0 => disk'["crt"] = issued
                                 /\ writer'.renamed > 1 => disk'["key"] = issued
      BY <1>1, <1>2, <1>3, <1>5, <1>6 DEF WriteInv, Files
    <2>2. /\ mode' = mode /\ issued' = issued /\ writer'.files = writer.files
          /\ writer'.issue = issued /\ writer'.key = issued /\ issued > 0
      BY <1>1, <1>2, <1>4, <1>5 DEF WriteInv
    <2>3. \/ mode' = "enroll" /\ writer'.files = EnrollFiles
          \/ mode' = "running" /\ writer'.files \in {RenewFiles(TRUE), RenewFiles(FALSE)}
      BY <1>1, <2>2, Zenon DEF WriteInv
    <2>4. /\ writer'.issue = issued' /\ writer'.key = issued' /\ issued' > 0
      BY <2>2
    <2>5. /\ mode' = "enroll" => /\ writer'.renamed > 0 => disk'["ca"] = issued'
                                 /\ writer'.renamed > 1 => disk'["crt"] = issued'
                                 /\ writer'.renamed > 2 => disk'["key"] = issued'
                                 /\ writer'.renamed > 3 => disk'["id"] = issued'
          /\ mode' = "running" => /\ writer'.renamed > 0 => disk'["crt"] = issued'
                                  /\ writer'.renamed > 1 => disk'["key"] = issued'
      BY <2>1, <2>2
    <2> QED BY <2>3, <2>4, <2>5 DEF WriteInv
  <1>9. TempInv'
    <2>1. temps >= writer.staged - writer.renamed
          /\ (~crashed => temps = writer.staged - writer.renamed)
      BY <1>1 DEF TempInv
    <2>2. temps \in Nat /\ writer.staged \in Nat /\ writer.renamed \in Nat
      BY <1>1, <1>2 DEF DataInv, Writers
    <2> QED BY <1>4, <1>5, <2>1, <2>2 DEF TempInv
  <1>10. IdentInv'
    <2>1. \A e \in Files : disk'[e] \in 0 .. issued
      BY <1>1, <1>2, <1>6 DEF IdentInv
    <2>2. CASE f = "id"
      <3>1. \A e \in Files : disk'[e] = issued
        BY <1>1, <1>2, <1>3, <1>6, <2>2 DEF WriteInv, Files
      <3> QED BY <1>1, <1>2, <1>3, <1>4, <1>5, <2>1, <2>2, <3>1 DEF IdentInv, Files, Absent
    <2>3. CASE f # "id"
      <3>1. disk'["id"] = disk["id"]
        BY <1>6, <2>3 DEF Files
      <3>2. disk["id"] \in 0 .. issued /\ \A e \in Files : disk[e] \in 0 .. issued
        BY <1>1 DEF IdentInv, Files
      <3>3. disk'["id"] # Absent => \A e \in Files : disk'[e] >= disk'["id"]
        BY <1>1, <1>2, <1>6, <3>1, <3>2 DEF IdentInv
      <3>4. mode' = "enroll" => disk'["id"] = Absent
        <4>1. writer.renamed # 4
          BY <1>3
        <4> QED BY <1>1, <1>4, <3>1, <4>1 DEF IdentInv
      <3> QED BY <1>1, <1>4, <2>1, <3>1, <3>3, <3>4 DEF IdentInv
    <2> QED BY <2>2, <2>3
  <1>11. PairInv'
    <2>1. CASE mode = "enroll"
      <3>1. writer.renamed < 4 /\ disk["id"] = Absent
        BY <1>1, <1>3, <2>1 DEF IdentInv
      <3>2. CASE f = "id"
        BY <1>1, <1>2, <1>3, <1>6, <2>1, <3>2 DEF WriteInv, PairInv, Files
      <3>3. CASE f # "id"
        BY <1>6, <3>1, <3>3 DEF PairInv, Files
      <3> QED BY <3>2, <3>3
    <2>2. CASE mode = "running" /\ writer.renamed = 0
      BY <1>4, <1>5, <2>2 DEF PairInv
    <2>3. CASE mode = "running" /\ writer.renamed # 0
      BY <1>1, <1>2, <1>3, <1>6, <2>3 DEF WriteInv, PairInv, Files
    <2> QED BY <1>3, <2>1, <2>2, <2>3
  <1> QED BY <1>7, <1>8, <1>9, <1>10, <1>11 DEF CertInv

\* A failed write leaves its renames on disk and takes its temp files away.
LEMMA WriteFailsStep ==
  ASSUME CertInv, WriteFails
  PROVE  CertInv'
  <1>1. DataInv /\ WriteInv /\ TempInv /\ IdentInv /\ PairInv /\ writer # NoWrite
    BY DEF CertInv, WriteFails, Writing
  <1>2. /\ writer' = NoWrite /\ UNCHANGED <<disk, issued, crashed>>
        /\ cut' = (cut \/ (mode = "running" /\ writer.renamed = 1))
        /\ faults' \in 0 .. MaxFaults
    BY <1>1, CertAssumption DEF WriteFails, WriteReturns, CutsPair, DataInv
  <1>3. temps' \in Nat /\ (~crashed => temps' = 0)
    <2>1. /\ writer.staged \in 0 .. 4 /\ writer.renamed \in 0 .. 4 /\ temps \in Nat
          /\ writer.renamed <= writer.staged
          /\ temps >= writer.staged - writer.renamed
          /\ ~crashed => temps = writer.staged - writer.renamed
      BY <1>1, WriterFacts DEF DataInv, TempInv
    <2>2. temps' = temps - (writer.staged - writer.renamed)
      BY DEF WriteFails, Cleaned
    <2> QED BY <2>1, <2>2
  <1>4. CASE mode = "enroll"
    <2>1. Exit
      BY <1>4 DEF WriteFails, WriteReturns
    <2>2. issued' \in Nat /\ issued' >= issued /\ issued' <= MaxIssued
      BY <1>1, <1>2, CertAssumption DEF DataInv
    <2>3. /\ ~crashed' => temps' = 0
          /\ cut \/ (mode = "running" /\ writer.renamed = 1) => cut'
      BY <1>2, <1>3, Zenon
    <2>4. writer' = NoWrite /\ disk' = disk /\ faults' \in 0 .. MaxFaults /\ temps' \in Nat
      BY <1>2, <1>3
    <2> QED BY <2>1, <2>2, <2>3, <2>4, ExitInv, Zenon
  <1>5. CASE mode = "running"
    <2>1. UNCHANGED <<mode, renew, dial>>
      BY <1>5 DEF WriteFails, WriteReturns, proc, net
    <2>2. DataInv'
      BY <1>1, <1>2, <1>3, <2>1, WriterFacts, NoFiles DEF DataInv
    <2>3. WriteInv'
      BY <1>2 DEF WriteInv
    <2>4. TempInv'
      BY <1>2, <1>3, WriterFacts DEF TempInv
    <2>5. IdentInv'
      BY <1>1, <1>2, <1>5, <2>1 DEF IdentInv
    <2>6. PairInv'
      BY <1>1, <1>2, <1>5 DEF PairInv
    <2> QED BY <2>2, <2>3, <2>4, <2>5, <2>6 DEF CertInv
  <1> QED BY <1>1, <1>4, <1>5 DEF WriteInv

\* A finished write has its files on disk; an enrollment goes on to the client.
LEMMA WriteDoneStep ==
  ASSUME CertInv, WriteDone
  PROVE  CertInv'
  <1>1. DataInv /\ WriteInv /\ TempInv /\ IdentInv /\ PairInv /\ writer # NoWrite
    BY DEF CertInv, WriteDone, Writing
  <1>2. /\ writer' = NoWrite /\ UNCHANGED <<disk, temps, issued, faults, crashed>>
        /\ renew' = renew /\ dial' = dial
        /\ mode' = IF mode = "enroll" THEN "client" ELSE mode
    <2>1. CASE mode = "enroll"
      BY <2>1 DEF WriteDone, WriteReturns, net
    <2>2. CASE mode # "enroll"
      BY <2>2 DEF WriteDone, WriteReturns, proc, net
    <2> QED BY <2>1, <2>2
  <1>3. /\ temps \in Nat /\ (~crashed => temps = 0)
        /\ mode = "enroll" => writer.renamed = 4
        /\ mode = "running" => writer.renamed \in {2, 3}
    <2>1. /\ writer.staged \in 0 .. 4 /\ writer.renamed \in 0 .. 4 /\ temps \in Nat
          /\ writer.renamed = Len(writer.files) /\ Len(writer.files) \in 0 .. 4
          /\ writer.renamed <= writer.staged /\ writer.staged <= Len(writer.files)
          /\ ~crashed => temps = writer.staged - writer.renamed
      BY <1>1, WriterFacts DEF DataInv, TempInv, WriteDone
    <2>2. mode = "enroll" => Len(writer.files) = 4
      BY <1>1, FileLists, Zenon DEF WriteInv
    <2>3. mode = "running" => Len(writer.files) \in {2, 3}
      <3>1. mode = "running" => writer.files \in {RenewFiles(TRUE), RenewFiles(FALSE)}
        BY <1>1 DEF WriteInv
      <3> QED BY <3>1, FileLists, Zenon
    <2> QED BY <2>1, <2>2, <2>3
  <1>4. issued > 0 /\ issued \in 0 .. MaxIssued /\ mode \in {"enroll", "running"}
    BY <1>1 DEF WriteInv, DataInv
  <1>5. /\ mode = "enroll" => \A e \in Files : disk[e] = issued
        /\ mode = "running" => disk["crt"] = disk["key"]
    BY <1>1, <1>3 DEF WriteInv, Files
  <1>6. DataInv'
    BY <1>1, <1>2, WriterFacts, NoFiles DEF DataInv
  <1>7. WriteInv'
    BY <1>2 DEF WriteInv
  <1>8. TempInv'
    BY <1>2, <1>3, WriterFacts DEF TempInv
  <1>9. IdentInv'
    <2>1. disk["id"] # Absent
      BY <1>1, <1>4, <1>5 DEF IdentInv, Files, Absent
    <2>2. mode' # "enroll" /\ renew' # "post"
      BY <1>1, <1>2 DEF IdentInv
    <2> QED BY <1>1, <1>2, <2>1, <2>2 DEF IdentInv
  <1>10. PairInv'
    BY <1>2, <1>4, <1>5 DEF PairInv, Files
  <1> QED BY <1>6, <1>7, <1>8, <1>9, <1>10 DEF CertInv

\* Both answers: a pair that does not match is not written.
LEMMA AnsweredStep ==
  ASSUME CertInv, NEW key \in {issued + 1, Bogus}, NEW withCA \in BOOLEAN,
         EnrollAnswered(key) \/ RenewAnswered(key, withCA)
  PROVE  CertInv'
  <1>1. DataInv /\ WriteInv /\ TempInv /\ IdentInv /\ PairInv
    BY DEF CertInv
  <1>2. issued \in Nat /\ issued < MaxIssued /\ MaxIssued \in Nat
    BY <1>1, CertAssumption DEF DataInv, EnrollAnswered, RenewAnswered
  <1>3. (key = Bogus) <=> ~Matching(issued + 1, key)
    BY <1>2 DEF Matching, Bogus
  <1>4. /\ writer = NoWrite
        /\ UNCHANGED <<disk, temps, faults, crashed, cut>>
        /\ mode = "enroll" => disk["id"] = Absent
    BY <1>1, WriterFacts DEF EnrollAnswered, RenewAnswered, IdentInv, Writing, hist
  <1>5. CASE EnrollAnswered(key) /\ key = Bogus
    <2>1. Exit /\ writer' = NoWrite /\ issued' = issued
      BY <1>3, <1>4, <1>5 DEF EnrollAnswered
    <2>2. /\ faults' \in 0 .. MaxFaults /\ temps' \in Nat /\ (~crashed' => temps' = 0)
          /\ writer.renamed = 0
      BY <1>1, <1>4, WriterFacts DEF DataInv, TempInv
    <2> QED BY <1>2, <1>4, <2>1, <2>2, ExitInv
  <1>6. CASE RenewAnswered(key, withCA) /\ key = Bogus
    <2>1. /\ UNCHANGED <<writer, issued, mode, dial>> /\ renew' = "idle"
      BY <1>3, <1>6 DEF RenewAnswered, net
    <2>2. DataInv'
      BY <1>1, <1>4, <2>1 DEF DataInv
    <2> QED BY <1>1, <1>4, <2>1, <2>2, StillInv DEF IdentInv
  <1>7. CASE key # Bogus
    <2> DEFINE files == IF mode = "enroll" THEN EnrollFiles ELSE RenewFiles(withCA)
    <2>1. /\ issued' = issued + 1 /\ mode' = mode /\ dial' = dial
          /\ renew' \in {renew, "idle"} /\ renew' # "post"
          /\ mode \in {"enroll", "running"}
          /\ Begin(files, issued + 1, issued + 1)
      <3>1. CASE EnrollAnswered(key)
        BY <1>1, <1>3, <1>7, <3>1 DEF EnrollAnswered, proc, net, IdentInv, Matching
      <3>2. CASE RenewAnswered(key, withCA)
        BY <1>1, <1>3, <1>7, <3>2 DEF RenewAnswered, net, IdentInv, Matching
      <3> QED BY <3>1, <3>2
    <2>2. files \in {EnrollFiles, RenewFiles(TRUE), RenewFiles(FALSE)}
      BY Zenon
    <2> HIDE DEF files
    <2>3. issued + 1 \in 1 .. MaxIssued
      BY <1>2
    <2>4. /\ writer' \in Writers /\ writer'.staged = 0 /\ writer'.renamed = 0
          /\ writer'.files = files /\ writer'.issue = issued + 1
          /\ writer'.key = issued + 1 /\ Len(files) \in Nat
      BY <2>1, <2>2, <2>3, BeginFacts, Zenon
    <2>5. DataInv'
      BY <1>1, <1>2, <1>4, <2>1, <2>4 DEF DataInv
    <2>6. WriteInv'
      <3>1. \/ mode' = "enroll" /\ writer'.files = EnrollFiles
            \/ mode' = "running" /\ writer'.files \in {RenewFiles(TRUE), RenewFiles(FALSE)}
        BY <2>1, <2>4, Zenon DEF files
      <3>2. ~(0 > 0) /\ ~(0 > 1) /\ ~(0 > 2) /\ ~(0 > 3) /\ issued + 1 > 0
        BY <1>2
      <3>3. writer'.issue = issued' /\ writer'.key = issued' /\ issued' > 0
        BY <2>1, <2>4, <3>2, Zenon
      <3> QED BY <2>4, <3>1, <3>2, <3>3, Zenon DEF WriteInv
    <2>7. TempInv'
      BY <1>1, <1>4, <2>4, WriterFacts DEF TempInv, DataInv
    <2>8. IdentInv'
      BY <1>1, <1>2, <1>4, <2>1 DEF IdentInv, DataInv
    <2>9. PairInv'
      BY <1>1, <1>4, <2>1, WriterFacts DEF PairInv
    <2> QED BY <2>5, <2>6, <2>7, <2>8, <2>9 DEF CertInv
  <1> QED BY <1>5, <1>6, <1>7

LEMMA CrashStep ==
  ASSUME CertInv, Crash
  PROVE  CertInv'
  <1>1. /\ issued' \in Nat /\ issued' >= issued /\ issued' <= MaxIssued
        /\ temps' \in Nat /\ faults' \in 0 .. MaxFaults
    BY CertAssumption DEF CertInv, DataInv, Crash
  <1>2. /\ Exit /\ writer' = NoWrite /\ disk' = disk
    BY DEF Crash
  <1>3. /\ crashed' = TRUE
        /\ cut' = (cut \/ (mode = "running" /\ writer.renamed = 1))
    BY Zenon DEF Crash, CutsPair
  <1>4. /\ ~crashed' => temps' = 0
        /\ cut \/ (mode = "running" /\ writer.renamed = 1) => cut'
    BY <1>3, Zenon
  <1> QED BY <1>1, <1>2, <1>4, ExitInv, Zenon

-----------------------------------------------------------------------------
LEMMA StepCert == CertInv /\ [Next]_vars => CertInv'
  <1> SUFFICES ASSUME CertInv, [Next]_vars PROVE CertInv'
    OBVIOUS
  <1>1. CASE UNCHANGED vars
    <2>1. UNCHANGED <<disk, temps, writer, issued, crashed, cut, mode, renew, dial, faults>>
      BY <1>1 DEF vars, proc, net, hist
    <2>2. DataInv'
      BY <2>1 DEF CertInv, DataInv
    <2> QED BY <2>1, <2>2, StillInv DEF CertInv, IdentInv
  <1>2. CASE Stage \/ Rename \/ WriteFails \/ WriteDone
    BY <1>2, StageStep, RenameStep, WriteFailsStep, WriteDoneStep
  <1>3. CASE \E key \in {issued + 1, Bogus} :
               \/ EnrollAnswered(key)
               \/ \E withCA \in BOOLEAN : RenewAnswered(key, withCA)
    <2>1. PICK key \in {issued + 1, Bogus}, withCA \in BOOLEAN :
            EnrollAnswered(key) \/ RenewAnswered(key, withCA)
      BY <1>3
    <2> QED BY <2>1, AnsweredStep
  <1>4. CASE Crash
    BY <1>4, CrashStep
  <1>5. CASE \/ Start \/ Boot \/ EnrollFails \/ NewClient \/ Check \/ RenewFails
             \/ DialStart \/ DialCA \/ DialCrt \/ DialKey
             \/ Age \/ Disconnect \/ NewToken
    BY <1>5, QuietStep
  <1> QED BY <1>1, <1>2, <1>3, <1>4, <1>5, Zenon DEF Next

\* The five flags: each step sets one to a truth value or leaves it alone.
LEMMA StepBool == BoolInv /\ [Next]_vars => BoolInv'
  <1> SUFFICES ASSUME BoolInv, [Next]_vars PROVE BoolInv'
    OBVIOUS
  <1>1. Exit => connected' \in BOOLEAN
    BY DEF Exit
  <1>2. CASE UNCHANGED vars
    BY <1>2 DEF BoolInv, vars, proc, net, hist
  <1>3. CASE Stage \/ Start \/ Check \/ RenewFails \/ DialStart \/ DialCA \/ DialCrt
    BY <1>3 DEF BoolInv, Stage, Start, Check, RenewFails, DialStart, DialCA, DialCrt,
                proc, net, hist
  <1>4. CASE Boot \/ EnrollFails \/ NewClient
    BY <1>1, <1>4 DEF BoolInv, Boot, EnrollFails, NewClient, net, hist
  <1>5. CASE Rename
    BY <1>5, Zenon DEF BoolInv, Rename, proc, net, hist
  <1>6. CASE WriteFails
    <2>1. connected' \in BOOLEAN
      BY <1>1, <1>6 DEF BoolInv, WriteFails, WriteReturns, proc, net
    <2> QED BY <1>6, <2>1, Zenon DEF BoolInv, WriteFails
  <1>7. CASE WriteDone
    <2>1. connected' \in BOOLEAN
      BY <1>1, <1>7 DEF BoolInv, WriteDone, WriteReturns, proc, net
    <2> QED BY <1>7, <2>1, Zenon DEF BoolInv, WriteDone
  <1>8. CASE \E key \in {issued + 1, Bogus} :
               \/ EnrollAnswered(key)
               \/ \E withCA \in BOOLEAN : RenewAnswered(key, withCA)
    <2>1. PICK key \in {issued + 1, Bogus}, withCA \in BOOLEAN :
            EnrollAnswered(key) \/ RenewAnswered(key, withCA)
      BY <1>8
    <2> QED BY <1>1, <2>1 DEF BoolInv, EnrollAnswered, RenewAnswered, proc, net, hist
  <1>9. CASE DialKey
    BY <1>9, Zenon DEF BoolInv, DialKey, hist
  <1>10. CASE Age \/ Disconnect \/ NewToken
    BY <1>10 DEF BoolInv, Age, Disconnect, NewToken, proc, net, hist
  <1>11. CASE Crash
    <2>1. connected' \in BOOLEAN
      BY <1>1, <1>11 DEF Crash
    <2> QED BY <1>11, <2>1, Zenon DEF BoolInv, Crash
  <1> QED BY <1>2, <1>3, <1>4, <1>5, <1>6, <1>7, <1>8, <1>9, <1>10, <1>11, Zenon
          DEF Next

LEMMA InitBool == Init => BoolInv
  BY DEF Init, BoolInv

LEMMA AlwaysCert == Spec => [](CertInv /\ BoolInv)
  BY InitCert, InitBool, StepCert, StepBool, PTL DEF Spec

\* The type invariant, for every number of credentials and faults.
THEOREM TypeCorrect == Spec => []TypeOK
  <1>1. CertInv /\ BoolInv => TypeOK
    BY TypeParts DEF CertInv
  <1> QED BY <1>1, AlwaysCert, PTL

\* Whatever crashes, fails or is answered: the pair on disk matches, except
\* inside the two renames of a renewal or after one that was cut there.
THEOREM PairCorrect == Spec => []MismatchOnlyInWindow
  <1>1. CertInv => MismatchOnlyInWindow
    <2> SUFFICES ASSUME CertInv, HasCerts, ~Matching(disk["crt"], disk["key"])
                 PROVE  cut \/ (Writing /\ CutsPair)
      BY Zenon DEF MismatchOnlyInWindow
    <2>1. disk["id"] # Absent /\ disk["crt"] # disk["key"]
      BY DEF HasCerts, Matching, Files
    <2>2. cut \/ (mode = "running" /\ writer.renamed = 1)
      BY <2>1, Zenon DEF CertInv, PairInv
    <2>3. writer.renamed = 1 => writer # NoWrite
      BY WriterFacts
    <2> QED BY <2>2, <2>3, Zenon DEF Writing, CutsPair
  <1> QED BY <1>1, AlwaysCert, PTL

\* A write that ended, well or badly, left no temp file, unless the process was
\* killed.
THEOREM TempsCorrect == Spec => []TempsCleaned
  <1>1. CertInv => TempsCleaned
    BY WriterFacts DEF CertInv, TempInv, TempsCleaned, Writing
  <1> QED BY <1>1, AlwaysCert, PTL

\* An agent that passed HasCerts has its ID, and no file is older than it.
THEOREM IdentityCorrect == Spec => []IdentityComplete
  <1>1. CertInv => IdentityComplete
    BY DEF CertInv, IdentInv, IdentityComplete
  <1> QED BY <1>1, AlwaysCert, PTL
-----------------------------------------------------------------------------
(* The discovery of the public addresses.                                  *)

\* What an agent learns of its addresses, and when, changes nothing of how its
\* credentials are renewed: with the discovery running beside it the credential
\* store takes its own steps alone, and all that is proved of it holds.
THEOREM DiscoveryKeepsStore == IPSpec => Spec
  <1>1. IPInit => Init
    BY DEF IPInit
  <1>2. [IPNext]_allVars => [Next]_vars
    <2> SUFFICES ASSUME [IPNext]_allVars PROVE [Next]_vars
      OBVIOUS
    <2>1. CASE Store
      BY <2>1 DEF Store
    <2>2. CASE Detect(Readings)
      BY <2>2 DEF Detect
    <2>3. CASE Move
      BY <2>3 DEF Move
    <2>4. CASE UNCHANGED allVars
      BY <2>4 DEF allVars
    <2> QED BY <2>1, <2>2, <2>3, <2>4 DEF IPNext
  <1> QED BY <1>1, <1>2, PTL DEF IPSpec, Spec

\* The agent that also asks for its addresses never leaves a pair of files
\* that do not match but between two renames of a renewal, or where one was cut.
THEOREM PairCorrectBesideDiscovery == IPSpec => []MismatchOnlyInWindow
  BY DiscoveryKeepsStore, PairCorrect
=============================================================================

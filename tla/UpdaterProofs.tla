---------------------------- MODULE UpdaterProofs ----------------------------
(* Theorems about Updater, for any binaries, downloads, size hints and any  *)
(* number of faults.                                                        *)
EXTENDS Updater, SequenceTheorems, TLAPS

Content == Seq(Blocks \cup {Hole})

\* The steps during which Apply has a temp file.
Holding == {"get", "copy", "verify", "chmod", "rename"}

\* What was written is what was hashed; the rest is what remains of the
\* pre-allocation.
Prefix ==
  /\ Len(digest) <= Len(tmp.data)
  /\ Len(tmp.data) <= update.size \/ Len(tmp.data) = Len(digest)
  /\ \A i \in 1 .. Len(digest) : tmp.data[i] = digest[i]

\* The inductive invariant behind TypeOK and NoTempLeft. It needs Prefix: a
\* block is written past the end of the file only right after its last one.
Kept ==
  /\ TypeOK
  /\ step # "idle" => update \in Directives
  /\ step \in {"create", "get"} => digest = <<>>
  /\ step \in {"get", "copy", "verify"} => Prefix
  /\ step \in Holding => 1 <= temps /\ temps <= crashes + 1
  /\ step \notin Holding => temps <= crashes

\* The inductive invariant behind InstalledIsVerified.
Installed ==
  /\ InstalledIsVerified
  /\ step \in {"chmod", "rename"} => tmp.data = update.sha
  /\ step = "rename" => tmp.runnable

\* No directive promises more bytes than its binary has.
HintsFit == \A size \in SizeHints, b \in Published : size <= Len(b)

-----------------------------------------------------------------------------
LEMMA PreallocatedType ==
  ASSUME NEW n \in Nat
  PROVE  Preallocated(n) \in Content /\ Len(Preallocated(n)) = n
  BY DEF Preallocated, Content

\* A block written at most one past the end lengthens the file by at most one
\* and changes no other block.
LEMMA WrittenResult ==
  ASSUME NEW data \in Content, NEW at \in Nat, at <= Len(data), NEW block \in Blocks
  PROVE  /\ Written(data, at, block) \in Content
         /\ Len(Written(data, at, block)) = IF Len(data) > at THEN Len(data) ELSE at + 1
         /\ Written(data, at, block)[at + 1] = block
         /\ \A i \in 1 .. at : Written(data, at, block)[i] = data[i]
  <1> DEFINE n == IF Len(data) > at THEN Len(data) ELSE at + 1
             w == [i \in 1 .. n |-> IF i = at + 1 THEN block ELSE data[i]]
  <1>1. Len(data) \in Nat /\ \A i \in 1 .. Len(data) : data[i] \in Blocks \cup {Hole}
    BY DEF Content
  <1>2. n \in Nat /\ at + 1 \in 1 .. n /\ \A i \in 1 .. n : i # at + 1 => i \in 1 .. Len(data)
    BY <1>1
  <1>3. \A i \in 1 .. n : w[i] \in Blocks \cup {Hole}
    BY <1>1, <1>2
  <1>4. w \in Content /\ Len(w) = n
    BY <1>2, <1>3 DEF Content
  <1>5. w[at + 1] = block /\ \A i \in 1 .. at : w[i] = data[i]
    BY <1>2
  <1>6. w = Written(data, at, block)
    BY DEF Written
  <1> QED BY <1>4, <1>5, <1>6

LEMMA DirectiveFacts ==
  ASSUME NEW u \in Directives \cup {NoUpdate}
  PROVE  u.sha \in Binaries /\ u.sha \in Seq(Blocks) /\ u.size \in Nat
  <1>1. Binaries \subseteq Seq(Blocks) /\ SizeHints \subseteq Nat
    BY UpdaterAssumption
  <1>2. CASE u \in Directives
    BY <1>1, <1>2 DEF Directives, Binaries
  <1>3. CASE u = NoUpdate
    BY <1>1, <1>3 DEF NoUpdate, Binaries
  <1> QED BY <1>2, <1>3

LEMMA InitKept == Init => Kept
  <1> SUFFICES ASSUME Init PROVE Kept
    OBVIOUS
  <1>1. Original \in Seq(Blocks)
    BY UpdaterAssumption DEF Binaries
  <1>2. Original \in Seq(Blocks \cup {Hole}) /\ <<>> \in Seq(Blocks)
        /\ <<>> \in Seq(Blocks \cup {Hole})
    BY <1>1
  <1>3. exe \in Files /\ tmp \in Files
    BY <1>2 DEF Init, Files, NoFile
  <1> QED BY <1>2, <1>3, UpdaterAssumption DEF Init, Kept, TypeOK, Steps, Holding

\* What Fail leaves behind.
LEMMA FailKept ==
  ASSUME Kept, Fail, step \in Holding \cup {"create"},
         exe' = exe, running' = running, update' = update, body' = body,
         digest' = digest, crashes' = crashes, faults' \in 0 .. MaxFaults,
         faults' >= faults
  PROVE  Kept'
  <1>1. step' = "failed" /\ tmp' = NoFile
    BY DEF Fail
  <1>2. tmp' \in Files
    BY <1>1 DEF NoFile, Files
  <1>3. temps' <= crashes' /\ temps' \in 0 .. MaxFaults + 1
    BY UpdaterAssumption DEF Fail, Kept, TypeOK, Holding
  <1>4. crashes' \in 0 .. faults'
    BY DEF Kept, TypeOK
  <1>5. update' \in Directives
    BY DEF Kept, Holding
  <1> QED BY <1>1, <1>2, <1>3, <1>4, <1>5 DEF Kept, TypeOK, Steps, Holding

LEMMA RebornKept ==
  ASSUME Kept, Reborn, exe' = exe, temps' = temps, temps <= crashes',
         faults' \in 0 .. MaxFaults, crashes' \in 0 .. faults'
  PROVE  Kept'
  <1>1. tmp' \in Files
    BY DEF Reborn, NoFile, Files
  <1>2. running' \in Seq(Blocks \cup {Hole})
    BY DEF Reborn, Kept, TypeOK, Files
  <1> QED BY <1>1, <1>2 DEF Reborn, Kept, TypeOK, Steps, Holding

LEMMA CopyBlockKept == Kept /\ CopyBlock => Kept'
  <1> SUFFICES ASSUME Kept, CopyBlock PROVE Kept'
    OBVIOUS
  <1> DEFINE at == Len(digest)
             block == Head(body)
  <1>1. /\ step = "copy" /\ step' = "copy" /\ body # <<>>
        /\ digest' = Append(digest, block) /\ body' = Tail(body)
        /\ tmp' = [tmp EXCEPT !.data = Written(tmp.data, at, block)]
        /\ exe' = exe /\ temps' = temps /\ running' = running
        /\ update' = update /\ faults' = faults /\ crashes' = crashes
    BY DEF CopyBlock, bound
  <1>2. /\ body \in Seq(Blocks) /\ digest \in Seq(Blocks) /\ tmp \in Files
        /\ update \in Directives /\ Prefix
    BY <1>1 DEF Kept, TypeOK
  <1>3. block \in Blocks /\ body' \in Seq(Blocks)
    BY <1>1, <1>2
  <1>4. /\ digest' \in Seq(Blocks) /\ Len(digest') = at + 1 /\ at \in Nat
        /\ digest'[at + 1] = block
        /\ \A i \in 1 .. at : digest'[i] = digest[i]
    BY <1>1, <1>2, <1>3
  <1>5. tmp.data \in Content /\ at <= Len(tmp.data)
    BY <1>2 DEF Files, Content, Prefix
  <1>6. tmp' \in Files /\ tmp'.data = Written(tmp.data, at, block)
    <2>1. Written(tmp.data, at, block) \in Content
      BY <1>3, <1>4, <1>5, WrittenResult
    <2> QED BY <1>1, <1>2, <2>1 DEF Files, Content
  <1>7. /\ Len(tmp'.data) = IF Len(tmp.data) > at THEN Len(tmp.data) ELSE at + 1
        /\ tmp'.data[at + 1] = block
        /\ \A i \in 1 .. at : tmp'.data[i] = tmp.data[i]
    <2> DEFINE w == Written(tmp.data, at, block)
    <2>1. /\ Len(w) = IF Len(tmp.data) > at THEN Len(tmp.data) ELSE at + 1
          /\ w[at + 1] = block
          /\ \A i \in 1 .. at : w[i] = tmp.data[i]
      BY <1>3, <1>4, <1>5, WrittenResult
    <2>2. tmp'.data = w
      BY <1>6
    <2> HIDE DEF w
    <2> QED BY <2>1, <2>2
  <1>8. Prefix'
    <2>1. Len(tmp.data) \in Nat
      BY <1>5 DEF Content
    <2>2. update.size \in Nat
      BY <1>2, DirectiveFacts
    <2>3. Len(digest') <= Len(tmp'.data)
      BY <1>4, <1>5, <1>7, <2>1
    <2>4. Len(tmp'.data) <= update'.size \/ Len(tmp'.data) = Len(digest')
      BY <1>1, <1>2, <1>4, <1>5, <1>7, <2>1, <2>2 DEF Prefix
    <2>5. ASSUME NEW i \in 1 .. Len(digest') PROVE tmp'.data[i] = digest'[i]
      <3>1. CASE i = at + 1
        BY <1>4, <1>7, <3>1
      <3>2. CASE i # at + 1
        <4>1. i \in 1 .. at
          BY <1>4, <3>2
        <4> QED BY <1>2, <1>4, <1>7, <4>1 DEF Prefix
      <3> QED BY <3>1, <3>2
    <2> QED BY <2>3, <2>4, <2>5 DEF Prefix
  <1>9. TypeOK'
    BY <1>1, <1>3, <1>4, <1>6 DEF Kept, TypeOK
  <1> QED BY <1>1, <1>2, <1>8, <1>9 DEF Kept, Holding

LEMMA KeptStep == Kept /\ [Next]_vars => Kept'
  <1> SUFFICES ASSUME Kept, [Next]_vars PROVE Kept'
    OBVIOUS
  <1>1. ASSUME NEW u \in Directives, Begin(u) PROVE Kept'
    BY <1>1 DEF Begin, Kept, TypeOK, Steps, Holding, files, bound
  <1>2. CASE CreateTemp
    <2>1. PICK data \in {Preallocated(update.size), <<>>} :
            tmp' = [data |-> data, runnable |-> FALSE]
      BY <1>2 DEF CreateTemp
    <2>2. update \in Directives /\ update.size \in Nat /\ digest = <<>>
      BY <1>2, DirectiveFacts DEF CreateTemp, Kept
    <2>3. /\ data \in Content
          /\ Len(data) <= update.size /\ 0 <= Len(data)
      <3>1. CASE data = Preallocated(update.size)
        BY <2>2, <3>1, PreallocatedType
      <3>2. CASE data = <<>>
        <4>1. <<>> \in Seq(Blocks \cup {Hole}) /\ Len(<<>>) = 0
          OBVIOUS
        <4> QED BY <2>2, <3>2, <4>1 DEF Content
      <3> QED BY <2>1, <3>1, <3>2
    <2>4. tmp' \in Files
      BY <2>1, <2>3 DEF Files, Content
    <2>5. Prefix'
      BY <1>2, <2>1, <2>2, <2>3 DEF CreateTemp, Prefix
    <2>6. step = "create" /\ step' = "get" /\ temps' = temps + 1
      BY <1>2 DEF CreateTemp
    <2>7. 1 <= temps' /\ temps' <= crashes + 1 /\ temps' \in 0 .. MaxFaults + 1
      BY <2>6, UpdaterAssumption DEF Kept, TypeOK, Holding
    <2> QED BY <1>2, <2>2, <2>4, <2>5, <2>6, <2>7
            DEF CreateTemp, Kept, TypeOK, Steps, Holding, bound
  <1>3. ASSUME NEW b \in Bodies, Get(b) PROVE Kept'
    <2>1. b \in Seq(Blocks)
      BY UpdaterAssumption
    <2> QED BY <1>3, <2>1
            DEF Get, Kept, TypeOK, Steps, Holding, Prefix, files, bound
  <1>4. CASE CopyBlock
    BY <1>4, CopyBlockKept
  <1>5. CASE CopyEnds
    BY <1>5 DEF CopyEnds, Kept, TypeOK, Steps, Holding, Prefix, files, bound
  <1>6. CASE Verify
    <2>1. CASE Verified
      BY <1>6, <2>1 DEF Verify, Kept, TypeOK, Steps, Holding, bound
    <2>2. CASE ~Verified
      <3>1. Fail /\ step \in Holding /\ faults' = faults
        BY <1>6, <2>2 DEF Verify, Holding, bound
      <3>2. faults' \in 0 .. MaxFaults /\ faults' >= faults
        BY <3>1 DEF Kept, TypeOK
      <3> QED BY <1>6, <3>1, <3>2, FailKept DEF Verify, bound
    <2> QED BY <2>1, <2>2
  <1>7. CASE Chmod
    <2>1. tmp' \in Files
      BY <1>7 DEF Chmod, Kept, TypeOK, Files
    <2> QED BY <1>7, <2>1 DEF Chmod, Kept, TypeOK, Steps, Holding, bound
  <1>8. CASE Rename
    <2>1. exe' \in Files /\ tmp' \in Files
      BY <1>8 DEF Rename, Kept, TypeOK, Files, NoFile
    <2>2. temps' <= crashes /\ temps' \in 0 .. MaxFaults + 1
      BY <1>8, UpdaterAssumption DEF Rename, Kept, TypeOK, Holding
    <2> QED BY <1>8, <2>1, <2>2 DEF Rename, Kept, TypeOK, Steps, Holding, bound
  <1>9. CASE StepFails
    <2>1. step \in Holding \cup {"create"} /\ Fail
      BY <1>9 DEF StepFails, Holding
    <2>2. faults' \in 0 .. MaxFaults /\ faults' >= faults
      BY <1>9, UpdaterAssumption DEF StepFails, Kept, TypeOK
    <2> QED BY <1>9, <2>1, <2>2, FailKept DEF StepFails
  <1>10. CASE Restart
    <2>1. step \notin Holding
      BY <1>10 DEF Restart, Holding
    <2> QED BY <1>10, <2>1, RebornKept DEF Restart, Kept, TypeOK, bound
  <1>11. CASE Crash
    <2>1. temps <= crashes'
      BY <1>11 DEF Crash, Kept, TypeOK, Holding
    <2>2. faults' \in 0 .. MaxFaults /\ crashes' \in 0 .. faults'
      BY <1>11, UpdaterAssumption DEF Crash, Kept, TypeOK
    <2> QED BY <1>11, <2>1, <2>2, RebornKept DEF Crash
  <1>12. CASE UNCHANGED vars
    BY <1>12 DEF vars, Kept, TypeOK, Prefix, files, bound
  <1> QED BY <1>1, <1>2, <1>3, <1>4, <1>5, <1>6, <1>7, <1>8, <1>9, <1>10,
             <1>11, <1>12 DEF Next

\* The types of Apply's state; and wherever an update stops it leaves no temp
\* file, a process that dies only its own.
THEOREM KeepsClean == Spec => [](TypeOK /\ NoTempLeft)
  <1>1. Kept => TypeOK /\ NoTempLeft
    BY DEF Kept, NoTempLeft, Holding
  <1> QED BY InitKept, KeptStep, <1>1, PTL DEF Spec

\* The types alone, as the runs check them.
THEOREM TypeCorrect == Spec => []TypeOK
  BY KeepsClean, PTL

-----------------------------------------------------------------------------
LEMMA InitInstalled == Init => Installed
  BY DEF Init, Installed, InstalledIsVerified, Binaries

\* Under HintsFit no pre-allocated block is left once the digest is right.
LEMMA VerifiedContent ==
  ASSUME HintsFit, Kept, step = "verify", Verified
  PROVE  tmp.data = update.sha
  <1>1. update \in Directives /\ Prefix /\ digest = update.sha
    BY DEF Kept, Verified
  <1>2. update.sha \in Published /\ update.size \in SizeHints
    BY <1>1 DEF Directives
  <1>3. update.size <= Len(update.sha) /\ update.size \in Nat
    BY <1>1, <1>2, DirectiveFacts DEF HintsFit
  <1>4. update.sha \in Content /\ tmp.data \in Content
    <2>1. update.sha \in Seq(Blocks)
      BY <1>1, DirectiveFacts
    <2>2. update.sha \in Content
      BY <2>1 DEF Content
    <2> QED BY <2>2 DEF Kept, TypeOK, Files, Content
  <1>5. Len(update.sha) \in Nat /\ Len(tmp.data) \in Nat
    BY <1>4 DEF Content
  <1>6. Len(tmp.data) = Len(update.sha)
    BY <1>1, <1>3, <1>5 DEF Prefix
  <1>7. \A i \in 1 .. Len(update.sha) : tmp.data[i] = update.sha[i]
    BY <1>1 DEF Prefix
  <1> QED BY <1>4, <1>6, <1>7, SeqEqual DEF Content

LEMMA InstalledStep ==
  ASSUME HintsFit
  PROVE  Kept /\ Installed /\ [Next]_vars => Installed'
  <1> SUFFICES ASSUME Kept, Installed, [Next]_vars PROVE Installed'
    OBVIOUS
  <1>1. ASSUME NEW u \in Directives, Begin(u) PROVE Installed'
    BY <1>1 DEF Begin, Installed, InstalledIsVerified, files
  <1>2. CASE CreateTemp
    BY <1>2 DEF CreateTemp, Installed, InstalledIsVerified
  <1>3. ASSUME NEW b \in Bodies, Get(b) PROVE Installed'
    BY <1>3 DEF Get, Installed, InstalledIsVerified, files
  <1>4. CASE CopyBlock
    BY <1>4 DEF CopyBlock, Installed, InstalledIsVerified
  <1>5. CASE CopyEnds
    BY <1>5 DEF CopyEnds, Installed, InstalledIsVerified, files
  <1>6. CASE Verify
    <2>1. CASE Verified
      BY <1>6, <2>1, VerifiedContent
         DEF Verify, Installed, InstalledIsVerified
    <2>2. CASE ~Verified
      BY <1>6, <2>2 DEF Verify, Fail, Installed, InstalledIsVerified
    <2> QED BY <2>1, <2>2
  <1>7. CASE Chmod
    <2>1. tmp' = [tmp EXCEPT !.runnable = TRUE] /\ tmp \in Files
      BY <1>7 DEF Chmod, Kept, TypeOK
    <2>2. tmp'.data = tmp.data /\ tmp'.runnable
      BY <2>1 DEF Files
    <2> QED BY <1>7, <2>2 DEF Chmod, Installed, InstalledIsVerified
  <1>8. CASE Rename
    <2>1. update.sha \in Binaries
      BY <1>8, DirectiveFacts DEF Rename, Kept
    <2> QED BY <1>8, <2>1 DEF Rename, Installed, InstalledIsVerified
  <1>9. CASE StepFails
    BY <1>9 DEF StepFails, Fail, Installed, InstalledIsVerified
  <1>10. CASE Restart
    BY <1>10 DEF Restart, Reborn, Installed, InstalledIsVerified
  <1>11. CASE Crash
    BY <1>11 DEF Crash, Reborn, Installed, InstalledIsVerified
  <1>12. CASE UNCHANGED vars
    BY <1>12 DEF vars, Installed, InstalledIsVerified, files
  <1> QED BY <1>1, <1>2, <1>3, <1>4, <1>5, <1>6, <1>7, <1>8, <1>9, <1>10,
             <1>11, <1>12 DEF Next

\* If no file_size exceeds the binary it comes with, then whatever is
\* downloaded and wherever Apply fails or the process dies, the executable is
\* the original or a published binary, whole and runnable.
THEOREM InstallCorrect ==
  ASSUME HintsFit
  PROVE  Spec => []InstalledIsVerified
  <1>1. Installed => InstalledIsVerified
    BY DEF Installed
  <1>2. Kept /\ Installed /\ [Next]_vars => Installed'
    BY InstalledStep
  <1> QED BY InitKept, KeptStep, InitInstalled, <1>1, <1>2, PTL DEF Spec
=============================================================================

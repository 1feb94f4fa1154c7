------------------------------- MODULE Updater -------------------------------
(***************************************************************************)
(* internal/updater: download a binary into a temp file next to the        *)
(* executable, compare its SHA-256, rename it into place and restart.      *)
(*                                                                         *)
(* A binary is a sequence of blocks, and its SHA-256 is the sequence       *)
(* itself: digests collide no more than sequences do. The process may die  *)
(* at any step; whatever ends it, the service manager (or exec) starts     *)
(* what the executable file then holds.                                    *)
(***************************************************************************)
EXTENDS Integers, Sequences

CONSTANTS
  Original,    \* the binary the agent was installed with
  Published,   \* the binaries the server offers
  Bodies,      \* what a download may deliver
  SizeHints,   \* the file_size a directive may carry
  Hole,        \* the content of a block nobody has written
  MaxFaults    \* bound: how often the process dies or a step of Apply fails

Binaries == {Original} \cup Published
Blocks == UNION {{b[i] : i \in DOMAIN b} : b \in Binaries \cup Bodies}

ASSUME UpdaterAssumption ==
  /\ Binaries \cup Bodies \subseteq Seq(Blocks) /\ Hole \notin Blocks
  /\ SizeHints \subseteq Nat
  /\ MaxFaults \in Nat

VARIABLES
  exe,       \* the executable file: its content, and whether it may be run
  running,   \* the content of the process's image
  step,      \* where Apply is, or idle, or failed
  update,    \* the directive Apply works on
  tmp,       \* the temp file of this Apply, or NoFile
  body,      \* what the download still has to deliver
  digest,    \* the blocks hashed so far
  temps,     \* how many temp files lie beside the executable
  faults,    \* how often the process died or a step failed
  crashes    \* how often the process died

files == <<exe, tmp, temps>>
bound == <<faults, crashes>>
vars  == <<files, running, step, update, body, digest, bound>>

Directives == [sha : Published, size : SizeHints]
NoUpdate   == [sha |-> Original, size |-> 0]
NoFile     == [data |-> <<>>, runnable |-> FALSE]

Steps == {"idle", "create", "get", "copy", "verify", "chmod", "rename",
          "restart", "failed"}

Init ==
  /\ exe = [data |-> Original, runnable |-> TRUE]
  /\ running = Original
  /\ step = "idle"
  /\ update = NoUpdate
  /\ tmp = NoFile
  /\ body = <<>> /\ digest = <<>>
  /\ temps = 0
  /\ faults = 0 /\ crashes = 0

-----------------------------------------------------------------------------
(* Apply                                                                   *)

\* Faulty: the temp file stays.
FailLeavesFile ==
  step' = "failed" /\ tmp' = NoFile /\ temps' = temps

\* Every error path from the first to the last use of the temp file closes
\* and removes it; main then exits.
Fail ==
  /\ step' = "failed"
  /\ tmp' = NoFile
  /\ temps' = IF step = "create" THEN temps ELSE temps - 1

\* main has drained the agent and calls Apply; the server offers what the
\* agent does not run.
Begin(u) ==
  /\ step = "idle"
  /\ u.sha # running
  /\ update' = u
  /\ digest' = <<>>
  /\ step' = "create"
  /\ UNCHANGED <<files, running, body, bound>>

\* Truncate, as it extends an empty file.
Preallocated(size) == [i \in 1 .. size |-> Hole]

\* os.CreateTemp; the pre-allocation is tried and its error ignored.
CreateTemp ==
  /\ step = "create"
  /\ \E data \in {Preallocated(update.size), <<>>} :
       tmp' = [data |-> data, runnable |-> FALSE]
  /\ temps' = temps + 1
  /\ step' = "get"
  /\ UNCHANGED <<exe, running, update, body, digest, bound>>

\* The server answers 200 with some body.
Get(b) ==
  /\ step = "get"
  /\ body' = b
  /\ step' = "copy"
  /\ UNCHANGED <<files, running, update, digest, bound>>

\* Write one block at the file's offset, which is what was hashed so far.
Written(data, at, block) ==
  [i \in 1 .. (IF Len(data) > at THEN Len(data) ELSE at + 1) |->
     IF i = at + 1 THEN block ELSE data[i]]

\* io.Copy into the file and the hash.
CopyBlock ==
  /\ step = "copy"
  /\ body # <<>>
  /\ tmp' = [tmp EXCEPT !.data = Written(@, Len(digest), Head(body))]
  /\ digest' = Append(digest, Head(body))
  /\ body' = Tail(body)
  /\ UNCHANGED <<exe, temps, running, step, update, bound>>

CopyEnds ==
  /\ step = "copy"
  /\ body = <<>>
  /\ step' = "verify"
  /\ UNCHANGED <<files, running, update, body, digest, bound>>

VerifiedLength == Len(digest) = Len(update.sha)   \* faulty: no digest
Verified == digest = update.sha

Verify ==
  /\ step = "verify"
  /\ IF Verified THEN step' = "chmod" /\ UNCHANGED <<tmp, temps>> ELSE Fail
  /\ UNCHANGED <<exe, running, update, body, digest, bound>>

Chmod ==
  /\ step = "chmod"
  /\ tmp' = [tmp EXCEPT !.runnable = TRUE]
  /\ step' = "rename"
  /\ UNCHANGED <<exe, temps, running, update, body, digest, bound>>

Rename ==
  /\ step = "rename"
  /\ exe' = tmp
  /\ tmp' = NoFile
  /\ temps' = temps - 1
  /\ step' = "restart"
  /\ UNCHANGED <<running, update, body, digest, bound>>

\* CreateTemp, the request, the copy, Chmod or Rename fails.
StepFails ==
  /\ step \in {"create", "get", "copy", "chmod", "rename"}
  /\ faults < MaxFaults
  /\ faults' = faults + 1
  /\ Fail
  /\ UNCHANGED <<exe, running, update, body, digest, crashes>>

\* Faulty: the image of the old process is used again.
RebornOld ==
  /\ running' = running
  /\ step' = "idle"
  /\ update' = NoUpdate
  /\ tmp' = NoFile
  /\ body' = <<>> /\ digest' = <<>>

\* The process begins anew with what the executable holds: by exec, after
\* os.Exit(0), or after main's os.Exit(1) on a failure, one of exec included.
Reborn ==
  /\ running' = exe.data
  /\ step' = "idle"
  /\ update' = NoUpdate
  /\ tmp' = NoFile
  /\ body' = <<>> /\ digest' = <<>>

Restart ==
  /\ step \in {"restart", "failed"}
  /\ Reborn
  /\ UNCHANGED <<exe, temps, bound>>

\* The process dies on its way; its temp file stays.
Crash ==
  /\ step # "idle"
  /\ faults < MaxFaults
  /\ faults' = faults + 1
  /\ crashes' = crashes + 1
  /\ Reborn
  /\ UNCHANGED <<exe, temps>>

Next ==
  \/ \E u \in Directives : Begin(u)
  \/ CreateTemp \/ CopyBlock \/ CopyEnds \/ Verify \/ Chmod \/ Rename
  \/ \E b \in Bodies : Get(b)
  \/ StepFails \/ Restart \/ Crash

Spec == Init /\ [][Next]_vars

\* Apply goes on, a process that ended is started again, the server repeats
\* its offer and, asked again and again, some time delivers what it offers.
Fairness ==
  /\ WF_vars(\E u \in Directives : Begin(u))
  /\ WF_vars(CreateTemp) /\ WF_vars(\E b \in Bodies : Get(b))
  /\ SF_vars(Get(update.sha))
  /\ WF_vars(CopyBlock) /\ WF_vars(CopyEnds) /\ WF_vars(Verify)
  /\ WF_vars(Chmod) /\ WF_vars(Rename) /\ WF_vars(Restart)

FairSpec == Spec /\ Fairness

-----------------------------------------------------------------------------
(* Properties                                                              *)

Files  == [data : Seq(Blocks \cup {Hole}), runnable : BOOLEAN]

TypeOK ==
  /\ exe \in Files /\ tmp \in Files
  /\ running \in Seq(Blocks \cup {Hole})
  /\ step \in Steps
  /\ update \in Directives \cup {NoUpdate}
  /\ body \in Seq(Blocks) /\ digest \in Seq(Blocks)
  /\ faults \in 0 .. MaxFaults /\ crashes \in 0 .. faults
  /\ temps \in 0 .. MaxFaults + 1

\* README section 5.3: the executable is replaced only by a binary whose
\* SHA-256 was checked. Whenever the process dies, what the service manager
\* finds is the original or a published binary, complete and runnable.
InstalledIsVerified == exe.runnable /\ exe.data \in Binaries

\* Wherever an update stops, it leaves no temp file beside the executable;
\* only a process that dies on its way leaves its own.
NoTempLeft == step \in {"idle", "failed", "restart"} => temps <= crashes

\* However often downloads deliver something else, steps fail and the process
\* dies, an agent whose server has another binary to offer gets to run it.
Upgrades == running = Original ~> running \in Published
=============================================================================

----------------------------- MODULE CertStore ------------------------------
(***************************************************************************)
(* internal/cert and the code of main.go that drives it: the credential    *)
(* files on disk, enrollment at the first boot, the daily renewal, and the *)
(* mTLS dials that read the files afresh each time, through crashes,       *)
(* failing writes, lost connections and restarts.                          *)
(*                                                                         *)
(* Credentials are numbered in the order the server issues them; a         *)
(* certificate and a key match when they have the same number.             *)
(***************************************************************************)
EXTENDS Integers, Sequences

CONSTANTS
  MaxIssued,  \* bound: credentials the server issues
  MaxFaults   \* bound: crashes, failed stages and renames, lost connections

ASSUME CertAssumption == MaxIssued \in Nat /\ MaxFaults \in Nat

Files  == {"ca", "crt", "key", "id"}
Absent == 0
Bogus  == -1         \* a key that matches no certificate
Issues == 1 .. MaxIssued

VARIABLES
  disk,       \* the credential in each file of the cert directory, or Absent
  temps,      \* how many staged temp files lie in the directory
  mode,       \* down, boot, enroll, client (start-up validation) or running
  writer,     \* the call of writeCredFiles in progress
  renew,      \* runCertRenewal: idle, or post while Renew waits for its answer
  dial,       \* one dial of the mTLS client, file by file
  connected,  \* a TLS connection to the server is open
  near,       \* fewer than 30 days remain to the certificate on disk
  token,      \* the provisioning token is good for an enrollment
  issued,     \* how many credentials the server has issued
  faults,     \* how many faults there were
  crashed,    \* history: one of them was a crash
  cut         \* history: the last renewal ended between its first two renames

net  == <<dial, connected>>
proc == <<mode, renew, net>>
hist == <<faults, crashed, cut>>
vars == <<disk, temps, proc, writer, near, token, issued, hist>>

\* The order in which Enroll and Renew hand their files over.
RenewFilesNoKey(withCA) ==                  \* faulty: the new key is forgotten
  IF withCA THEN <<"crt", "ca">> ELSE <<"crt">>
EnrollFiles == <<"ca", "crt", "key", "id">>
RenewFiles(withCA) == IF withCA THEN <<"crt", "key", "ca">> ELSE <<"crt", "key">>

NoWrite == [files |-> <<>>, issue |-> Absent, key |-> Absent,
            staged |-> 0, renamed |-> 0]
NoDial  == [next |-> "none", crt |-> Absent]

Writers ==
  [files : {<<>>, EnrollFiles, RenewFiles(TRUE), RenewFiles(FALSE)},
   issue : 0 .. MaxIssued, key : -1 .. MaxIssued,
   staged : 0 .. 4, renamed : 0 .. 4]

Dials == [next : {"none", "ca", "crt", "key"}, crt : 0 .. MaxIssued]

TypeOK ==
  /\ disk \in [Files -> -1 .. MaxIssued]
  /\ temps \in Nat
  /\ mode \in {"down", "boot", "enroll", "client", "running"}
  /\ writer \in Writers
  /\ writer.renamed <= writer.staged /\ writer.staged <= Len(writer.files)
  /\ writer.renamed > 0 => writer.staged = Len(writer.files)
  /\ renew \in {"idle", "post"}
  /\ dial \in Dials
  /\ {connected, near, token, crashed, cut} \subseteq BOOLEAN
  /\ issued \in 0 .. MaxIssued /\ faults \in 0 .. MaxFaults

Init ==
  /\ disk = [f \in Files |-> Absent]
  /\ temps = 0
  /\ mode = "down"
  /\ writer = NoWrite
  /\ renew = "idle"
  /\ dial = NoDial /\ connected = FALSE
  /\ near = FALSE
  /\ token = TRUE
  /\ issued = 0
  /\ faults = 0
  /\ crashed = FALSE /\ cut = FALSE

-----------------------------------------------------------------------------
(* writeCredFiles                                                          *)

Begin(files, issue, key) ==
  writer' = [files |-> files, issue |-> issue, key |-> key,
             staged |-> 0, renamed |-> 0]

Writing == writer # NoWrite

\* The process exits; the service manager starts it again.
Exit ==
  /\ mode' = "down"
  /\ renew' = "idle"
  /\ dial' = NoDial /\ connected' = FALSE

\* The files are staged one after the other ...
Stage ==
  /\ Writing
  /\ writer.staged < Len(writer.files)
  /\ writer' = [writer EXCEPT !.staged = @ + 1]
  /\ temps' = temps + 1
  /\ UNCHANGED <<disk, proc, near, token, issued, hist>>

\* ... and only then renamed into place one after the other.
Rename ==
  /\ Writing
  /\ writer.staged = Len(writer.files) /\ writer.renamed < writer.staged
  /\ LET f == writer.files[writer.renamed + 1]
     IN  /\ disk' = [disk EXCEPT ![f] = IF f = "key" THEN writer.key
                                                     ELSE writer.issue]
         /\ near' = (near /\ f # "crt")
  /\ writer' = [writer EXCEPT !.renamed = @ + 1]
  /\ temps' = temps - 1
  /\ UNCHANGED <<proc, token, issued, hist>>

\* The temp files cleanup leaves: all but those staged and not yet renamed.
CleanedNone == temps                        \* faulty: no cleanup
Cleaned     == temps - (writer.staged - writer.renamed)

\* Faulty: the error of writeCredFiles is ignored.
WriteReturnsAnyway(ok) ==
  /\ writer' = NoWrite
  /\ mode' = IF mode = "enroll" THEN "client" ELSE mode
  /\ UNCHANGED <<renew, net>>

\* What the caller does next: a failed Enroll ends the process, a failed
\* Renew is logged and tried again at the next check.
WriteReturns(ok) ==
  /\ writer' = NoWrite
  /\ IF mode # "enroll" THEN UNCHANGED proc
     ELSE IF ok THEN mode' = "client" /\ UNCHANGED <<renew, net>> ELSE Exit

\* The write stops between crt and key of a running agent.
CutsPair == mode = "running" /\ writer.renamed = 1

\* Staging or renaming a file fails: cleanup, no rollback of earlier renames.
WriteFails ==
  /\ Writing
  /\ faults < MaxFaults
  /\ writer.renamed < Len(writer.files)
  /\ faults' = faults + 1
  /\ temps' = Cleaned
  /\ cut' = (cut \/ CutsPair)
  /\ WriteReturns(FALSE)
  /\ UNCHANGED <<disk, near, token, issued, crashed>>

WriteDone ==
  /\ Writing
  /\ writer.renamed = Len(writer.files)
  /\ cut' = FALSE
  /\ WriteReturns(TRUE)
  /\ UNCHANGED <<disk, temps, near, token, issued, faults, crashed>>

-----------------------------------------------------------------------------
(* Start-up: main, HasCerts, Enroll, LoadAgentID, NewMTLSClient            *)

HasCertsNoID == \A f \in {"ca", "crt", "key"} : disk[f] # Absent   \* faulty
HasCerts     == \A f \in Files : disk[f] # Absent

\* tls.X509KeyPair accepts a certificate and a key.
Matching(crt, key) == crt = key

Start ==
  /\ mode = "down"
  /\ mode' = "boot"
  /\ UNCHANGED <<disk, temps, renew, net, writer, near, token, issued, hist>>

\* With credentials on disk, main reads the agent ID and goes on.
Boot ==
  /\ mode = "boot"
  /\ CASE ~HasCerts           -> mode' = "enroll" /\ UNCHANGED <<renew, net>>
       [] HasCerts /\ disk["id"] # Absent
                              -> mode' = "client" /\ UNCHANGED <<renew, net>>
       [] OTHER               -> Exit
  /\ UNCHANGED <<disk, temps, writer, near, token, issued, hist>>

\* The server spends the token and issues credentials; a pair that does not
\* match is refused before anything is written.
EnrollAnswered(key) ==
  /\ mode = "enroll" /\ ~Writing
  /\ token /\ issued < MaxIssued
  /\ token' = FALSE
  /\ issued' = IF key = Bogus THEN issued ELSE issued + 1
  /\ IF Matching(issued + 1, key)
       THEN Begin(EnrollFiles, issued + 1, key) /\ UNCHANGED proc
       ELSE Exit /\ UNCHANGED writer
  /\ UNCHANGED <<disk, temps, near, hist>>

\* The request fails or is refused; the server may have spent the token, or
\* there is none in the configuration.
EnrollFails ==
  /\ mode = "enroll" /\ ~Writing
  /\ token' \in {token, FALSE}
  /\ Exit
  /\ UNCHANGED <<disk, temps, writer, near, issued, hist>>

\* NewMTLSClient validates the files once.
NewClient ==
  /\ mode = "client"
  /\ IF Matching(disk["crt"], disk["key"])
       THEN mode' = "running" /\ UNCHANGED <<renew, net>>
       ELSE Exit
  /\ UNCHANGED <<disk, temps, writer, near, token, issued, hist>>

-----------------------------------------------------------------------------
(* runCertRenewal and Renew                                                *)

\* The daily check; the request goes out if the certificate is near its end.
Check ==
  /\ mode = "running" /\ renew = "idle" /\ ~Writing
  /\ near
  /\ renew' = "post"
  /\ UNCHANGED <<disk, temps, mode, net, writer, near, token, issued, hist>>

\* Faulty: the pair is written without X509KeyPair's check.
RenewUnchecked(key, withCA) ==
  /\ renew = "post" /\ connected
  /\ issued < MaxIssued
  /\ issued' = issued + 1
  /\ renew' = "idle"
  /\ Begin(RenewFiles(withCA), issued + 1, key)
  /\ UNCHANGED <<disk, temps, mode, net, near, token, hist>>

\* The request goes over a connection opened for it or left open by others.
RenewAnswered(key, withCA) ==
  /\ renew = "post" /\ connected
  /\ issued < MaxIssued
  /\ issued' = IF key = Bogus THEN issued ELSE issued + 1
  /\ renew' = "idle"
  /\ IF Matching(issued + 1, key)
       THEN Begin(RenewFiles(withCA), issued + 1, key)
       ELSE UNCHANGED writer
  /\ UNCHANGED <<disk, temps, mode, net, near, token, hist>>

\* Faulty: runCertRenewal returns on the first error.
RenewGivesUp ==
  /\ renew = "post"
  /\ renew' = "off"
  /\ UNCHANGED <<disk, temps, mode, net, writer, near, token, issued, hist>>

RenewFails ==
  /\ renew = "post"
  /\ renew' = "idle"
  /\ UNCHANGED <<disk, temps, mode, net, writer, near, token, issued, hist>>

-----------------------------------------------------------------------------
(* dialMTLS: the CA, the certificate and the key are read in that order.   *)

DialStart ==
  /\ mode = "running" /\ dial.next = "none"
  /\ dial' = [next |-> "ca", crt |-> Absent]
  /\ UNCHANGED <<disk, temps, mode, renew, connected, writer, near, token, issued, hist>>

DialCA ==
  /\ dial.next = "ca"
  /\ dial' = [dial EXCEPT !.next = "crt"]
  /\ UNCHANGED <<disk, temps, mode, renew, connected, writer, near, token, issued, hist>>

DialCrt ==
  /\ dial.next = "crt"
  /\ dial' = [dial EXCEPT !.next = "key", !.crt = disk["crt"]]
  /\ UNCHANGED <<disk, temps, mode, renew, connected, writer, near, token, issued, hist>>

\* LoadX509KeyPair reads the key, and accepts or refuses the two.
DialKey ==
  /\ dial.next = "key"
  /\ dial' = NoDial
  /\ connected' = (connected \/ Matching(dial.crt, disk["key"]))
  /\ UNCHANGED <<disk, temps, mode, renew, writer, near, token, issued, hist>>

-----------------------------------------------------------------------------
(* The environment                                                         *)

\* Time brings the certificate on disk below the threshold. The bound leaves
\* the server a credential for each write a fault may still spoil.
Age ==
  /\ ~near /\ disk["crt"] # Absent
  /\ issued + (MaxFaults - faults) < MaxIssued
  /\ near' = TRUE
  /\ UNCHANGED <<disk, temps, proc, writer, token, issued, hist>>

Disconnect ==
  /\ connected
  /\ faults < MaxFaults
  /\ faults' = faults + 1
  /\ connected' = FALSE
  /\ UNCHANGED <<disk, temps, mode, renew, dial, writer, near, token, issued,
                 crashed, cut>>

\* A crash, or the end of the process: nothing waits for runCertRenewal.
Crash ==
  /\ mode # "down"
  /\ faults < MaxFaults
  /\ faults' = faults + 1
  /\ crashed' = TRUE
  /\ cut' = (cut \/ CutsPair)
  /\ writer' = NoWrite
  /\ Exit
  /\ UNCHANGED <<disk, temps, near, token, issued>>

\* The operator configures a fresh token.
NewToken ==
  /\ ~token /\ mode = "down" /\ ~HasCerts
  /\ token' = TRUE
  /\ UNCHANGED <<disk, temps, proc, writer, near, issued, hist>>

Next ==
  \/ Stage \/ Rename \/ WriteFails \/ WriteDone
  \/ Start \/ Boot \/ EnrollFails \/ NewClient
  \/ \E key \in {issued + 1, Bogus} :
       EnrollAnswered(key) \/ \E withCA \in BOOLEAN : RenewAnswered(key, withCA)
  \/ Check \/ RenewFails
  \/ DialStart \/ DialCA \/ DialCrt \/ DialKey
  \/ Age \/ Disconnect \/ Crash \/ NewToken

Spec == Init /\ [][Next]_vars

\* The process takes its own steps (the enroll request times out after 30s), the
\* service manager restarts it, and the operator and the server, asked again and
\* again, some time do their part.
Fairness ==
  /\ WF_vars(Stage) /\ WF_vars(Rename) /\ WF_vars(WriteDone)
  /\ WF_vars(Start) /\ WF_vars(Boot) /\ WF_vars(NewClient)
  /\ WF_vars(EnrollFails) /\ WF_vars(Check)
  /\ WF_vars(DialStart) /\ WF_vars(DialCA) /\ WF_vars(DialCrt) /\ WF_vars(DialKey)
  /\ SF_vars(NewToken)
  /\ SF_vars(EnrollAnswered(issued + 1))
  /\ SF_vars(RenewAnswered(issued + 1, TRUE))

FairSpec == Spec /\ Fairness

-----------------------------------------------------------------------------
(* Safety                                                                  *)

\* The pair on disk matches, except between the first two renames of a
\* renewal and after one was stopped right there: no answer of the server
\* and no failed or crashed enrollment leaves credentials that do not work.
MismatchOnlyInWindow ==
  HasCerts /\ ~Matching(disk["crt"], disk["key"]) =>
    cut \/ (Writing /\ CutsPair)

\* Unless the process is killed, no temp file outlives its write, wherever
\* the write failed.
TempsCleaned == ~crashed /\ ~Writing => temps = 0

\* A start finds either nothing usable and enrolls, or the agent ID together
\* with the files of the enrollment that named it or of later renewals.
IdentityComplete ==
  mode \in {"client", "running"} =>
    disk["id"] # Absent /\ \A f \in Files : disk[f] >= disk["id"]

\* README section 4: the pair is checked and then installed atomically, so
\* an agent that is down can start with the credentials it has.
AlwaysBootable ==
  mode = "down" /\ HasCerts => Matching(disk["crt"], disk["key"])

-----------------------------------------------------------------------------
(* Liveness                                                                *)

\* No failed or crashed enrollment wedges the agent: with fresh tokens it
\* runs again and again, unless a renewal was cut between crt and key.
ComesUp == []<>(mode = "running" \/ cut)

\* A certificate near its end is replaced, with the same exception.
Renews == near ~> ~near \/ cut

\* An agent without a connection gets one, also when its dials read the files
\* in the middle of renewals, with the same exception.
Reconnects ==
  mode = "running" /\ ~connected ~> connected \/ cut \/ mode # "running"
=============================================================================

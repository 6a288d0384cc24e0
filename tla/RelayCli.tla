------------------------------ MODULE RelayCli ------------------------------
(***************************************************************************)
(* The tx3-relay command (crates/tx3/src/bin/tx3_relay.rs): processes that *)
(* share one configuration file.                                           *)
(*                                                                         *)
(* `tx3-relay --init` creates the file, writes a fresh certificate and key *)
(* into it and restricts its mode to 0400.  `tx3-relay` refuses a file of  *)
(* any other mode, reads it and runs a relay under the certificate in it.  *)
(* A tokio File hands write_all to a thread and returns: the bytes land    *)
(* while the process goes on, and only shutdown waits for them and reports *)
(* what became of them.                                                    *)
(*                                                                         *)
(* A process runs once.  A file is named after the process that created it *)
(* and the certificate an init generates after that init, so each is a     *)
(* member of Procs.  A process can be killed at any await, and the         *)
(* operator can delete the file at the configured path; a file that a      *)
(* process has open lives on without a path.                               *)
(*                                                                         *)
(* A definition named X_Y is X with a fault, Y, that such code could have. *)
(***************************************************************************)
EXTENDS Naturals

CONSTANTS Procs, \* runs of the command
          None   \* no process, file or certificate

ASSUME ProcsAssumption == None \notin Procs

VARIABLES
    pc,    \* where each process is
    path,  \* the file at --config
    mode,  \* of each file: "none" while it does not exist, "0400", "other"
    data,  \* what each file holds: whose certificate, and how much of it
    write, \* what became of the write_all of each process
    file,  \* the file each process has open
    conf   \* what each process read

vars == <<pc, path, mode, data, write, file, conf>>

Content == [cert : Procs \cup {None}, part : {"none", "some", "all"}]
Empty == [cert |-> None, part |-> "none"]
Holding(p, part) == [cert |-> p, part |-> part]

Init ==
    /\ pc = [p \in Procs |-> "idle"]
    /\ path = None
    /\ mode = [f \in Procs |-> "none"]
    /\ data = [f \in Procs |-> Empty]
    /\ write = [p \in Procs |-> "none"]
    /\ file = [p \in Procs |-> None]
    /\ conf = [p \in Procs |-> Empty]

Goto(p, label) == pc' = [pc EXCEPT ![p] = label]

\* The process is over, and with it the thread that was writing for it.
Exit(p, label) ==
    /\ Goto(p, label)
    /\ write' = [write EXCEPT ![p] = IF @ = "queued" THEN "lost" ELSE @]

-----------------------------------------------------------------------------
(* run_init.                                                               *)

\* create_new: the file must not exist.
CreateNew_Truncate(p) ==
    LET f == IF path = None THEN p ELSE path IN
        /\ path' = f
        /\ file' = [file EXCEPT ![p] = f]
        /\ data' = [data EXCEPT ![f] = Empty]
        /\ mode' = [mode EXCEPT ![f] = IF @ = "none" THEN "other" ELSE @]
CreateNew(p) ==
    /\ path = None
    /\ path' = p
    /\ file' = [file EXCEPT ![p] = p]
    /\ mode' = [mode EXCEPT ![p] = "other"]
    /\ UNCHANGED data

InitCreates(p) ==
    /\ pc[p] = "idle"
    /\ CreateNew(p)
    /\ Goto(p, "created")
    /\ UNCHANGED <<write, conf>>

\* gen_tls_cert_pair, then write_all: the bytes are handed to the thread.
InitWrites(p) ==
    /\ pc[p] = "created"
    /\ write' = [write EXCEPT ![p] = "queued"]
    /\ Goto(p, "written")
    /\ UNCHANGED <<path, mode, data, file, conf>>

\* metadata and set_permissions, whether or not the bytes have landed.
InitRestricts(p) ==
    /\ pc[p] = "written"
    /\ mode' = [mode EXCEPT ![file[p]] = "0400"]
    /\ Goto(p, "restricted")
    /\ UNCHANGED <<path, data, write, file, conf>>

\* shutdown: waits for the thread, and takes over its error.
Flushed_Assumed(p) == TRUE
Flushed_AnyEnd(p) == write[p] # "queued"
Flushed(p) == write[p] = "landed"
FlushFails_Unseen(p) == FALSE
FlushFails(p) == write[p] = "failed"

InitReports(p) ==
    /\ pc[p] = "restricted" /\ Flushed(p)
    /\ Exit(p, "reported")
    /\ UNCHANGED <<path, mode, data, file, conf>>

\* Any call fails: the file exists, its metadata or mode cannot be accessed,
\* or the bytes could not be written.
InitFails(p) ==
    /\ \/ pc[p] \in {"idle", "created", "written"}
       \/ pc[p] = "restricted" /\ FlushFails(p)
    /\ Exit(p, "failed")
    /\ UNCHANGED <<path, mode, data, file, conf>>

-----------------------------------------------------------------------------
(* The thread that writes for a tokio File.                                *)

LandSome(p) ==
    /\ write[p] = "queued" /\ data[file[p]].part = "none"
    /\ data' = [data EXCEPT ![file[p]] = Holding(p, "some")]
    /\ UNCHANGED <<pc, path, mode, write, file, conf>>

LandAll(p) ==
    /\ write[p] = "queued"
    /\ data' = [data EXCEPT ![file[p]] = Holding(p, "all")]
    /\ write' = [write EXCEPT ![p] = "landed"]
    /\ UNCHANGED <<pc, path, mode, file, conf>>

LandFails(p) ==
    /\ write[p] = "queued"
    /\ write' = [write EXCEPT ![p] = "failed"]
    /\ UNCHANGED <<pc, path, mode, data, file, conf>>

-----------------------------------------------------------------------------
(* read_config, and main_err after it.                                     *)

RunOpens(p) ==
    /\ pc[p] = "idle" /\ path # None
    /\ file' = [file EXCEPT ![p] = path]
    /\ Goto(p, "opened")
    /\ UNCHANGED <<path, mode, data, write, conf>>

\* The mode is that of the open file, whatever is at the path by now.
ModeAccepted(p) == mode[file[p]] = "0400"

RunChecksMode(p) ==
    /\ pc[p] = "opened"
    /\ Goto(p, IF ModeAccepted(p) THEN "checked" ELSE "refused")
    /\ UNCHANGED <<path, mode, data, write, file, conf>>

RunReads(p) ==
    /\ pc[p] = "checked"
    /\ conf' = [conf EXCEPT ![p] = data[file[p]]]
    /\ Goto(p, "read")
    /\ UNCHANGED <<path, mode, data, write, file>>

\* A cut yaml document, base64 text, certificate or key is found out by one
\* of from_str, decode and TlsConfigBuilder::build.
Parses_Prefix(c) == c.part # "none"
Parses(c) == c.part = "all"

RunParses(p) ==
    /\ pc[p] = "read"
    /\ Goto(p, IF Parses(conf[p]) THEN "parsed" ELSE "refused")
    /\ UNCHANGED <<path, mode, data, write, file, conf>>

\* Tx3Relay::new succeeds and the process pends for ever.
RunServes(p) ==
    /\ pc[p] = "parsed"
    /\ Goto(p, "serving")
    /\ UNCHANGED <<path, mode, data, write, file, conf>>

\* open, metadata, read or Tx3Relay::new fails.
RunFails(p) ==
    /\ pc[p] \in {"idle", "opened", "checked", "parsed"}
    /\ Goto(p, "failed")
    /\ UNCHANGED <<path, mode, data, write, file, conf>>

-----------------------------------------------------------------------------
(* The environment.                                                        *)

Live(p) == pc[p] \notin {"idle", "reported", "failed", "refused", "killed"}

Kill(p) ==
    /\ Live(p)
    /\ Exit(p, "killed")
    /\ UNCHANGED <<path, mode, data, file, conf>>

OperatorDeletes ==
    /\ path # None
    /\ path' = None
    /\ UNCHANGED <<pc, mode, data, write, file, conf>>

InitStep(p) ==
    \/ InitCreates(p) \/ InitWrites(p) \/ InitRestricts(p) \/ InitReports(p)
    \/ InitFails(p)
Thread(p) == LandSome(p) \/ LandAll(p) \/ LandFails(p)
RunStep(p) ==
    \/ RunOpens(p) \/ RunChecksMode(p) \/ RunReads(p) \/ RunParses(p)
    \/ RunServes(p) \/ RunFails(p)

Next ==
    \/ \E p \in Procs : InitStep(p) \/ Thread(p) \/ RunStep(p) \/ Kill(p)
    \/ OperatorDeletes

Spec == Init /\ [][Next]_vars

\* Once started, a process is scheduled, and its thread ends the write.
FairSpec ==
    /\ Spec
    /\ \A p \in Procs :
          /\ WF_vars(pc[p] # "idle" /\ (InitStep(p) \/ RunStep(p)))
          /\ WF_vars(LandAll(p) \/ LandFails(p))

-----------------------------------------------------------------------------
(* Properties.                                                             *)

\* Every variable keeps to its type; bytes are on their way into a file only
\* while the process that hands them over runs (225-259).
TypeOK ==
    /\ pc \in [Procs -> {"idle", "created", "written", "restricted", "reported",
                         "opened", "checked", "read", "parsed", "serving",
                         "refused", "failed", "killed"}]
    /\ path \in Procs \cup {None}
    /\ mode \in [Procs -> {"none", "other", "0400"}]
    /\ data \in [Procs -> Content]
    /\ write \in [Procs -> {"none", "queued", "landed", "failed", "lost"}]
    /\ file \in [Procs -> Procs \cup {None}]
    /\ conf \in [Procs -> Content]
    /\ \A p \in Procs : write[p] = "queued" => pc[p] \in {"written", "restricted"}

\* An init that reported success left a file of its own, whole and of the
\* mode a run accepts, whatever other inits, kills and failures of the write
\* there were (196-259).
Usable(f) == mode[f] = "0400" /\ data[f] = Holding(f, "all")
ReportedIsUsable ==
    \A p \in Procs : pc[p] = "reported" => file[p] = p /\ Usable(p)

\* A relay runs only under a certificate that is whole and of one init, the
\* one that created the file; so all relays that opened the same file have
\* the same identity, though they read it while it was being written and
\* though it was deleted and made again since (87-193).
Past(p) == pc[p] \in {"parsed", "serving"}
ServesWhole ==
    \A p \in Procs : Past(p) => Usable(file[p]) /\ conf[p] = data[file[p]]

\* A file that is usable, or whose init is over, stays as it is for good: no
\* second init overwrites or repairs it, no run touches it.  So what an init
\* that was killed left behind blocks the path until somebody deletes it, and
\* what a complete init left is never lost to another (15-17, 200-210).
SettledStays ==
    [][\A f \in Procs :
          mode[f] # "none" /\ (Usable(f) \/ ~Live(f))
              => mode'[f] = mode[f] /\ data'[f] = data[f]]_vars

\* Once the init that made a file has reported, no run that opens the file is
\* refused (107-127, 129-158).
ReportedIsAccepted ==
    \A p \in Procs :
        [](pc[p] = "opened" /\ pc[file[p]] = "reported" => [](pc[p] # "refused"))

\* Every command ends or serves: shutdown does not wait for ever for a write
\* that failed or was lost (254-256).
CommandsEnd ==
    \A p \in Procs : pc[p] # "idle" ~> (pc[p] = "serving" \/ ~Live(p))
=============================================================================

--------------------------- MODULE RelayCliProofs ---------------------------
(***************************************************************************)
(* Theorems about RelayCli for any number of processes: inits and runs     *)
(* that are killed, fail and race for one configuration file.              *)
(***************************************************************************)
EXTENDS RelayCli, TLAPS

Initing(p) == pc[p] \in {"created", "written", "restricted", "reported"}
Accepted(p) == pc[p] \in {"checked", "read", "parsed", "serving"}

\* Who may have which file, and what is known of it at each place.
FilesInv ==
    /\ path # None => mode[path] # "none"
    /\ \A p \in Procs :
        /\ pc[p] = "idle" => mode[p] = "none" /\ file[p] = None
        /\ Initing(p) => file[p] = p
        /\ pc[p] \in {"opened", "checked", "read", "parsed", "serving"} => file[p] # None
        /\ file[p] # None => mode[file[p]] # "none"
        /\ pc[p] \in {"restricted", "reported"} => mode[p] = "0400"
        /\ Accepted(p) => mode[file[p]] = "0400"

\* What a file holds is of its own init and, once whole, stays.
DataInv ==
    /\ \A p \in Procs :
        /\ data[p].part = "all" => data[p] = Holding(p, "all")
        /\ write[p] = "landed" => data[p].part = "all"
        /\ pc[p] = "reported" => data[p].part = "all"
        /\ pc[p] \in {"read", "parsed", "serving"} /\ conf[p].part = "all"
              => data[file[p]] = conf[p]
        /\ pc[p] \in {"parsed", "serving"} => conf[p].part = "all"

CliInv == TypeOK /\ FilesInv /\ DataInv

\* Before any process starts there is no file.
LEMMA CliInit == Init => CliInv
  BY ProcsAssumption
     DEF Init, CliInv, TypeOK, FilesInv, DataInv, Initing, Accepted, Content, Empty

\* The end of a process keeps the invariant: what it was writing is lost
\* (tx3_relay.rs, 66-85).
LEMMA ExitKeeps ==
    ASSUME CliInv, NEW p \in Procs, NEW label \in {"reported", "failed", "killed"},
           Exit(p, label), UNCHANGED <<path, mode, data, file, conf>>,
           label = "reported" => pc[p] = "restricted" /\ write[p] = "landed"
    PROVE  CliInv'
<1> USE ProcsAssumption DEF CliInv, Exit, Goto
<1>1. TypeOK'
  BY DEF TypeOK
<1>2. FilesInv'
  BY DEF TypeOK, FilesInv, Initing, Accepted
<1>3. DataInv'
  BY DEF TypeOK, FilesInv, DataInv, Initing
<1> QED
  BY <1>1, <1>2, <1>3

\* The steps of an init keep the invariant (tx3_relay.rs, 196-259).
LEMMA InitKeeps == ASSUME CliInv, NEW p \in Procs, InitStep(p) PROVE CliInv'
<1> USE ProcsAssumption DEF CliInv, Goto
<1>1. CASE InitCreates(p)
  <2>1. TypeOK'
    BY <1>1 DEF InitCreates, CreateNew, TypeOK
  <2>2. FilesInv'
    BY <1>1 DEF InitCreates, CreateNew, TypeOK, FilesInv, Initing, Accepted
  <2>3. DataInv'
    BY <1>1 DEF InitCreates, CreateNew, TypeOK, DataInv
  <2> QED
    BY <2>1, <2>2, <2>3
<1>2. CASE InitWrites(p)
  <2>1. TypeOK'
    BY <1>2 DEF InitWrites, TypeOK
  <2>2. FilesInv'
    BY <1>2 DEF InitWrites, TypeOK, FilesInv, Initing, Accepted
  <2>3. DataInv'
    BY <1>2 DEF InitWrites, TypeOK, DataInv
  <2> QED
    BY <2>1, <2>2, <2>3
<1>3. CASE InitRestricts(p)
  <2>0. file[p] = p
    BY <1>3 DEF InitRestricts, FilesInv, Initing
  <2>1. TypeOK'
    BY <1>3, <2>0 DEF InitRestricts, TypeOK
  <2>2. FilesInv'
    BY <1>3, <2>0 DEF InitRestricts, TypeOK, FilesInv, Initing, Accepted
  <2>3. DataInv'
    BY <1>3 DEF InitRestricts, TypeOK, DataInv
  <2> QED
    BY <2>1, <2>2, <2>3
<1>4. CASE InitReports(p)
  BY <1>4, ExitKeeps DEF InitReports, Flushed
<1>5. CASE InitFails(p)
  BY <1>5, ExitKeeps DEF InitFails
<1> QED
  BY <1>1, <1>2, <1>3, <1>4, <1>5 DEF InitStep

\* The thread of a file writes into the file of its own init, and a whole
\* file is only made whole again (tx3_relay.rs, 225-231).
LEMMA ThreadKeeps == ASSUME CliInv, NEW p \in Procs, Thread(p) PROVE CliInv'
<1> USE ProcsAssumption DEF CliInv
<1>0. write[p] = "queued" /\ file[p] = p
  BY DEF Thread, LandSome, LandAll, LandFails, TypeOK, FilesInv, Initing
<1>1. UNCHANGED <<pc, path, mode, file, conf>>
  BY DEF Thread, LandSome, LandAll, LandFails
<1>2. /\ write' \in {write, [write EXCEPT ![p] = "landed"], [write EXCEPT ![p] = "failed"]}
      /\ data' \in {data, [data EXCEPT ![p] = Holding(p, "some")], [data EXCEPT ![p] = Holding(p, "all")]}
      /\ write'[p] = "landed" => data' = [data EXCEPT ![p] = Holding(p, "all")]
      /\ data' = [data EXCEPT ![p] = Holding(p, "some")] => data[p].part # "all"
  <2>1. CASE LandSome(p)
    BY <1>0, <2>1 DEF LandSome, TypeOK
  <2>2. CASE LandAll(p)
    BY <1>0, <2>2 DEF LandAll, TypeOK, Holding
  <2>3. CASE LandFails(p)
    <3>1. data' = data /\ write' = [write EXCEPT ![p] = "failed"]
      BY <2>3 DEF LandFails
    <3>2. write'[p] = "failed" /\ (data' = [data EXCEPT ![p] = Holding(p, "some")] => data[p].part = "some")
      BY <3>1 DEF TypeOK, Holding
    <3> QED
      BY <3>1, <3>2
  <2> QED
    BY <2>1, <2>2, <2>3 DEF Thread
<1>3. TypeOK'
  <2>1. data' \in [Procs -> Content]
    BY <1>2 DEF TypeOK, Content, Holding
  <2> QED
    BY <1>0, <1>1, <1>2, <2>1 DEF TypeOK
<1>4. FilesInv'
  BY <1>1 DEF FilesInv, Initing, Accepted
<1>5. \A f \in Procs : data[f].part = "all" => data'[f] = data[f]
  BY <1>2 DEF DataInv, TypeOK, Content, Holding
<1>6. DataInv'
  <2>1. \A f \in Procs : data'[f].part = "all" => data'[f] = Holding(f, "all")
    BY <1>2 DEF DataInv, TypeOK, Content, Holding
  <2>2. \A f \in Procs : write'[f] = "landed" => data'[f].part = "all"
    BY <1>2, <1>5 DEF DataInv, TypeOK, Content, Holding
  <2>3. \A q \in Procs : pc[q] \in {"read", "parsed", "serving"} => file[q] \in Procs
    BY DEF TypeOK, FilesInv
  <2> QED
    BY <1>1, <1>5, <2>1, <2>2, <2>3 DEF DataInv
<1> QED
  BY <1>3, <1>4, <1>6

\* The steps of a run keep the invariant (tx3_relay.rs, 66-194).
LEMMA RunKeeps == ASSUME CliInv, NEW p \in Procs, RunStep(p) PROVE CliInv'
<1> USE ProcsAssumption DEF CliInv, Goto
<1>1. UNCHANGED <<path, mode, data, write>>
  BY DEF RunStep, RunOpens, RunChecksMode, RunReads, RunParses, RunServes, RunFails
<1>2. CASE RunOpens(p)
  BY <1>1, <1>2 DEF RunOpens, TypeOK, FilesInv, DataInv, Initing, Accepted
<1>3. CASE RunChecksMode(p)
  BY <1>1, <1>3 DEF RunChecksMode, ModeAccepted, TypeOK, FilesInv, DataInv, Initing, Accepted
<1>4. CASE RunReads(p)
  <2>0. file[p] \in Procs /\ conf'[p] = data[file[p]]
    BY <1>4 DEF RunReads, TypeOK, FilesInv
  <2>1. TypeOK'
    BY <1>1, <1>4, <2>0 DEF RunReads, TypeOK
  <2>2. FilesInv'
    BY <1>1, <1>4 DEF RunReads, TypeOK, FilesInv, Initing, Accepted
  <2>3. DataInv'
    BY <1>1, <1>4, <2>0 DEF RunReads, TypeOK, DataInv
  <2> QED
    BY <2>1, <2>2, <2>3
<1>5. CASE RunParses(p)
  BY <1>1, <1>5 DEF RunParses, Parses, TypeOK, FilesInv, DataInv, Initing, Accepted
<1>6. CASE RunServes(p)
  BY <1>1, <1>6 DEF RunServes, TypeOK, FilesInv, DataInv, Initing, Accepted
<1>7. CASE RunFails(p)
  BY <1>1, <1>7 DEF RunFails, TypeOK, FilesInv, DataInv, Initing, Accepted
<1> QED
  BY <1>2, <1>3, <1>4, <1>5, <1>6, <1>7 DEF RunStep

\* Every step keeps the invariant, a kill and a deletion too.
LEMMA CliNext == CliInv /\ [Next]_vars => CliInv'
<1> SUFFICES ASSUME CliInv, [Next]_vars PROVE CliInv'
  OBVIOUS
<1>1. ASSUME NEW p \in Procs, Kill(p) PROVE CliInv'
  BY <1>1, ExitKeeps DEF Kill
<1>2. CASE OperatorDeletes
  BY <1>2 DEF OperatorDeletes, CliInv, TypeOK, FilesInv, DataInv, Initing, Accepted
<1>3. CASE UNCHANGED vars
  BY <1>3 DEF vars, CliInv, TypeOK, FilesInv, DataInv, Initing, Accepted
<1> QED
  BY <1>1, <1>2, <1>3, InitKeeps, ThreadKeeps, RunKeeps DEF Next

\* Types, for any number of processes (tx3_relay.rs, 66-260).
THEOREM CliTypeOK == Spec => []TypeOK
  BY CliInit, CliNext, PTL DEF Spec, CliInv

\* An init that reported success left a whole file of its own that runs
\* accept (tx3_relay.rs, 196-259).
THEOREM CliReportedIsUsable == Spec => []ReportedIsUsable
<1>1. CliInv => ReportedIsUsable
  BY DEF CliInv, TypeOK, FilesInv, DataInv, Initing, ReportedIsUsable, Usable
<1> QED
  BY <1>1, CliInit, CliNext, PTL DEF Spec

\* A relay runs only under a whole certificate, of the init that created the
\* file it opened (tx3_relay.rs, 87-193).
THEOREM CliServesWhole == Spec => []ServesWhole
<1>1. CliInv => ServesWhole
  <2> SUFFICES ASSUME CliInv, NEW p \in Procs, Past(p) PROVE Usable(file[p]) /\ conf[p] = data[file[p]]
    BY DEF ServesWhole
  <2>1. file[p] \in Procs /\ mode[file[p]] = "0400"
    BY DEF CliInv, TypeOK, FilesInv, Past, Accepted
  <2>2. conf[p] = data[file[p]] /\ conf[p].part = "all"
    BY DEF CliInv, DataInv, Past
  <2> QED
    BY <2>1, <2>2 DEF CliInv, DataInv, Usable
<1> QED
  BY <1>1, CliInit, CliNext, PTL DEF Spec

\* No init overwrites and no run touches a file that is usable or whose init
\* is over (tx3_relay.rs, 200-210).
THEOREM CliSettledStays == Spec => SettledStays
<1> DEFINE Settled(f) == mode[f] # "none" /\ (Usable(f) \/ ~Live(f))
<1>1. CliInv /\ [Next]_vars =>
         [\A f \in Procs : Settled(f) => mode'[f] = mode[f] /\ data'[f] = data[f]]_vars
  <2> SUFFICES ASSUME CliInv, Next, NEW f \in Procs, Settled(f)
               PROVE  mode'[f] = mode[f] /\ data'[f] = data[f]
    OBVIOUS
  <2> USE DEF CliInv
  <2>1. ASSUME NEW p \in Procs, InitCreates(p) PROVE mode'[f] = mode[f] /\ data'[f] = data[f]
    BY <2>1 DEF InitCreates, CreateNew, FilesInv, TypeOK
  <2>2. ASSUME NEW p \in Procs, InitRestricts(p) PROVE mode'[f] = mode[f] /\ data'[f] = data[f]
    <3>1. file[p] = p /\ Live(p)
      BY <2>2 DEF InitRestricts, FilesInv, Initing, Live
    <3> QED
      BY <2>2, <3>1 DEF InitRestricts, TypeOK, Usable
  <2>3. ASSUME NEW p \in Procs, Thread(p) PROVE mode'[f] = mode[f] /\ data'[f] = data[f]
    <3>1. write[p] = "queued" /\ Live(p) /\ file[p] = p
      BY <2>3 DEF Thread, LandSome, LandAll, LandFails, FilesInv, TypeOK, Initing, Live
    <3> QED
      BY <2>3, <3>1 DEF Thread, LandSome, LandAll, LandFails, TypeOK, Usable, Holding
  <2>4. ASSUME UNCHANGED <<mode, data>> PROVE mode'[f] = mode[f] /\ data'[f] = data[f]
    BY <2>4
  <2> QED
    BY <2>1, <2>2, <2>3, <2>4
       DEF Next, InitStep, InitWrites, InitReports, InitFails, RunStep, RunOpens,
           RunChecksMode, RunReads, RunParses, RunServes, RunFails, Kill, OperatorDeletes
<1> QED
  BY <1>1, CliInit, CliNext, PTL DEF Spec, SettledStays

\* A run that opened the file of an init that had reported.
Trusting(p) ==
    /\ file[p] \in Procs /\ pc[file[p]] = "reported"
    /\ pc[p] \in {"opened", "checked", "read", "parsed", "serving", "failed", "killed"}
    /\ pc[p] = "read" => conf[p].part = "all"

\* What such a run is allowed to do does not end: the init is over, and its
\* file is whole and has the mode that is accepted.
LEMMA TrustingKept ==
    ASSUME CliInv, [Next]_vars, NEW p \in Procs, Trusting(p)
    PROVE  Trusting(p)'
<1> USE DEF CliInv, Goto
<1>1. mode[file[p]] = "0400" /\ data[file[p]].part = "all"
  BY DEF Trusting, FilesInv, DataInv, Initing
<1>2. ASSUME NEW q \in Procs, InitStep(q) \/ Kill(q) PROVE Trusting(p)'
  BY <1>1, <1>2 DEF Trusting, TypeOK, InitStep, InitCreates, CreateNew, InitWrites, InitRestricts,
                    InitReports, InitFails, Kill, Exit, Live
<1>3. ASSUME NEW q \in Procs, Thread(q) PROVE Trusting(p)'
  BY <1>3 DEF Trusting, Thread, LandSome, LandAll, LandFails
<1>4. ASSUME NEW q \in Procs, RunStep(q) PROVE Trusting(p)'
  BY <1>1, <1>4 DEF Trusting, TypeOK, RunStep, RunOpens, RunChecksMode, ModeAccepted, RunReads,
                    RunParses, Parses, RunServes, RunFails
<1>5. CASE OperatorDeletes \/ UNCHANGED vars
  BY <1>5 DEF Trusting, OperatorDeletes, vars
<1> QED
  BY <1>2, <1>3, <1>4, <1>5 DEF Next

\* Once the init that made a file has reported, no run that opens the file is
\* refused, however long it takes (tx3_relay.rs, 107-158).
THEOREM CliReportedIsAccepted == Spec => ReportedIsAccepted
<1>1. CliInv /\ [Next]_vars => CliInv'
  BY CliNext
<1>2. ASSUME NEW p \in Procs
      PROVE  Spec => [](pc[p] = "opened" /\ pc[file[p]] = "reported" => [](pc[p] # "refused"))
  <2>1. CliInv /\ pc[p] = "opened" /\ pc[file[p]] = "reported" => Trusting(p)
    BY DEF CliInv, TypeOK, FilesInv, Trusting
  <2>2. CliInv /\ [Next]_vars /\ Trusting(p) => Trusting(p)'
    BY TrustingKept
  <2>3. Trusting(p) => pc[p] # "refused"
    BY DEF Trusting
  <2> QED
    BY <1>1, <2>1, <2>2, <2>3, CliInit, PTL DEF Spec
<1> QED
  BY <1>2 DEF ReportedIsAccepted
=============================================================================

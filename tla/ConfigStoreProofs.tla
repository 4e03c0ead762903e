-------------------------- MODULE ConfigStoreProofs ----------------------------
(***************************************************************************)
(* Proofs about ConfigStore, for any number of processes, blocks and       *)
(* configurations and any set of faults.                                   *)
(***************************************************************************)
EXTENDS ConfigStore, TLAPS

(* Without config.xml and config.xml.bak /tmp/etc is well typed, and an    *)
(* archive is not a hole in a file.                                        *)
LEMMA EtcType ==
    /\ NoEtc \in Etc
    /\ \A e \in Etc : e # Hole /\ e.xml \in Contents /\ e.bak \in Nat
    /\ \A c \in Contents, n \in Nat : [xml |-> c, bak |-> n] \in Etc
BY StoreAssumption DEF NoEtc, Etc, Contents

(* The state of a process that does nothing is well typed.                 *)
LEMMA IdleType ==
    Idle \in States
BY EtcType, StoreAssumption DEF Idle, Pcs, States, Jobs

(* Starting rc.save_config keeps the types.                                *)
LEMMA BeginType ==
    ASSUME TypeOK, NEW p \in Procs, NEW pc \in Pcs,
           NEW job \in Jobs,
           Begin(p, job, pc)
    PROVE  /\ st' \in [Procs -> States]
           /\ mixed' \in BOOLEAN /\ jobs' \in 0..MaxJobs
<1>1. [Idle EXCEPT !.pc = pc, !.job = job] \in States
  BY IdleType DEF Idle, States
<1>2. mixed' \in BOOLEAN
  BY Zenon DEF Begin
<1>3. jobs' \in 0..MaxJobs
  BY StoreAssumption DEF TypeOK, Begin
<1> QED BY <1>1, <1>2, <1>3 DEF TypeOK, Begin

(* Removing a temporary file keeps the type of the open files.             *)
LEMMA KeptType ==
    ASSUME TypeOK, NEW name
    PROVE  Kept(name) \in [Procs -> [Block -> Etc \cup {Hole}]]
BY DEF TypeOK, Kept, Empty

(* Ending rc.save_config keeps the types.                                  *)
LEMMA ExitType ==
    ASSUME TypeOK, NEW p \in Procs, NEW s \in Nat, Exit(p, s)
    PROVE  /\ st' \in [Procs -> States]
           /\ rebooting' \in BOOLEAN
BY IdleType DEF TypeOK, Exit

(* After the first boot the types hold.                                    *)
LEMMA StoreTypeInit == Init => TypeOK
<1> SUFFICES ASSUME Init PROVE TypeOK
  OBVIOUS
<1> USE StoreAssumption
<1>1. NoEtc \in Etc
  BY EtcType
<1>2. st \in [Procs -> States]
  BY IdleType DEF Init
<1>3. flash \in [Block -> Etc \cup {Hole}]
  BY <1>1 DEF Init, AllOf
<1>4. file \in [Procs -> [Block -> Etc \cup {Hole}]]
  BY DEF Init, Empty
<1>5. lines \in 0..MaxLines /\ jobs \in 0..MaxJobs
  BY DEF Init
<1> QED BY <1>1, <1>2, <1>3, <1>4, <1>5, Zenon DEF Init, TypeOK

(* Every step keeps the types.                                             *)
LEMMA StoreTypeStep == TypeOK /\ OpenInv /\ [Next]_vars => TypeOK'
<1> SUFFICES ASSUME TypeOK, OpenInv, [Next]_vars PROVE TypeOK'
  OBVIOUS
<1> USE StoreAssumption
<1>h. Httpd \in Procs /\ Others \subseteq Procs
  BY DEF Procs
<1>c. Configs \subseteq Contents /\ NoFile \in Contents /\ Partial \in Contents
  BY DEF Contents
<1>m. /\ \A c \in Contents : [mem EXCEPT !.xml = c] \in Etc
      /\ \A n \in Nat : [mem EXCEPT !.bak = n] \in Etc
      /\ mem.xml \in Contents /\ Size \in [Contents -> Nat]
  BY DEF TypeOK, Etc
<1>z. 0 \in 0..Blocks /\ 0 \in 0..MaxLines /\ 0 \in 0..MaxJobs
  OBVIOUS
<1>1. ASSUME NEW c \in Configs, Edit(c) PROVE TypeOK'
  BY <1>1 DEF TypeOK, Edit
<1>2. CASE SaveConfig
  <2>1. "file" \in Pcs /\ "save" \in Jobs
    BY DEF Pcs, Jobs
  <2>2. st' \in [Procs -> States] /\ mixed' \in BOOLEAN
        /\ jobs' \in 0..MaxJobs
    BY <1>2, <1>h, <2>1, BeginType DEF SaveConfig
  <2> QED BY <1>2, <2>2, <1>c, <1>m DEF TypeOK, SaveConfig
<1>3. CASE SaveFile
  <2>1. [st[Httpd] EXCEPT !.pc = "start"] \in States
    BY <1>h DEF TypeOK, States, Pcs
  <2>2. mem' \in Etc
    <3>1. tree \in Contents /\ Size[tree] \in Nat
      BY <1>c, <1>m DEF TypeOK
    <3> QED BY <1>3, <1>m, <3>1 DEF TypeOK, SaveFile
  <2> QED BY <1>3, <1>h, <2>1, <2>2 DEF TypeOK, SaveFile
<1>13. CASE SaveFileFails
  <2>1. [st[Httpd] EXCEPT !.pc = "start"] \in States
    BY <1>h DEF TypeOK, States, Pcs
  <2> QED BY <1>13, <1>h, <2>1, IdleType DEF TypeOK, SaveFileFails
<1>4. CASE EventRestore
  <2>1. "start" \in Pcs /\ "event" \in Jobs
    BY DEF Pcs, Jobs
  <2>2. st' \in [Procs -> States] /\ mixed' \in BOOLEAN
        /\ jobs' \in 0..MaxJobs
    BY <1>4, <1>h, <2>1, BeginType DEF EventRestore
  <2> QED BY <1>4, <2>2, <1>c, <1>m DEF TypeOK, EventRestore, RmConfig
<1>5. CASE RebootCmd
  BY <1>5 DEF TypeOK, RebootCmd
<1>6. ASSUME NEW S \in SUBSET Others, RestoreConfig(S) PROVE TypeOK'
  <2>1. [Idle EXCEPT !.pc = "sleep", !.job = "restore"]
          \in States
    BY IdleType DEF Pcs, Jobs, States, Idle
  <2> QED BY <1>6, <2>1 DEF TypeOK, RestoreConfig
<1>7. ASSUME NEW p \in Others, Wake(p) PROVE TypeOK'
  <2>1. "start" \in Pcs /\ "restore" \in Jobs /\ p \in Procs
    BY <1>h DEF Pcs, Jobs
  <2>2. st' \in [Procs -> States] /\ mixed' \in BOOLEAN
        /\ jobs' \in 0..MaxJobs
    BY <1>7, <2>1, BeginType DEF Wake
  <2> QED BY <1>7, <2>2, <1>c, <1>m DEF TypeOK, Wake, RmConfig
<1>8. ASSUME NEW p \in Others, NEW job \in {"restore", "wds"}, Press(p, job)
      PROVE TypeOK'
  <2>1. "start" \in Pcs /\ job \in Jobs /\ p \in Procs
    BY <1>h DEF Pcs, Jobs
  <2>2. st' \in [Procs -> States] /\ mixed' \in BOOLEAN
        /\ jobs' \in 0..MaxJobs
    BY <1>8, <2>1, BeginType DEF Press
  <2>3. mem' \in Etc
    <3>1. [xml |-> NoFile, bak |-> Size[mem.xml]] \in Etc
      BY <1>c, <1>m, EtcType
    <3> QED BY <1>8, <3>1 DEF TypeOK, Press, MvConfig
  <2> QED BY <1>8, <2>2, <2>3 DEF TypeOK, Press
<1>9. ASSUME NEW p \in Procs, SaveStep(p) PROVE TypeOK'
  <2>1. CASE NoPartition(p)
    BY <2>1, ExitType DEF TypeOK, NoPartition
  <2>2. ASSUME NEW f \in Procs, TarOpen(p, f) PROVE TypeOK'
    <3>1. [st[p] EXCEPT !.pc = "tar", !.n = 0, !.fd = f, !.tag = mem] \in States
      BY <1>c, <1>z DEF TypeOK, States, Pcs
    <3> QED BY <2>2, <3>1 DEF TypeOK, TarOpen, Empty
  <2>3. CASE TarBlock(p)
    <3>1. st[p].n + 1 \in Block /\ st[p].n + 1 \in 0..Blocks
      BY <2>3 DEF TypeOK, States, TarBlock, Block
    <3>2. file' \in [Procs -> [Block -> Etc \cup {Hole}]]
      BY <2>3, <3>1 DEF TypeOK, States, TarBlock
    <3>3. [st[p] EXCEPT !.n = st[p].n + 1] \in States
      BY <3>1 DEF TypeOK, States
    <3> QED BY <2>3, <3>2, <3>3 DEF TypeOK, TarBlock
  <2>4. CASE TarEnd(p)
    <3>1. [st[p] EXCEPT !.pc = "check", !.n = 0, !.fd = NoFile, !.tag = NoEtc]
            \in States
      BY EtcType, <1>z DEF TypeOK, States, Pcs
    <3> QED BY <2>4, <3>1 DEF TypeOK, TarEnd
  <2>5. CASE CheckFails(p)
    BY <2>5, ExitType, KeptType DEF TypeOK, CheckFails
  <2>6. CASE DdOpen(p)
    <3>1. [st[p] EXCEPT !.pc = IF temp = NoFile THEN "rm" ELSE "dd",
                        !.fd = temp] \in States
      BY DEF TypeOK, States, Pcs
    <3> QED BY <2>6, <3>1 DEF TypeOK, DdOpen
  <2>7. CASE DdBlock(p)
    <3>1. st[p].n + 1 \in Block /\ st[p].n + 1 \in 0..Blocks
      <4>1. PICK k \in Block : k > st[p].n
        BY <2>7 DEF DdBlock, AtEof
      <4>2. st[p].n \in 0..Blocks
        BY DEF TypeOK, States
      <4> QED BY <4>1, <4>2 DEF Block
    <3>2. flash' \in [Block -> Etc \cup {Hole}]
      <4>1. st[p].fd \in Procs
        BY <2>7 DEF DdBlock, OpenInv, TypeOK, States
      <4> QED BY <2>7, <3>1, <4>1 DEF TypeOK, DdBlock
    <3>3. [st[p] EXCEPT !.n = st[p].n + 1] \in States
      BY <3>1 DEF TypeOK, States
    <3> QED BY <2>7, <3>2, <3>3 DEF TypeOK, DdBlock
  <2>8. CASE DdEnd(p)
    <3>1. [st[p] EXCEPT !.pc = "rm", !.n = 0, !.fd = NoFile] \in States
      BY <1>z DEF TypeOK, States, Pcs
    <3> QED BY <2>8, <3>1, KeptType DEF TypeOK, DdEnd
  <2>9. CASE Remove(p)
    BY <2>9, ExitType, KeptType DEF TypeOK, Remove
  <2> QED BY <1>9, <2>1, <2>2, <2>3, <2>4, <2>5, <2>6, <2>7, <2>8, <2>9
          DEF SaveStep
<1>10. CASE Down
  <2>1. st' \in [Procs -> States]
    BY <1>10, IdleType DEF Down
  <2>2. file' \in [Procs -> [Block -> Etc \cup {Hole}]]
    BY <1>10 DEF Down, Empty
  <2>3. lines' \in 0..MaxLines /\ jobs' \in 0..MaxJobs
    BY <1>10, <1>z DEF Down
  <2> QED BY <1>10, EtcType, <2>1, <2>2, <2>3, Zenon DEF TypeOK, Down
<1>11. CASE Boot
  <2>1. mem' \in Etc
    <3>1. 1 \in Block
      BY DEF Block
    <3>2. flash[1] \in Etc \cup {Hole}
      BY <3>1 DEF TypeOK
    <3>3. ASSUME NEW e \in Etc PROVE Damaged(e) \subseteq Etc
      BY <1>c, <1>m, EtcType DEF Damaged, Etc
    <3>4. Restored \subseteq Etc
      BY <3>2, <3>3, EtcType DEF Restored, Whole
    <3> QED BY <1>11, <3>4 DEF Boot
  <2>2. [st[Httpd] EXCEPT !.pc = IF mem'.xml \in Odd \cup {Partial}
                                   THEN "dead" ELSE "idle"] \in States
    BY <1>h DEF TypeOK, States, Pcs
  <2> QED BY <1>11, <2>1, <2>2, <1>h DEF TypeOK, Boot
<1>12. CASE UNCHANGED vars
  BY <1>12 DEF TypeOK, vars
<1> QED
  BY <1>1, <1>2, <1>3, <1>4, <1>5, <1>6, <1>7, <1>8, <1>9, <1>10, <1>11, <1>12,
     <1>13
  DEF Next, Reboot, PowerLoss

-------------------------------------------------------------------------------
(* Nothing runs while the system is down, and tar and dd have a file open. *)
LEMMA DownOpenStep ==
    TypeOK /\ DownInv /\ OpenInv /\ [Next]_vars => DownInv' /\ OpenInv'
<1> SUFFICES ASSUME TypeOK, DownInv, OpenInv, [Next]_vars
             PROVE  DownInv' /\ OpenInv'
  OBVIOUS
<1> USE StoreAssumption DEF DownInv, OpenInv
<1>b. ASSUME NEW p \in Procs, NEW job, NEW pc \in {"file", "start"},
             Begin(p, job, pc), part' = part
      PROVE  OpenInv'
  BY <1>b DEF Begin, Idle, TypeOK
<1>e. ASSUME NEW p \in Procs, NEW s, Exit(p, s), part' = part
      PROVE  OpenInv'
  BY <1>e DEF Exit, Idle, TypeOK
<1>h. Httpd \in Procs /\ Others \subseteq Procs
  BY DEF Procs
<1>1. ASSUME NEW c \in Configs, Edit(c) PROVE DownInv' /\ OpenInv'
  BY <1>1 DEF Edit, HttpdReady
<1>2. CASE SaveConfig
  BY <1>2, <1>b, <1>h DEF SaveConfig, HttpdReady
<1>3. CASE SaveFile
  BY <1>3, <1>h DEF SaveFile, TypeOK, States
<1>13. CASE SaveFileFails
  BY <1>13, <1>h DEF SaveFileFails, TypeOK, States, Idle
<1>4. CASE EventRestore
  BY <1>4, <1>b, <1>h DEF EventRestore, HttpdReady
<1>5. CASE RebootCmd
  BY <1>5 DEF RebootCmd, HttpdReady
<1>6. ASSUME NEW S \in SUBSET Others, RestoreConfig(S)
      PROVE DownInv' /\ OpenInv'
  BY <1>6 DEF RestoreConfig, HttpdReady, Idle
<1>7. ASSUME NEW p \in Others, Wake(p) PROVE DownInv' /\ OpenInv'
  BY <1>7, <1>b, <1>h DEF Wake
<1>8. ASSUME NEW p \in Others, NEW job \in {"restore", "wds"}, Press(p, job)
      PROVE DownInv' /\ OpenInv'
  BY <1>8, <1>b, <1>h DEF Press
<1>9. ASSUME NEW p \in Procs, SaveStep(p) PROVE DownInv' /\ OpenInv'
  <2>1. CASE NoPartition(p)
    BY <2>1, <1>e DEF NoPartition
  <2>2. ASSUME NEW f \in Procs, TarOpen(p, f) PROVE DownInv' /\ OpenInv'
    BY <2>2 DEF TarOpen, TypeOK, States
  <2>3. CASE TarBlock(p)
    BY <2>3 DEF TarBlock, TypeOK, States
  <2>4. CASE TarEnd(p)
    BY <2>4 DEF TarEnd, TypeOK, States
  <2>5. CASE CheckFails(p)
    BY <2>5, <1>e DEF CheckFails
  <2>6. CASE DdOpen(p)
    BY <2>6 DEF DdOpen, TypeOK, States
  <2>7. CASE DdBlock(p)
    BY <2>7 DEF DdBlock, TypeOK, States
  <2>8. CASE DdEnd(p)
    BY <2>8 DEF DdEnd, TypeOK, States
  <2>9. CASE Remove(p)
    BY <2>9, <1>e DEF Remove
  <2> QED BY <1>9, <2>1, <2>2, <2>3, <2>4, <2>5, <2>6, <2>7, <2>8, <2>9
          DEF SaveStep
<1>10. CASE Down
  BY <1>10 DEF Down, Idle
<1>11. CASE Boot
  BY <1>11, <1>h DEF Boot, TypeOK, States
<1>12. CASE UNCHANGED vars
  BY <1>12 DEF vars
<1> QED
  BY <1>1, <1>2, <1>3, <1>4, <1>5, <1>6, <1>7, <1>8, <1>9, <1>10, <1>11, <1>12,
     <1>13
  DEF Next, Reboot, PowerLoss

-------------------------------------------------------------------------------
(* A job that has just begun is alone, or mixed says so.                   *)
LEMMA BeginLone ==
    ASSUME TypeOK, NEW p \in Procs, NEW job \in Jobs,
           NEW pc \in {"file", "start"}, Begin(p, job, pc), LoneInv,
           pc = "file" => p = Httpd /\ job = "save" /\ mem'.xml = Partial,
           pc = "start" => job # "save",
           job \in {"restore", "event"} => mem'.xml = NoFile
    PROVE  LoneInv'
<1> SUFFICES ASSUME ~mixed'
             PROVE  /\ \A q, r \in Procs : Working(q)' /\ Working(r)' => q = r
                    /\ \A q \in Procs : JobInv(q)' /\ Carries(q, mem)'
  BY DEF LoneInv
<1>1. \A q \in Procs : q # p => ~Working(q)
  BY DEF Begin
<1>2. st' = [st EXCEPT ![p] = [Idle EXCEPT !.pc = pc, !.job = job]]
  BY DEF Begin
<1>3. \A q \in Procs : q # p => st'[q] = st[q] /\ ~Working(q)'
  BY <1>1, <1>2 DEF Working, TypeOK
<1>4. st'[p].pc = pc /\ st'[p].job = job
  BY <1>2 DEF Idle, TypeOK
<1>5. ASSUME NEW q \in Procs PROVE JobInv(q)' /\ Carries(q, mem)'
  <2>1. CASE q = p
    BY <2>1, <1>4 DEF JobInv, Carries
  <2>2. CASE q # p
    <3>1. st'[q].pc \in {"idle", "sleep", "dead"}
      BY <2>2, <1>3 DEF Working
    <3> QED BY <3>1 DEF JobInv, Carries
  <2> QED BY <2>1, <2>2
<1> QED BY <1>3, <1>5

(* A job that ends leaves nothing to say about it.                         *)
LEMMA ExitLone ==
    ASSUME TypeOK, NEW p \in Procs, NEW s, Exit(p, s), LoneInv, Working(p),
           UNCHANGED <<mixed, mem, tree>>
    PROVE  LoneInv'
<1> SUFFICES ASSUME ~mixed'
             PROVE  /\ \A q, r \in Procs : Working(q)' /\ Working(r)' => q = r
                    /\ \A q \in Procs : JobInv(q)' /\ Carries(q, mem)'
  BY DEF LoneInv
<1>1. \A q \in Procs : q # p => ~Working(q)
  BY DEF LoneInv
<1>2. \A q \in Procs : ~Working(q)'
  BY <1>1 DEF Exit, Working, TypeOK, Idle
<1>3. ASSUME NEW q \in Procs PROVE JobInv(q)' /\ Carries(q, mem)'
  <2>1. st'[q].pc \in {"idle", "sleep", "dead"}
    BY <1>2 DEF Working
  <2> QED BY <2>1 DEF JobInv, Carries
<1> QED BY <1>2, <1>3

(* A step of a job that is alone: only its own state has to be looked at.  *)
LEMMA OwnLone ==
    ASSUME TypeOK, NEW p \in Procs, NEW s, st' = [st EXCEPT ![p] = s],
           LoneInv, Working(p), mixed' \in BOOLEAN, ~mixed' => ~mixed,
           ~mixed' => JobInv(p)' /\ Carries(p, mem)'
    PROVE  LoneInv'
<1> SUFFICES ASSUME ~mixed'
             PROVE  /\ \A q, r \in Procs : Working(q)' /\ Working(r)' => q = r
                    /\ \A q \in Procs : JobInv(q)' /\ Carries(q, mem)'
  BY DEF LoneInv
<1>1. \A q \in Procs : q # p => ~Working(q)
  BY DEF LoneInv
<1>2. \A q \in Procs : q # p => ~Working(q)'
  BY <1>1 DEF Working, TypeOK
<1>3. ASSUME NEW q \in Procs, q # p PROVE JobInv(q)' /\ Carries(q, mem)'
  <2>1. st'[q].pc \in {"idle", "sleep", "dead"}
    BY <1>2, <1>3 DEF Working
  <2> QED BY <2>1 DEF JobInv, Carries
<1> QED BY <1>2, <1>3

(* dd at the end of an archive of c has written c everywhere.              *)
LEMMA LoneWritten ==
    ASSUME TypeOK, NEW p \in Procs, st[p].pc = "dd", Carries(p, mem), AtEof(p)
    PROVE  flash = AllOf(mem)
<1>1. /\ file[st[p].fd] = AllOf(mem)
      /\ \A k \in Block : k <= st[p].n => flash[k] = mem
  BY DEF Carries
<1>2. mem # Hole
  BY EtcType DEF TypeOK
<1>3. \A k \in Block : ~(k > st[p].n)
  BY <1>1, <1>2 DEF AtEof, AllOf
<1>4. \A k \in Block : k <= st[p].n
  BY <1>3 DEF TypeOK, States, Block
<1>5. flash \in [Block -> Etc \cup {Hole}]
  BY DEF TypeOK
<1> QED BY <1>1, <1>4, <1>5 DEF AllOf

(* What a job that is alone carries is what it writes.                     *)
LEMMA LoneStep ==
    TypeOK /\ OpenInv /\ DownInv /\ LoneInv /\ [Next]_vars => LoneInv'
<1> SUFFICES ASSUME TypeOK, OpenInv, DownInv, LoneInv, [Next]_vars
             PROVE  LoneInv'
  OBVIOUS
<1> USE StoreAssumption
<1>h. Httpd \in Procs /\ Others \subseteq Procs
  BY DEF Procs
<1>m. \A c : [mem EXCEPT !.xml = c].xml = c
  BY DEF TypeOK, Etc
<1>1. ASSUME NEW c \in Configs, Edit(c) PROVE LoneInv'
  <2>1. ~mixed => ~Working(Httpd)
    BY <1>1 DEF Edit, HttpdReady, Working
  <2> QED BY <1>1, <2>1
          DEF Edit, HttpdReady, LoneInv, Working, JobInv, Carries
<1>2. CASE SaveConfig
  <2>1. "save" \in Jobs
    BY DEF Jobs
  <2>2. mem'.xml = Partial
    BY <1>2, <1>m DEF SaveConfig
  <2> QED BY <1>2, <1>h, <2>1, <2>2, BeginLone DEF SaveConfig
<1>3. CASE SaveFile
  <2>1. Working(Httpd) /\ st[Httpd].pc = "file"
    BY <1>3 DEF SaveFile, Working
  <2>2. ~mixed => st[Httpd].job = "save" /\ mem'.xml = tree
    <3>1. ~mixed => st[Httpd].job = "save" /\ mem.xml = Partial
      BY <2>1, <1>h DEF LoneInv, JobInv
    <3> QED BY <1>3, <1>m, <3>1 DEF SaveFile
  <2>3. st'[Httpd].pc = "start" /\ st'[Httpd].job = st[Httpd].job
    BY <1>3, <1>h DEF SaveFile, TypeOK, States
  <2>4. ~mixed' => JobInv(Httpd)' /\ Carries(Httpd, mem)'
    BY <1>3, <2>2, <2>3 DEF SaveFile, JobInv, Carries
  <2>5. st' = [st EXCEPT ![Httpd] = [st[Httpd] EXCEPT !.pc = "start"]]
    BY <1>3, <1>h DEF SaveFile, TypeOK
  <2>6. mixed' = mixed /\ mixed' \in BOOLEAN
    BY <1>3 DEF SaveFile, TypeOK
  <2> QED BY <1>h, <2>1, <2>4, <2>5, <2>6, OwnLone
<1>13. CASE SaveFileFails
  <2>1. Working(Httpd) /\ mixed \in BOOLEAN
    BY <1>13 DEF SaveFileFails, Working, TypeOK
  <2>2. CASE mixed' = TRUE
    BY <2>2 DEF LoneInv
  <2>3. CASE st' = [st EXCEPT ![Httpd] = Idle] /\ mixed' = mixed
    <3>1. st'[Httpd].pc = "idle"
      BY <2>3, <1>h DEF TypeOK, Idle
    <3>2. JobInv(Httpd)' /\ Carries(Httpd, mem)'
      BY <3>1 DEF JobInv, Carries
    <3> QED BY <2>1, <2>3, <3>2, <1>h, OwnLone
  <2> QED BY <1>13, <2>2, <2>3 DEF SaveFileFails
<1>4. CASE EventRestore
  <2>1. "event" \in Jobs /\ mem'.xml = NoFile
    BY <1>4, <1>m DEF Jobs, EventRestore, RmConfig
  <2> QED BY <1>4, <1>h, <2>1, BeginLone DEF EventRestore
<1>5. CASE RebootCmd
  BY <1>5 DEF RebootCmd, LoneInv, Working, JobInv, Carries
<1>6. ASSUME NEW S \in SUBSET Others, RestoreConfig(S) PROVE LoneInv'
  <2> SUFFICES ASSUME ~mixed'
               PROVE  /\ \A q, r \in Procs : Working(q)' /\ Working(r)' => q = r
                      /\ \A q \in Procs : JobInv(q)' /\ Carries(q, mem)'
    BY DEF LoneInv
  <2>1. \A q \in Procs : st'[q] = st[q]
                         \/ (~Working(q)' /\ st'[q].pc = "sleep")
    BY <1>6 DEF RestoreConfig, Working, Idle
  <2>2. /\ ~mixed /\ mem' = mem /\ tree' = tree /\ file' = file /\ temp' = temp
        /\ flash' = flash
    BY <1>6 DEF RestoreConfig
  <2>3. \A q \in Procs : Working(q)' => Working(q)
    BY <2>1 DEF Working
  <2>4. ASSUME NEW q \in Procs PROVE JobInv(q)' /\ Carries(q, mem)'
    <3>1. CASE st'[q] = st[q]
      <4>1. JobInv(q) /\ Carries(q, mem)
        BY <2>2 DEF LoneInv
      <4> QED BY <4>1, <3>1, <2>2 DEF JobInv, Carries
    <3>2. CASE st'[q].pc = "sleep"
      BY <3>2 DEF JobInv, Carries
    <3> QED BY <2>1, <3>1, <3>2
  <2> QED BY <2>2, <2>3, <2>4 DEF LoneInv
<1>7. ASSUME NEW p \in Others, Wake(p) PROVE LoneInv'
  <2>1. "restore" \in Jobs /\ mem'.xml = NoFile
    BY <1>7, <1>m DEF Jobs, Wake, RmConfig
  <2> QED BY <1>7, <1>h, <2>1, BeginLone DEF Wake
<1>8. ASSUME NEW p \in Others, NEW job \in {"restore", "wds"}, Press(p, job)
      PROVE LoneInv'
  <2>1. job \in Jobs /\ p \in Procs
    BY <1>h DEF Jobs
  <2>2. job = "restore" => mem'.xml = NoFile
    BY <1>8 DEF Press, MvConfig
  <2> QED BY <1>8, <2>1, <2>2, BeginLone DEF Press
<1>9. ASSUME NEW p \in Procs, SaveStep(p) PROVE LoneInv'
  <2>s. st[p] \in States /\ mixed \in BOOLEAN
    BY DEF TypeOK
  <2>l. ~mixed => JobInv(p) /\ Carries(p, mem)
    BY DEF LoneInv
  <2>1. CASE NoPartition(p)
    BY <2>1, ExitLone DEF NoPartition, Working
  <2>2. ASSUME NEW f \in Procs, TarOpen(p, f) PROVE LoneInv'
    <3> DEFINE s == [st[p] EXCEPT !.pc = "tar", !.n = 0, !.fd = f, !.tag = mem]
    <3>1. st' = [st EXCEPT ![p] = s] /\ st'[p] = s
      BY <2>2 DEF TarOpen, TypeOK
    <3>2. s.pc = "tar" /\ s.n = 0 /\ s.fd = f /\ s.tag = mem
          /\ s.job = st[p].job
      BY <2>s DEF States
    <3>3. temp' = f /\ file'[f] = Empty /\ f # NoFile
      BY <2>2 DEF TarOpen, TypeOK
    <3>4. mem' = mem /\ tree' = tree /\ mixed' = mixed /\ st[p].pc = "start"
      BY <2>2 DEF TarOpen
    <3>5. ~mixed' => JobInv(p)'
      BY <2>l, <3>1, <3>2, <3>4 DEF JobInv
    <3>6. Carries(p, mem)'
      BY <3>1, <3>2, <3>3, <3>4 DEF Carries, Empty, Block
    <3>7. Working(p)
      BY <3>4 DEF Working
    <3> HIDE DEF s
    <3> QED BY <2>s, <3>1, <3>4, <3>5, <3>6, <3>7, OwnLone
  <2>3. CASE TarBlock(p)
    <3> DEFINE k == st[p].n + 1
               s == [st[p] EXCEPT !.n = k]
    <3>1. st' = [st EXCEPT ![p] = s] /\ st'[p] = s
      BY <2>3 DEF TarBlock, TypeOK
    <3>2. s.pc = "tar" /\ s.n = k /\ s.fd = st[p].fd /\ s.tag = st[p].tag
          /\ s.job = st[p].job /\ st[p].pc = "tar"
      BY <2>s, <2>3 DEF States, TarBlock
    <3>3. /\ mem' = mem /\ tree' = tree /\ mixed' = mixed /\ temp' = temp
          /\ file' = [file EXCEPT ![st[p].fd][k] = st[p].tag]
      BY <2>3 DEF TarBlock
    <3>4. ~mixed' => JobInv(p)'
      BY <2>l, <3>1, <3>2, <3>3 DEF JobInv
    <3>5. ASSUME ~mixed PROVE Carries(p, mem)'
      <4>1. /\ st[p].fd = temp /\ temp # NoFile /\ st[p].tag = mem
            /\ \A j \in Block :
                 file[st[p].fd][j] = IF j <= st[p].n THEN mem ELSE Hole
        BY <2>l, <3>2, <3>5 DEF Carries
      <4>2. st[p].fd \in Procs /\ k \in Block /\ st[p].n \in Nat
        BY <2>s, <4>1, <2>3 DEF States, TarBlock, Block
      <4>3. \A j \in Block : file'[st[p].fd][j] =
                               IF j = k THEN mem ELSE file[st[p].fd][j]
        BY <3>3, <4>1, <4>2 DEF TypeOK
      <4>4. \A j \in Block : file'[st[p].fd][j] =
                               IF j <= k THEN mem ELSE Hole
        BY <4>1, <4>2, <4>3 DEF Block
      <4> HIDE DEF s, k
      <4> QED BY <4>1, <4>4, <3>1, <3>2, <3>3 DEF Carries
    <3>6. Working(p)
      BY <3>2 DEF Working
    <3> HIDE DEF s
    <3> QED BY <2>s, <3>1, <3>3, <3>4, <3>5, <3>6, OwnLone
  <2>4. CASE TarEnd(p)
    <3> DEFINE s == [st[p] EXCEPT !.pc = "check", !.n = 0, !.fd = NoFile,
                                  !.tag = NoEtc]
    <3>1. st' = [st EXCEPT ![p] = s] /\ st'[p] = s
      BY <2>4 DEF TarEnd, TypeOK
    <3>2. s.pc = "check" /\ s.n = 0 /\ s.job = st[p].job /\ st[p].pc = "tar"
      BY <2>s, <2>4 DEF States, TarEnd
    <3>3. /\ mem' = mem /\ tree' = tree /\ temp' = temp /\ file' = file
          /\ mixed' = (mixed \/ st[p].n < Blocks)
      BY <2>4 DEF TarEnd
    <3>4. ~mixed' => JobInv(p)'
      BY <2>l, <3>1, <3>2, <3>3 DEF JobInv
    <3>5. ASSUME ~mixed' PROVE Carries(p, mem)'
      <4>1. /\ st[p].fd = temp /\ temp # NoFile
            /\ \A j \in Block :
                 file[temp][j] = IF j <= st[p].n THEN mem ELSE Hole
        BY <2>l, <3>2, <3>3, <3>5 DEF Carries
      <4>a. ~(st[p].n < Blocks)
        BY <3>3, <3>5, Zenon
      <4>2. \A j \in Block : j <= st[p].n
        BY <2>s, <4>a DEF States, Block
      <4>3. file[temp] \in [Block -> Etc \cup {Hole}]
        BY <4>1 DEF TypeOK
      <4>4. file[temp] = AllOf(mem)
        BY <4>1, <4>2, <4>3 DEF AllOf
      <4> HIDE DEF s
      <4> QED BY <4>1, <4>4, <3>1, <3>2, <3>3 DEF Carries
    <3>6. Working(p)
      BY <3>2 DEF Working
    <3>7. mixed' \in BOOLEAN /\ (~mixed' => ~mixed)
      BY <3>3, Zenon
    <3> HIDE DEF s
    <3> QED BY <3>1, <3>4, <3>5, <3>6, <3>7, OwnLone
  <2>5. CASE CheckFails(p)
    BY <2>5, ExitLone DEF CheckFails, Working
  <2>6. CASE DdOpen(p)
    <3> DEFINE s == [st[p] EXCEPT !.pc = IF temp = NoFile THEN "rm" ELSE "dd",
                                  !.fd = temp]
    <3>1. st' = [st EXCEPT ![p] = s] /\ st'[p] = s
      BY <2>6 DEF DdOpen, TypeOK
    <3>2. s.pc = (IF temp = NoFile THEN "rm" ELSE "dd") /\ s.job = st[p].job
          /\ s.fd = temp /\ s.n = st[p].n /\ st[p].pc = "check"
      BY <2>s, <2>6 DEF States, DdOpen
    <3>3. mem' = mem /\ tree' = tree /\ mixed' = mixed /\ file' = file
          /\ flash' = flash /\ temp' = temp
      BY <2>6 DEF DdOpen
    <3>4. ~mixed' => JobInv(p)'
      BY <2>l, <3>1, <3>2, <3>3 DEF JobInv
    <3>5. ASSUME ~mixed PROVE Carries(p, mem)'
      <4>1. temp # NoFile /\ file[temp] = AllOf(mem) /\ st[p].n = 0
        BY <2>l, <3>2, <3>5 DEF Carries
      <4> HIDE DEF s
      <4> QED BY <4>1, <3>1, <3>2, <3>3 DEF Carries, Block
    <3>6. Working(p)
      BY <3>2 DEF Working
    <3> HIDE DEF s
    <3> QED BY <2>s, <3>1, <3>3, <3>4, <3>5, <3>6, OwnLone
  <2>7. CASE DdBlock(p)
    <3> DEFINE k == st[p].n + 1
               s == [st[p] EXCEPT !.n = k]
    <3>1. st' = [st EXCEPT ![p] = s] /\ st'[p] = s
      BY <2>7 DEF DdBlock, TypeOK
    <3>2. s.pc = "dd" /\ s.n = k /\ s.fd = st[p].fd
          /\ s.job = st[p].job /\ st[p].pc = "dd"
      BY <2>s, <2>7 DEF States, DdBlock
    <3>3. /\ mem' = mem /\ tree' = tree /\ mixed' = mixed /\ file' = file
          /\ flash' = [flash EXCEPT ![k] = file[st[p].fd][k]]
      BY <2>7 DEF DdBlock
    <3>4. ~mixed' => JobInv(p)'
      BY <2>l, <3>1, <3>2, <3>3 DEF JobInv
    <3>5. ASSUME ~mixed PROVE Carries(p, mem)'
      <4>1. /\ st[p].fd # NoFile /\ file[st[p].fd] = AllOf(mem)
            /\ \A j \in Block : j <= st[p].n => flash[j] = mem
        BY <2>l, <3>2, <3>5 DEF Carries
      <4>2. PICK j \in Block : j > st[p].n
        BY <2>7 DEF DdBlock, AtEof
      <4>3. k \in Block /\ st[p].n \in Nat
        BY <2>s, <4>2 DEF States, Block
      <4>4. \A i \in Block : i <= k => flash'[i] = mem
        BY <3>3, <4>1, <4>3 DEF TypeOK, AllOf, Block
      <4> HIDE DEF s, k
      <4> QED BY <4>1, <4>4, <3>1, <3>2, <3>3 DEF Carries
    <3>6. Working(p)
      BY <3>2 DEF Working
    <3> HIDE DEF s
    <3> QED BY <2>s, <3>1, <3>3, <3>4, <3>5, <3>6, OwnLone
  <2>8. CASE DdEnd(p)
    <3> DEFINE s == [st[p] EXCEPT !.pc = "rm", !.n = 0, !.fd = NoFile]
    <3>1. st' = [st EXCEPT ![p] = s] /\ st'[p] = s
      BY <2>8 DEF DdEnd, TypeOK
    <3>2. s.pc = "rm" /\ s.job = st[p].job /\ st[p].pc = "dd"
      BY <2>s, <2>8 DEF States, DdEnd
    <3>3. /\ mem' = mem /\ tree' = tree /\ flash' = flash
          /\ mixed' = (mixed \/ ~AtEof(p) \/ file[st[p].fd][1].xml = Partial)
      BY <2>8 DEF DdEnd
    <3>4. mixed' \in BOOLEAN /\ (~mixed' => ~mixed /\ AtEof(p))
      BY <3>3, Zenon
    <3>5. ~mixed' => JobInv(p)'
      BY <2>l, <3>1, <3>2, <3>3, <3>4 DEF JobInv
    <3>6. ASSUME ~mixed' PROVE Carries(p, mem)'
      <4>1. flash = AllOf(mem)
        BY <2>l, <2>s, <3>2, <3>4, <3>6, LoneWritten
      <4> HIDE DEF s
      <4> QED BY <4>1, <3>1, <3>2, <3>3 DEF Carries
    <3>7. Working(p)
      BY <3>2 DEF Working
    <3> HIDE DEF s
    <3> QED BY <3>1, <3>4, <3>5, <3>6, <3>7, OwnLone
  <2>9. CASE Remove(p)
    BY <2>9, ExitLone DEF Remove, Working
  <2> QED BY <1>9, <2>1, <2>2, <2>3, <2>4, <2>5, <2>6, <2>7, <2>8, <2>9
          DEF SaveStep
<1>10. CASE Down
  BY <1>10 DEF Down, LoneInv, Working, JobInv, Carries, Idle
<1>11. CASE Boot
  <2>1. \A q \in Procs : st'[q].pc \in {"idle", "dead"}
    BY <1>11, <1>h DEF Boot, DownInv, Idle, TypeOK
  <2> QED BY <2>1 DEF LoneInv, Working, JobInv, Carries
<1>12. CASE UNCHANGED vars
  BY <1>12 DEF vars, LoneInv, Working, JobInv, Carries
<1> QED
  BY <1>1, <1>2, <1>3, <1>4, <1>5, <1>6, <1>7, <1>8, <1>9, <1>10, <1>11, <1>12,
     <1>13
  DEF Next, Reboot, PowerLoss

-------------------------------------------------------------------------------
(* A step that writes nothing, spoils nothing and stops no dd.             *)
LEMMA QuietStep ==
    ASSUME FlashWhole, flash' = flash, spoiled' = spoiled,
           \A p \in Procs : Writing(p) => Writing(p)'
    PROVE  FlashWhole'
BY DEF FlashWhole, Whole

(* Every step keeps the partition whole, unless it is spoiled.             *)
LEMMA FlashStep ==
    /\ TypeOK /\ OpenInv /\ DownInv /\ LoneInv /\ FlashWhole /\ [Next]_vars
    => FlashWhole'
<1> SUFFICES ASSUME TypeOK, OpenInv, DownInv, LoneInv, FlashWhole, [Next]_vars
             PROVE  FlashWhole'
  OBVIOUS
<1> USE StoreAssumption
<1>h. Httpd \in Procs /\ Others \subseteq Procs
  BY DEF Procs
<1>b. ASSUME NEW p \in Procs, NEW job, NEW pc, Begin(p, job, pc),
             st[p].pc # "dd"
      PROVE  \A q \in Procs : Writing(q) => Writing(q)'
  BY <1>b DEF Begin, Writing, TypeOK
<1>e. ASSUME NEW p \in Procs, NEW s, Exit(p, s), st[p].pc # "dd"
      PROVE  \A q \in Procs : Writing(q) => Writing(q)'
  BY <1>e DEF Exit, Writing, TypeOK
<1>o. ASSUME NEW p \in Procs, NEW s, st' = [st EXCEPT ![p] = s],
             st[p].pc # "dd"
      PROVE  \A q \in Procs : Writing(q) => Writing(q)'
  BY <1>o DEF Writing, TypeOK
<1>1. ASSUME NEW c \in Configs, Edit(c) PROVE FlashWhole'
  BY <1>1, QuietStep DEF Edit, Writing
<1>2. CASE SaveConfig
  BY <1>2, <1>b, <1>h, QuietStep DEF SaveConfig, HttpdReady
<1>3. CASE SaveFile
  BY <1>3, <1>h, QuietStep DEF SaveFile, Writing, TypeOK, States
<1>13. CASE SaveFileFails
  BY <1>13, <1>h, <1>o, QuietStep DEF SaveFileFails, Writing, TypeOK, States
<1>4. CASE EventRestore
  BY <1>4, <1>b, <1>h, QuietStep DEF EventRestore, HttpdReady
<1>5. CASE RebootCmd
  BY <1>5, QuietStep DEF RebootCmd, Writing
<1>6. ASSUME NEW S \in SUBSET Others, RestoreConfig(S) PROVE FlashWhole'
  BY <1>6, QuietStep DEF RestoreConfig, Writing
<1>7. ASSUME NEW p \in Others, Wake(p) PROVE FlashWhole'
  BY <1>7, <1>b, <1>h, QuietStep DEF Wake
<1>8. ASSUME NEW p \in Others, NEW job \in {"restore", "wds"}, Press(p, job)
      PROVE FlashWhole'
  BY <1>8, <1>b, <1>h, QuietStep DEF Press
<1>9. ASSUME NEW p \in Procs, SaveStep(p) PROVE FlashWhole'
  <2>1. CASE NoPartition(p)
    BY <2>1, <1>e, QuietStep DEF NoPartition
  <2>2. ASSUME NEW f \in Procs, TarOpen(p, f) PROVE FlashWhole'
    BY <2>2, <1>o, QuietStep DEF TarOpen
  <2>3. CASE TarBlock(p)
    <3>1. st' = [st EXCEPT ![p] = [st[p] EXCEPT !.n = st[p].n + 1]]
      BY <2>3 DEF TarBlock, TypeOK
    <3> QED BY <2>3, <3>1, <1>o, QuietStep DEF TarBlock
  <2>4. CASE TarEnd(p)
    BY <2>4, <1>o, QuietStep DEF TarEnd
  <2>5. CASE CheckFails(p)
    BY <2>5, <1>e, QuietStep DEF CheckFails
  <2>6. CASE DdOpen(p)
    BY <2>6, <1>o, QuietStep DEF DdOpen
  <2>7. CASE DdBlock(p)
    <3>1. Writing(p)'
      BY <2>7 DEF DdBlock, Writing, TypeOK, States
    <3> QED BY <3>1 DEF FlashWhole
  <2>8. CASE DdEnd(p)
    <3> SUFFICES ASSUME ~spoiled' PROVE Whole' /\ flash'[1].xml # Partial
      BY DEF FlashWhole
    <3>1. spoiled' = (mixed \/ ~AtEof(p) \/ file[st[p].fd][1].xml = Partial)
      BY <2>8 DEF DdEnd
    <3>2. ~mixed /\ AtEof(p) /\ file[st[p].fd][1].xml # Partial
      BY <3>1, Zenon
    <3>3. st[p].pc = "dd" /\ flash' = flash
      BY <2>8 DEF DdEnd
    <3>4. Carries(p, mem)
      BY <3>2 DEF LoneInv
    <3>5. flash = AllOf(mem)
      BY <3>2, <3>3, <3>4, LoneWritten
    <3>6. file[st[p].fd] = AllOf(mem) /\ 1 \in Block
      BY <3>3, <3>4 DEF Carries, Block
    <3>7. mem.xml # Partial /\ mem # Hole
      BY <3>2, <3>6, EtcType DEF AllOf, TypeOK
    <3>8. flash[1] = mem
      BY <3>5, <3>6 DEF AllOf
    <3> QED BY <3>3, <3>5, <3>7, <3>8 DEF Whole
  <2>9. CASE Remove(p)
    BY <2>9, <1>e, QuietStep DEF Remove
  <2> QED BY <1>9, <2>1, <2>2, <2>3, <2>4, <2>5, <2>6, <2>7, <2>8, <2>9
          DEF SaveStep
<1>10. CASE Down
  <2>1. ASSUME ~spoiled' PROVE ~spoiled /\ \A p \in Procs : ~Writing(p)
    BY <1>10, <2>1, Zenon DEF Down
  <2> QED BY <1>10, <2>1 DEF Down, FlashWhole, Whole
<1>11. CASE Boot
  <2>1. \A p \in Procs : ~Writing(p)
    BY <1>11 DEF Boot, DownInv, Idle, Writing
  <2> QED BY <1>11, <2>1, QuietStep DEF Boot
<1>12. CASE UNCHANGED vars
  BY <1>12, QuietStep DEF vars, Writing
<1> QED
  BY <1>1, <1>2, <1>3, <1>4, <1>5, <1>6, <1>7, <1>8, <1>9, <1>10, <1>11, <1>12,
     <1>13
  DEF Next, Reboot, PowerLoss

-------------------------------------------------------------------------------
(* The whole of the inductive invariant: types, what is open, what a job   *)
(* that runs alone carries, and the state of the partition.                *)
THEOREM StoreInvariance == Spec => []StoreInv
<1>1. Init => StoreInv
  <2> SUFFICES ASSUME Init PROVE StoreInv
    OBVIOUS
  <2>1. \A p \in Procs : st[p] = Idle
    BY DEF Init
  <2>2. DownInv /\ OpenInv
    BY <2>1 DEF Init, DownInv, OpenInv, Idle
  <2>3. LoneInv
    BY <2>1 DEF LoneInv, Working, JobInv, Carries, Idle
  <2>4. FlashWhole
    <3>1. flash = AllOf(NoEtc) /\ flash[1] = NoEtc
      BY StoreAssumption DEF Init, AllOf, Block
    <3> QED BY <3>1, EtcType, StoreAssumption DEF FlashWhole, Whole, NoEtc
  <2> QED BY <2>2, <2>3, <2>4, StoreTypeInit DEF StoreInv
<1>2. StoreInv /\ [Next]_vars => StoreInv'
  BY StoreTypeStep, DownOpenStep, LoneStep, FlashStep DEF StoreInv
<1> QED BY <1>1, <1>2, PTL DEF Spec

(* Type correctness of /etc, the partition and every rc.save_config.       *)
THEOREM StoreTypeCorrect == Spec => []TypeOK
<1>1. StoreInv => TypeOK
  BY DEF StoreInv
<1> QED BY <1>1, StoreInvariance, PTL

(* Whatever is saved, restored, rebooted or cut off in whatever order, and *)
(* whatever fails: unless spoiled records one of the known causes, the     *)
(* partition holds one whole configuration (rc.save_config).               *)
THEOREM FlashStaysWhole == Spec => []FlashWhole
<1>1. StoreInv => FlashWhole
  BY DEF StoreInv
<1> QED BY <1>1, StoreInvariance, PTL

(* The next boot unpacks the archive of which every block is there.        *)
LEMMA LoneRestored ==
    ASSUME TypeOK, NEW e \in Etc, flash = AllOf(e), part
    PROVE  Restored = {e}
<1>1. flash[1] = e /\ e # Hole
  BY StoreAssumption, EtcType DEF AllOf, Block
<1> QED BY <1>1 DEF Restored, Whole

(* The answer "Configuration saved successful" (cmd.xml) is true of a job  *)
(* that ran alone and whose tar and dd succeeded.                          *)
THEOREM SavedAnswerTrue == Spec => []SavedIsStored
<1>1. StoreInv => SavedIsStored
  <2>1. Httpd \in Procs
    BY DEF Procs
  <2> SUFFICES ASSUME StoreInv, st[Httpd].pc = "rm", st[Httpd].job = "save",
                      ~mixed
               PROVE  \A e \in Restored : e.xml = tree
    BY DEF SavedIsStored
  <2>2. mem.xml = tree /\ flash = AllOf(mem)
    BY <2>1 DEF StoreInv, LoneInv, JobInv, Carries
  <2>3. part /\ TypeOK /\ mem \in Etc
    BY <2>1 DEF StoreInv, OpenInv, TypeOK
  <2> QED BY <2>2, <2>3, LoneRestored
<1> QED BY <1>1, StoreInvariance, PTL

(* A restore that ran alone has put the defaults into the partition when   *)
(* it comes to its reboot, unless config.xml.bak makes the archive too big *)
(* (cmd.xml, event.xml, devd.lua:153, rc.save_config).                     *)
THEOREM RestoreLeavesDefaults == Spec => RestoreIsStored
<1> DEFINE A(p) == /\ st[p].job \in {"restore", "event"} /\ Working(p)
                   /\ up' /\ ~Working(p)' /\ ~mixed
                   => TooBig(mem) \/ \A e \in Restored : e.xml = NoFile
<1>1. StoreInv /\ [Next]_vars => [\A p \in Procs : A(p)]_vars
  <2> SUFFICES ASSUME StoreInv, Next, NEW p \in Procs,
                      st[p].job \in {"restore", "event"}, Working(p),
                      up', ~Working(p)', ~mixed
               PROVE  TooBig(mem) \/ \A e \in Restored : e.xml = NoFile
    OBVIOUS
  <2> USE StoreAssumption
  <2>h. Httpd \in Procs /\ Others \subseteq Procs
    BY DEF Procs
  <2>0. TypeOK /\ JobInv(p) /\ Carries(p, mem) /\ mem \in Etc /\ up
    BY DEF StoreInv, LoneInv, TypeOK, DownInv, Working, Idle
  <2>1. mem.xml = NoFile
    BY <2>0 DEF JobInv, Working, TypeOK, States, Pcs
  <2>w. st[p].pc # "file" /\ st[p].pc \notin {"idle", "sleep", "dead"}
    BY <2>0 DEF JobInv, Working
  <2>o. ASSUME NEW q \in Procs, q # p PROVE ~Working(q)
    BY <2>o DEF StoreInv, LoneInv
  <2>k. st'[p].pc \in {"idle", "sleep", "dead"} /\ st'[p] # st[p]
    BY <2>w DEF Working
  <2>b. ASSUME NEW q \in Procs, NEW job, NEW pc \in {"file", "start"},
               ~Working(q)
        PROVE  ~Begin(q, job, pc)
    BY <2>b, <2>k, <2>0 DEF Begin, Working, TypeOK, Idle
  <2>2. NoPartition(p) \/ CheckFails(p) \/ Remove(p)
    <3>1. ~(\E c \in Configs : Edit(c)) /\ ~RebootCmd
      BY <2>k DEF Edit, RebootCmd
    <3>2. ~SaveConfig /\ ~EventRestore
      BY <2>b, <2>h DEF SaveConfig, EventRestore, HttpdReady, Working
    <3>3. ~SaveFile /\ ~SaveFileFails
      BY <2>h, <2>k, <2>w, <2>0 DEF SaveFile, SaveFileFails, TypeOK
    <3>4. ~(\E S \in SUBSET Others : RestoreConfig(S))
      BY <2>k, <2>w DEF RestoreConfig
    <3>5. ~(\E q \in Others : Wake(q))
      BY <2>b, <2>h DEF Wake, Working
    <3>6. ~(\E q \in Others, job \in {"restore", "wds"} : Press(q, job))
      BY <2>b, <2>h DEF Press, Working
    <3>7. ~Reboot /\ ~PowerLoss /\ ~Boot
      BY <2>0 DEF Reboot, PowerLoss, Down, Boot
    <3>8. PICK q \in Procs : SaveStep(q)
      BY <3>1, <3>2, <3>3, <3>4, <3>5, <3>6, <3>7 DEF Next
    <3>9. Working(q)
      BY <3>8 DEF SaveStep, NoPartition, TarOpen, TarBlock, TarEnd, CheckFails,
                  DdOpen, DdBlock, DdEnd, Remove, Working
    <3>10. q = p
      BY <2>o, <3>9
    <3>11. /\ ~(\E f \in Procs : TarOpen(p, f)) /\ ~TarBlock(p) /\ ~TarEnd(p)
           /\ ~DdOpen(p) /\ ~DdBlock(p) /\ ~DdEnd(p)
      <4>1. st \in [Procs -> States]
        BY <2>0 DEF TypeOK
      <4>2. ASSUME NEW f \in Procs, TarOpen(p, f) PROVE FALSE
        <5>1. st'[p].pc = "tar"
          BY <4>1, <4>2 DEF TarOpen, States
        <5> QED BY <2>k, <5>1
      <4>3. ASSUME TarBlock(p) PROVE FALSE
        <5>1. st'[p].pc = "tar"
          BY <4>1, <4>3 DEF TarBlock, States
        <5> QED BY <2>k, <5>1
      <4>4. ASSUME TarEnd(p) PROVE FALSE
        <5>1. st'[p].pc = "check"
          BY <4>1, <4>4 DEF TarEnd, States
        <5> QED BY <2>k, <5>1
      <4>5. ASSUME DdOpen(p) PROVE FALSE
        <5>1. st'[p].pc \in {"rm", "dd"}
          BY <4>1, <4>5 DEF DdOpen, States
        <5> QED BY <2>k, <5>1
      <4>6. ASSUME DdBlock(p) PROVE FALSE
        <5>1. st'[p].pc = "dd"
          BY <4>1, <4>6 DEF DdBlock, States
        <5> QED BY <2>k, <5>1
      <4>7. ASSUME DdEnd(p) PROVE FALSE
        <5>1. st'[p].pc = "rm"
          BY <4>1, <4>7 DEF DdEnd, States
        <5> QED BY <2>k, <5>1
      <4> QED BY <4>2, <4>3, <4>4, <4>5, <4>6, <4>7
    <3> QED BY <3>8, <3>10, <3>11 DEF SaveStep
  <2>3. CASE NoPartition(p)
    BY <2>3 DEF NoPartition, Restored, NoEtc
  <2>4. CASE CheckFails(p)
    <3>1. temp # NoFile /\ file[temp] = AllOf(mem) /\ Oversized
      BY <2>0, <2>4 DEF CheckFails, Carries
    <3> QED BY <3>1 DEF Oversized, AllOf
  <2>5. CASE Remove(p)
    <3>1. flash = AllOf(mem) /\ part
      BY <2>0, <2>5 DEF Remove, Carries, StoreInv, OpenInv
    <3> QED BY <2>0, <2>1, <3>1, LoneRestored
  <2> QED BY <2>2, <2>3, <2>4, <2>5
<1> QED BY <1>1, StoreInvariance, PTL DEF Spec, RestoreIsStored
===============================================================================

------------------------------ MODULE ConfigStore ------------------------------
(***************************************************************************)
(* The configuration of the router and its way to the flash and back.      *)
(*                                                                         *)
(* The running configuration is httpd's tree.  "Save" writes it to         *)
(* config.xml under /tmp/etc, which is memory, and runs rc.save_config:    *)
(* tar packs /tmp/etc into one temporary file, dd copies that file block   *)
(* by block over the old contents of the configuration partition, and the  *)
(* file is removed.  At boot rc.restore_config unpacks the partition; a    *)
(* router without a config.xml there shows the defaults of the read-only   *)
(* /etc below.  "Restore" removes config.xml, saves and reboots; the reset *)
(* button renames it to config.xml.bak, which is archived like the rest.   *)
(*                                                                         *)
(* rc.save_config is run by httpd, by the background shells the restore    *)
(* command starts and by the buttons (devd.lua, cdevd).  All of them use   *)
(* the same temporary file, and nothing excludes two at once.              *)
(***************************************************************************)
EXTENDS Integers, FiniteSets

CONSTANTS
    Configs,    \* configurations
    Default,    \* the one httpd runs when there is no config.xml
    NoFile,     \* no config.xml
    Partial,    \* a config.xml that is only half there
    Hole,       \* a block of a file nobody has written
    Odd,        \* configurations that are written whole and that httpd
                \* cannot start from (module ConfTree says which)
    Size,       \* what the contents of a file add to the archive
    Room,       \* what the partition has room for, besides the other files
    Blocks,     \* blocks of an archive
    Httpd,      \* the process of httpd.lua
    Others,     \* the other processes that may run rc.save_config at a time:
                \* restore shells, devd.lua, a handler of cdevd
    MaxLines,   \* bound on the restore requests of one boot
    MaxJobs,    \* bound on the runs of rc.save_config in one boot
    Faults      \* subset of {"power", "file", "tar", "dd"}

Procs == {Httpd} \cup Others
Contents == Configs \cup {NoFile, Partial}

(* What differs in /tmp/etc: config.xml, and the size of config.xml.bak,   *)
(* whose contents nobody reads.                                            *)
Etc == [xml : Contents, bak : Nat]
NoEtc == [xml |-> NoFile, bak |-> 0]
TooBig(e) == Size[e.xml] + e.bak > Room

ASSUME StoreAssumption ==
    /\ Blocks \in Nat \ {0} /\ Size \in [Contents -> Nat] /\ Room \in Nat
    /\ Size[NoFile] = 0
    /\ Default \in Configs \ Odd /\ Odd \subseteq Configs /\ MaxLines \in Nat
    /\ MaxJobs \in Nat
    /\ NoFile \notin Configs /\ Partial \notin Configs /\ Partial # NoFile
    /\ Hole \notin Etc
    /\ Httpd \notin Others /\ NoFile \notin Procs

VARIABLES
    part,       \* get_config_part finds a partition
    flash,      \* the blocks of the partition: whose archive they are of
    up,         \* the system runs
    tree,       \* httpd's configuration tree
    mem,        \* /tmp/etc/www: [xml, bak]
    temp,       \* the file /tmp/etc.tar.gz stands for, or NoFile
    file,       \* the blocks of every temporary file, linked or not
    st,         \* the processes: [pc, job, n, fd, tag]
    lines,      \* lines of /tmp/restore_scrip.sh
    jobs,       \* jobs begun since the last boot
    rebooting,  \* a reboot has been asked for
    mixed,      \* history: the jobs at work overlap, or one of their steps
                \* has failed unnoticed
    spoiled     \* history: the partition was left by such a job, or by one
                \* that was cut off while dd was writing

vars == <<part, flash, up, tree, mem, temp, file, st, lines, jobs, rebooting,
          mixed, spoiled>>

Block == 1..Blocks
Empty == [k \in Block |-> Hole]
AllOf(c) == [k \in Block |-> c]
Idle == [pc |-> "idle", job |-> "none", n |-> 0, fd |-> NoFile, tag |-> NoEtc]

(* A partition without an archive counts as one without config.xml.        *)
Init ==
    /\ part \in BOOLEAN /\ flash = AllOf(NoEtc)
    /\ up = TRUE /\ tree = Default /\ mem = NoEtc
    /\ temp = NoFile /\ file = [p \in Procs |-> Empty]
    /\ st = [p \in Procs |-> Idle]
    /\ lines = 0 /\ jobs = 0
    /\ rebooting = FALSE /\ mixed = FALSE /\ spoiled = FALSE

-------------------------------------------------------------------------------
(* Who runs rc.save_config.                                                *)

Working(p) == st[p].pc \notin {"idle", "sleep", "dead"}

(* A job begins at pc; it is no longer alone, or it is the only one.       *)
Begin(p, job, pc) ==
    /\ jobs < MaxJobs /\ jobs' = jobs + 1
    /\ st' = [st EXCEPT ![p] = [Idle EXCEPT !.pc = pc, !.job = job]]
    /\ mixed' = \E q \in Procs \ {p} : Working(q)

HttpdReady == up /\ st[Httpd].pc = "idle"

(* set and setmany of cmd.xml. *)
Edit(c) ==
    /\ HttpdReady
    /\ tree' = c
    /\ UNCHANGED <<part, flash, up, mem, temp, file, st, lines, jobs,
                   rebooting, mixed, spoiled>>

(* Mutant: save without save_file.                                         *)
SaveConfigUnwritten ==
    /\ HttpdReady
    /\ Begin(Httpd, "save", "start")
    /\ UNCHANGED <<part, flash, up, tree, mem, temp, file, lines, rebooting,
                   spoiled>>

(* save: save_file opens config.xml for writing, which empties it.  When   *)
(* it cannot be opened nothing happens at all.                             *)
SaveConfig ==
    /\ HttpdReady
    /\ mem' = [mem EXCEPT !.xml = Partial]
    /\ Begin(Httpd, "save", "file")
    /\ UNCHANGED <<part, flash, up, tree, temp, file, lines, rebooting,
                   spoiled>>

(* The file is written; one that was removed or renamed in between goes    *)
(* the way of its name.                                                    *)
SaveFile ==
    /\ up /\ st[Httpd].pc = "file"
    /\ IF mem.xml = Partial
       THEN mem' = [mem EXCEPT !.xml = tree]
       ELSE mem' \in {mem, [mem EXCEPT !.bak = Size[tree]]}
    /\ st' = [st EXCEPT ![Httpd].pc = "start"]
    /\ UNCHANGED <<part, flash, up, tree, temp, file, lines, jobs, rebooting,
                   mixed, spoiled>>

(* /tmp is full.  The result of write is not looked at and the script goes *)
(* on, or the last bytes are the ones that fail and the assertion on close *)
(* ends the request; the half config.xml stays.                            *)
SaveFileFails ==
    /\ up /\ st[Httpd].pc = "file" /\ "file" \in Faults
    /\ \/ /\ st' = [st EXCEPT ![Httpd].pc = "start"]
          /\ mixed' = TRUE
       \/ /\ st' = [st EXCEPT ![Httpd] = Idle]
          /\ UNCHANGED mixed
    /\ UNCHANGED <<part, flash, up, tree, mem, temp, file, lines, jobs,
                   rebooting, spoiled>>

(* Mutant: another file is removed.                                        *)
RmConfigBak == mem' = [mem EXCEPT !.bak = 0]

(* rm config.xml *)
RmConfig == mem' = [mem EXCEPT !.xml = NoFile]

(* mv config.xml config.xml.bak; without a config.xml it fails.            *)
MvConfig ==
    mem' = IF mem.xml = NoFile THEN mem
           ELSE [xml |-> NoFile, bak |-> Size[mem.xml]]

(* event.xml's restore: without a config.xml rm fails and that is all.     *)
EventRestore ==
    /\ HttpdReady /\ mem.xml # NoFile
    /\ RmConfig
    /\ Begin(Httpd, "event", "start")
    /\ UNCHANGED <<part, flash, up, tree, temp, file, lines, rebooting,
                   spoiled>>

(* cmd.xml's restore appends one line to the script and runs all of it: a  *)
(* shell for every line, as far as there are idle Others.                  *)
RestoreConfig(started) ==
    /\ HttpdReady /\ lines < MaxLines /\ started # {}
    /\ \A p \in started : st[p].pc = "idle"
    /\ \/ Cardinality(started) = lines + 1
       \/ started = {p \in Others : st[p].pc = "idle"}
    /\ Cardinality(started) <= lines + 1
    /\ lines' = lines + 1
    /\ st' = [p \in Procs |->
                IF p \in started
                  THEN [Idle EXCEPT !.pc = "sleep", !.job = "restore"]
                  ELSE st[p]]
    /\ UNCHANGED <<part, flash, up, tree, mem, temp, file, rebooting, jobs,
                   mixed, spoiled>>

(* The line of the script: after 5 s, rm config.xml ...                    *)
Wake(p) ==
    /\ up /\ st[p].pc = "sleep"
    /\ RmConfig
    /\ Begin(p, "restore", "start")
    /\ UNCHANGED <<part, flash, up, tree, temp, file, lines, rebooting,
                   spoiled>>

(* The reset button renames config.xml at once; the WDS button only saves. *)
Press(p, job) ==
    /\ up /\ st[p].pc = "idle"
    /\ IF job = "restore" THEN MvConfig ELSE UNCHANGED mem
    /\ Begin(p, job, "start")
    /\ UNCHANGED <<part, flash, up, tree, temp, file, lines, rebooting,
                   spoiled>>

(* cmd.xml's reboot *)
RebootCmd ==
    /\ HttpdReady /\ ~rebooting
    /\ rebooting' = TRUE
    /\ UNCHANGED <<part, flash, up, tree, mem, temp, file, st, lines, jobs,
                   mixed, spoiled>>

(* A file that has no name and is not open is gone.                        *)
Kept(name) == [f \in Procs |->
           IF f = name \/ \E p \in Procs : st'[p].fd = f
             THEN file[f] ELSE Empty]

(* rc.save_config has ended: save reports the status, event.xml reboots    *)
(* if it is 0, the scripts reboot in any case.                             *)
Exit(p, status) ==
    /\ st' = [st EXCEPT ![p] = Idle]
    /\ rebooting' = \/ rebooting
                    \/ st[p].job = "event" /\ status = 0
                    \/ st[p].job = "restore"

-------------------------------------------------------------------------------
(* rc.save_config *)

NoPartition(p) ==
    /\ up /\ st[p].pc = "start" /\ ~part
    /\ Exit(p, 1)
    /\ UNCHANGED <<part, flash, up, tree, mem, temp, file, lines, jobs, mixed,
                   spoiled>>

Unused(f) == \A p \in Procs : st[p].fd # f

(* tar empties the temporary file f, or creates it (it is all the same     *)
(* which of the unused ones), and reads config.xml.                        *)
TarOpen(p, f) ==
    /\ up /\ st[p].pc = "start" /\ part
    /\ IF temp = NoFile
       THEN Unused(f) /\ f = CHOOSE g \in Procs : Unused(g)
       ELSE f = temp
    /\ temp' = f
    /\ file' = [file EXCEPT ![f] = Empty]
    /\ st' = [st EXCEPT ![p] = [@ EXCEPT !.pc = "tar", !.n = 0, !.fd = f,
                                         !.tag = mem]]
    /\ UNCHANGED <<part, flash, up, tree, mem, lines, jobs, rebooting, mixed,
                   spoiled>>

(* Mutant: tar goes on past the end of the archive.                        *)
TarBlockPastEnd(p) ==
    /\ up /\ st[p].pc = "tar"
    /\ st' = [st EXCEPT ![p].n = st[p].n + 1]
    /\ UNCHANGED <<part, flash, up, tree, mem, temp, file, lines, jobs,
                   rebooting, mixed, spoiled>>

(* tar writes the next block at its own offset.                            *)
TarBlock(p) ==
    LET k == st[p].n + 1 IN
    /\ up /\ st[p].pc = "tar" /\ k <= Blocks
    /\ file' = [file EXCEPT ![st[p].fd][k] = st[p].tag]
    /\ st' = [st EXCEPT ![p].n = k]
    /\ UNCHANGED <<part, flash, up, tree, mem, temp, lines, jobs, rebooting,
                   mixed, spoiled>>

(* tar ends, or gives up because /tmp is full; nobody looks.               *)
TarEnd(p) ==
    /\ up /\ st[p].pc = "tar"
    /\ st[p].n = Blocks \/ "tar" \in Faults
    /\ st' = [st EXCEPT ![p] = [@ EXCEPT !.pc = "check", !.n = 0,
                                         !.fd = NoFile, !.tag = NoEtc]]
    /\ mixed' = (mixed \/ st[p].n < Blocks)
    /\ UNCHANGED <<part, flash, up, tree, mem, temp, file, lines, jobs,
                   rebooting, spoiled>>

(* The size test.  Without the file the size is the empty string, the      *)
(* test is a syntax error and the script goes on.                          *)
Oversized ==
    /\ temp # NoFile
    /\ \E k \in Block : file[temp][k] # Hole /\ TooBig(file[temp][k])

CheckFails(p) ==
    /\ up /\ st[p].pc = "check" /\ Oversized
    /\ temp' = NoFile /\ Exit(p, 1)
    /\ file' = Kept(NoFile)
    /\ UNCHANGED <<part, flash, up, tree, mem, lines, jobs, mixed, spoiled>>

(* The size is right: dd opens the file; without it there is nothing to    *)
(* copy.                                                                   *)
DdOpen(p) ==
    /\ up /\ st[p].pc = "check" /\ ~Oversized
    /\ st' = [st EXCEPT ![p] =
                [@ EXCEPT !.pc = IF temp = NoFile THEN "rm" ELSE "dd",
                          !.fd = temp]]
    /\ UNCHANGED <<part, flash, up, tree, mem, temp, file, lines, jobs,
                   rebooting, mixed, spoiled>>

(* Mutant: count= is one block short.                                      *)
AtEofShort(p) == \A k \in Block : k > st[p].n + 1 => file[st[p].fd][k] = Hole

(* dd is at the end of its input.                                          *)
AtEof(p) == \A k \in Block : k > st[p].n => file[st[p].fd][k] = Hole

DdBlock(p) ==
    LET k == st[p].n + 1 IN
    /\ up /\ st[p].pc = "dd" /\ ~AtEof(p)
    /\ flash' = [flash EXCEPT ![k] = file[st[p].fd][k]]
    /\ st' = [st EXCEPT ![p].n = k]
    /\ UNCHANGED <<part, up, tree, mem, temp, file, lines, jobs, rebooting,
                   mixed, spoiled>>

(* dd ends, or fails (also because another job has made the flash read-    *)
(* only again); nobody looks.  The partition is as good as the job.        *)
DdEnd(p) ==
    LET bad == mixed \/ ~AtEof(p) \/ file[st[p].fd][1].xml = Partial IN
    /\ up /\ st[p].pc = "dd"
    /\ AtEof(p) \/ "dd" \in Faults
    /\ st' = [st EXCEPT ![p] = [@ EXCEPT !.pc = "rm", !.n = 0, !.fd = NoFile]]
    /\ mixed' = bad /\ spoiled' = bad
    /\ file' = Kept(temp)
    /\ UNCHANGED <<part, flash, up, tree, mem, temp, lines, jobs, rebooting>>

(* rm, and exit with the status of the last message.                       *)
Remove(p) ==
    /\ up /\ st[p].pc = "rm"
    /\ temp' = NoFile /\ Exit(p, 0)
    /\ file' = Kept(NoFile)
    /\ UNCHANGED <<part, flash, up, tree, mem, lines, jobs, mixed, spoiled>>

SaveStep(p) ==
    \/ NoPartition(p) \/ (\E f \in Procs : TarOpen(p, f))
    \/ TarBlock(p) \/ TarEnd(p)
    \/ CheckFails(p) \/ DdOpen(p) \/ DdBlock(p) \/ DdEnd(p) \/ Remove(p)

-------------------------------------------------------------------------------
(* The system.                                                             *)

Writing(p) == st[p].pc = "dd" /\ st[p].n > 0

(* The processes end where they are, and memory is gone.                   *)
Down ==
    /\ up /\ up' = FALSE
    /\ st' = [p \in Procs |-> Idle]
    /\ temp' = NoFile /\ file' = [p \in Procs |-> Empty]
    /\ mem' = NoEtc /\ tree' = Default
    /\ lines' = 0 /\ jobs' = 0 /\ rebooting' = FALSE /\ mixed' = FALSE
    /\ spoiled' = (spoiled \/ \E p \in Procs : Writing(p))
    /\ UNCHANGED <<part, flash>>

Reboot == rebooting /\ Down
PowerLoss == "power" \in Faults /\ Down

(* mountcritlocal: what tar finds.  Of a damaged archive it may unpack     *)
(* each of the files, a part of it, or nothing.                            *)
Whole == flash[1] # Hole /\ flash = AllOf(flash[1])
Damaged(e) == [xml : {NoFile, Partial, e.xml}, bak : {0, Size[Partial], e.bak}]

Restored ==
    IF ~part THEN {NoEtc}
    ELSE IF Whole THEN {flash[1]}
    ELSE Damaged(IF flash[1] = Hole THEN NoEtc ELSE flash[1])

(* Boot up to httpd, which ends when it cannot parse config.xml or misses  *)
(* in it what its start-up needs.                                          *)
Boot ==
    /\ ~up /\ up' = TRUE
    /\ mem' \in Restored
    /\ tree' = IF mem'.xml \in Configs THEN mem'.xml ELSE Default
    /\ st' = [st EXCEPT ![Httpd].pc =
                 IF mem'.xml \in Odd \cup {Partial} THEN "dead" ELSE "idle"]
    /\ UNCHANGED <<part, flash, temp, file, lines, jobs, rebooting, mixed,
                   spoiled>>

Next ==
    \/ \E c \in Configs : Edit(c)
    \/ SaveConfig \/ SaveFile \/ SaveFileFails \/ EventRestore \/ RebootCmd
    \/ \E S \in SUBSET Others : RestoreConfig(S)
    \/ \E p \in Others : Wake(p)
    \/ \E p \in Others, job \in {"restore", "wds"} : Press(p, job)
    \/ \E p \in Procs : SaveStep(p)
    \/ Reboot \/ PowerLoss \/ Boot

Spec == Init /\ [][Next]_vars

-------------------------------------------------------------------------------
Pcs == {"idle", "sleep", "dead", "file", "start", "tar", "check", "dd", "rm"}
Jobs == {"none", "save", "event", "restore", "wds"}
States == [pc : Pcs, job : Jobs, n : 0..Blocks, fd : Procs \cup {NoFile},
           tag : Etc]

TypeOK ==
    /\ part \in BOOLEAN /\ up \in BOOLEAN /\ rebooting \in BOOLEAN
    /\ mixed \in BOOLEAN /\ spoiled \in BOOLEAN
    /\ lines \in 0..MaxLines /\ jobs \in 0..MaxJobs
    /\ flash \in [Block -> Etc \cup {Hole}]
    /\ tree \in Configs /\ mem \in Etc
    /\ temp \in Procs \cup {NoFile}
    /\ file \in [Procs -> [Block -> Etc \cup {Hole}]]
    /\ st \in [Procs -> States]

(* Failing saves, oversized archives, restores, reboots and power loss in  *)
(* any order leave one whole archive in the partition, the old or the new  *)
(* one, and never half a config.xml, except for the ways spoiled records:  *)
(* a cut while dd writes, overlapping jobs, a save_file, tar or dd that    *)
(* fails.  A later save that runs alone repairs the damage, unless what it *)
(* saves is a half config.xml itself.                                      *)
FlashWhole ==
    ~spoiled /\ (\A p \in Procs : ~Writing(p))
      => Whole /\ flash[1].xml # Partial

(* "Configuration saved successful", cmd.xml:76, is true when the job was  *)
(* alone and its steps did their work: the next boot finds the tree.       *)
SavedIsStored ==
    st[Httpd].pc = "rm" /\ st[Httpd].job = "save" /\ ~mixed
      => \A e \in Restored : e.xml = tree

(* However the job of a restore command or of the reset button comes to    *)
(* its end, and with it to its reboot - the archive stored, no partition   *)
(* found, the archive refused - the next boot finds no user configuration, *)
(* if the job was alone and nothing in it failed unnoticed, and unless     *)
(* what is left in /tmp/etc, a config.xml.bak that is archived with it     *)
(* (devd.lua:153), is still too big: then the partition keeps what it had. *)
RestoreIsStored ==
    [][\A p \in Procs :
         /\ st[p].job \in {"restore", "event"} /\ Working(p)
         /\ up' /\ ~Working(p)' /\ ~mixed
         => TooBig(mem) \/ \A e \in Restored : e.xml = NoFile]_vars

-------------------------------------------------------------------------------
(* The inductive invariant behind them: a job that is alone carries the    *)
(* same contents from config.xml through the temporary file to the flash.  *)

Carries(p, c) ==
    LET s == st[p] IN
    /\ s.pc = "tar" =>
         /\ s.fd = temp /\ temp # NoFile /\ s.tag = c
         /\ \A k \in Block : file[s.fd][k] = IF k <= s.n THEN c ELSE Hole
    /\ s.pc = "check" => s.n = 0 /\ temp # NoFile /\ file[temp] = AllOf(c)
    /\ s.pc = "dd" =>
         /\ s.fd # NoFile /\ file[s.fd] = AllOf(c)
         /\ \A k \in Block : k <= s.n => flash[k] = c
    /\ s.pc = "rm" => flash = AllOf(c)

JobInv(p) ==
    /\ st[p].pc = "file" =>
         p = Httpd /\ st[p].job = "save" /\ mem.xml = Partial
    /\ st[p].pc \in {"start", "tar", "check", "dd", "rm"} =>
         /\ st[p].job = "save" => p = Httpd /\ mem.xml = tree
         /\ st[p].job \in {"restore", "event"} => mem.xml = NoFile

LoneInv ==
    ~mixed =>
      /\ \A p, q \in Procs : Working(p) /\ Working(q) => p = q
      /\ \A p \in Procs : JobInv(p) /\ Carries(p, mem)

DownInv == ~up => \A p \in Procs : st[p] = Idle
OpenInv ==
    \A p \in Procs :
      /\ st[p].pc \in {"tar", "dd"} => st[p].fd # NoFile
      /\ st[p].pc \in {"tar", "check", "dd", "rm"} => part

StoreInv == TypeOK /\ DownInv /\ OpenInv /\ LoneInv /\ FlashWhole
===============================================================================

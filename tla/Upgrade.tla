-------------------------------- MODULE Upgrade --------------------------------
(***************************************************************************)
(* main() of target/sbin/upgrade/upgrade.c: the image collected in the     *)
(* output file is written, block by block, to the firmware partition and   *)
(* the router is rebooted.                                                 *)
(*                                                                         *)
(* inetd starts one process per connection ("nowait" in                    *)
(* rc.d/UPGRADE_MODE), and every process has the same -f file, a memory    *)
(* disk of OutCap bytes, and the same -d device.  http_input is used by    *)
(* its contract (module Transfer): it puts the bytes of the image into the *)
(* file, in order, and returns READY when all are there.                   *)
(*                                                                         *)
(* Contents are symbolic: <<p, a>> is byte a of the image process p        *)
(* receives, Old what the device or the file held before, Zero padding.    *)
(***************************************************************************)
EXTENDS Integers

CONSTANTS
    Procs,          \* upgrade processes started by inetd
    Modes,          \* values of http_mode that are considered
    SizeCheck,      \* FALSE with -G
    Reboot,         \* FALSE with -R
    BlockSize,      \* -s, default 64k
    TargetSize,     \* size of the firmware partition
    OutCap,         \* size of the -f file
    MaxImage,       \* bound on the size of an image
    Old, Zero

ASSUME UpgradeAssumption ==
    /\ Modes \subseteq BOOLEAN /\ SizeCheck \in BOOLEAN /\ Reboot \in BOOLEAN
    /\ BlockSize \in Nat \ {0} /\ TargetSize \in Nat \ {0}
    /\ OutCap \in Nat /\ MaxImage \in Nat
    /\ Old \notin Procs \X Nat /\ Zero \notin Procs \X Nat /\ Old # Zero

VARIABLES
    httpMode,       \* -h; otherwise the file is given and is the image
    pc,             \* per process: where main stands
    size,           \* size of the image the client of the process sends
    got,            \* bytes of it that http_input has put into the file
    target,         \* target_size
    bytes,          \* the loop variable bytes, c * blocksize
    offset,         \* file offset of the device descriptor ofh
    exitcode,
    outfile, dev,   \* contents of the -f file and of the partition
    running         \* FALSE once reboot(2) was called

vars == <<httpMode, pc, size, got, target, bytes, offset, exitcode, outfile,
          dev, running>>

Steps == {"transfer", "size", "open", "write", "finish", "exit"}
Content == (Procs \X Nat) \cup {Old, Zero}
FileAddr == 0..(OutCap - 1)
DevAddr == 0..(TargetSize - 1)

(* Mutant: the size of the file is taken for the size of the image.        *)
FilesizeOfFile(p) == OutCap

Filesize(p) == IF got[p] = size[p] THEN size[p] ELSE 0    \* args.filesize

-------------------------------------------------------------------------------
Init ==
    /\ httpMode \in Modes
    /\ size \in [Procs -> IF httpMode THEN 0..MaxImage ELSE {OutCap}]
    /\ pc = [p \in Procs |-> IF httpMode THEN "transfer" ELSE "size"]
    /\ got = [p \in Procs |-> IF httpMode THEN 0 ELSE OutCap]
    /\ target = [p \in Procs |-> 0] /\ bytes = [p \in Procs |-> 0]
    /\ offset = [p \in Procs |-> 0]
    /\ exitcode = [p \in Procs |-> 0]
    /\ IF httpMode THEN outfile = [a \in FileAddr |-> Old]
       ELSE \E p \in Procs : outfile = [a \in FileAddr |-> <<p, a>>]
    /\ dev = [a \in DevAddr |-> Old]
    /\ running = TRUE

(* Mutant: an errno of -1 gets out as the exit code.                       *)
ExitMinusOne(p, code) ==
    /\ exitcode' = [exitcode EXCEPT ![p] = -1]
    /\ pc' = [pc EXCEPT ![p] = "exit"]

(* Mutant: the goto just_exit is missing.                                  *)
ExitFallsBack(p, code) ==
    exitcode' = [exitcode EXCEPT ![p] = code] /\ UNCHANGED pc

Exit(p, code) ==
    /\ exitcode' = [exitcode EXCEPT ![p] = code]
    /\ pc' = [pc EXCEPT ![p] = "exit"]

(* http_input writes the next byte of the image.  local_write ignores the  *)
(* result of write(2), so bytes beyond the end of the file are dropped.    *)
TransferByte(p) ==
    /\ running /\ pc[p] = "transfer" /\ got[p] < size[p]
    /\ got' = [got EXCEPT ![p] = @ + 1]
    /\ outfile' = [a \in FileAddr |->
                     IF a = got[p] THEN <<p, a>> ELSE outfile[a]]
    /\ UNCHANGED <<httpMode, pc, size, target, bytes, offset, exitcode, dev,
                   running>>

(* Mutant: READY is reported before the image is complete.                 *)
TransferReadyEarly(p) ==
    /\ running /\ pc[p] = "transfer"
    /\ pc' = [pc EXCEPT ![p] = "size"]
    /\ UNCHANGED <<httpMode, size, got, target, bytes, offset, exitcode,
                   outfile, dev, running>>

(* http_input returns HTTP_INPUT_READY.                                    *)
TransferReady(p) ==
    /\ running /\ pc[p] = "transfer" /\ got[p] = size[p]
    /\ pc' = [pc EXCEPT ![p] = "size"]
    /\ UNCHANGED <<httpMode, size, got, target, bytes, offset, exitcode,
                   outfile, dev, running>>

(* http_input returns anything else: index page sent, bad form, no file,   *)
(* transfer given up (0); no firmware part, bad method, read error (1).    *)
TransferFails(p) ==
    /\ running /\ pc[p] = "transfer"
    /\ \E code \in {0, 1} : Exit(p, code)
    /\ UNCHANGED <<httpMode, size, got, target, bytes, offset, outfile, dev,
                   running>>

(* geom_get_size gives the size of the device or 0.  With -G the variable  *)
(* is read uninitialised: any value.                                       *)
TargetSizes == IF SizeCheck THEN {0, TargetSize} ELSE 0..(TargetSize + OutCap)

CheckSize(p) ==
    /\ running /\ pc[p] = "size"
    /\ \E t \in TargetSizes :
         /\ target' = [target EXCEPT ![p] = t]
         /\ IF t = 0 \/ (httpMode /\ Filesize(p) > t)
            THEN Exit(p, 1)
            ELSE pc' = [pc EXCEPT ![p] = "open"] /\ UNCHANGED exitcode
    /\ UNCHANGED <<httpMode, size, got, bytes, offset, outfile, dev, running>>

(* debugflags sysctl, fopen, file size, malloc, open of the device.        *)
Open(p) ==
    /\ running /\ pc[p] = "open"
    /\ \/ \E code \in {1, 2} : Exit(p, code)
       \/ /\ OutCap <= target[p]
          /\ pc' = [pc EXCEPT ![p] = "write"]
          /\ UNCHANGED exitcode
    /\ UNCHANGED <<httpMode, size, got, target, bytes, offset, outfile, dev,
                   running>>

(* Mutant: the copy is off by one byte.                                    *)
BlockShifted(a) == IF a + 1 < OutCap THEN outfile[a + 1] ELSE Zero

(* One block of the file as fread and the bzero'd buffer give it.          *)
Block(a) == IF a < OutCap THEN outfile[a] ELSE Zero

(* The device after write(2) has put n bytes of the current block on it.   *)
Written(p, n) ==
    [a \in DevAddr |->
       IF offset[p] <= a /\ a < offset[p] + n
       THEN Block(bytes[p] + a - offset[p]) ELSE dev[a]]

(* write(2) of n bytes: the contents, and the descriptor moves on by n.    *)
WriteBytes(p, n) ==
    /\ dev' = Written(p, n)
    /\ offset' = [offset EXCEPT ![p] = @ + n]

(* One turn of the copy loop.  A write fails at the end of the device, or  *)
(* because of the flash, after any part of the block; the loop goes on     *)
(* from where the descriptor stands, and exitcode remembers.               *)
WriteBlock(p) ==
    /\ running /\ pc[p] = "write" /\ bytes[p] < OutCap
    /\ \/ /\ offset[p] + BlockSize <= TargetSize
          /\ WriteBytes(p, BlockSize)
          /\ UNCHANGED exitcode
       \/ /\ \E n \in 0..(BlockSize - 1) :
               offset[p] + n <= TargetSize /\ WriteBytes(p, n)
          /\ exitcode' = [exitcode EXCEPT ![p] = 7]
    /\ IF httpMode /\ bytes[p] >= Filesize(p)
       THEN pc' = [pc EXCEPT ![p] = "finish"] /\ UNCHANGED bytes
       ELSE bytes' = [bytes EXCEPT ![p] = @ + BlockSize] /\ UNCHANGED pc
    /\ UNCHANGED <<httpMode, size, got, target, outfile, running>>

(* fread returns 0: end of file.                                           *)
WriteEnd(p) ==
    /\ running /\ pc[p] = "write" /\ bytes[p] >= OutCap
    /\ pc' = [pc EXCEPT ![p] = "finish"]
    /\ UNCHANGED <<httpMode, size, got, target, bytes, offset, exitcode,
                   outfile, dev, running>>

(* Mutant: exitcode is not looked at before reboot(2).                     *)
FinishAlways(p) ==
    /\ running /\ pc[p] = "finish"
    /\ pc' = [pc EXCEPT ![p] = "exit"]
    /\ running' = ~Reboot
    /\ UNCHANGED <<httpMode, size, got, target, bytes, offset, exitcode,
                   outfile, dev>>

(* "reboot only if we done without error".                                 *)
Finish(p) ==
    /\ running /\ pc[p] = "finish"
    /\ pc' = [pc EXCEPT ![p] = "exit"]
    /\ running' = ~(Reboot /\ exitcode[p] = 0)
    /\ UNCHANGED <<httpMode, size, got, target, bytes, offset, exitcode,
                   outfile, dev>>

TransferStep(p) == TransferByte(p) \/ TransferReady(p) \/ TransferFails(p)

(* What main does once http_input has returned: nothing of it waits for    *)
(* the client.                                                             *)
LocalStep(p) ==
    CheckSize(p) \/ Open(p) \/ WriteBlock(p) \/ WriteEnd(p) \/ Finish(p)

MainStep(p) == TransferStep(p) \/ LocalStep(p)

Next == \E p \in Procs : MainStep(p)

Spec == Init /\ [][Next]_vars

(* A process that can run is scheduled.  The transfer is not fair: the     *)
(* reads of http_input have no timeout and its discard loop does not end   *)
(* after a close, so it may never return.                                  *)
FairSpec == Spec /\ \A p \in Procs : WF_vars(LocalStep(p))

-------------------------------------------------------------------------------
TypeOK ==
    /\ httpMode \in BOOLEAN
    /\ pc \in [Procs -> Steps]
    /\ size \in [Procs -> Nat] /\ got \in [Procs -> Nat]
    /\ target \in [Procs -> Nat] /\ bytes \in [Procs -> Nat]
    /\ offset \in [Procs -> Nat]
    /\ exitcode \in [Procs -> {0, 1, 2, 7}]
    /\ outfile \in [FileAddr -> Content] /\ dev \in [DevAddr -> Content]
    /\ running \in BOOLEAN

(* The router only reboots into a partition that holds, from its first     *)
(* byte on, the whole image of the process that called reboot(2).          *)
RebootsIntoImage ==
    ~running =>
      \E p \in Procs :
        /\ pc[p] = "exit" /\ exitcode[p] = 0
        /\ \A a \in 0..(size[p] - 1) : a \in DevAddr /\ dev[a] = <<p, a>>

(* The partition is not touched before some image is complete: a transfer  *)
(* that fails, at whatever byte, leaves the old firmware bootable.         *)
FlashUntouchedBeforeImage ==
    (\E a \in DevAddr : dev[a] # Old) =>
      \E p \in Procs : got[p] = size[p] /\ pc[p] \notin {"transfer", "size"}

(* The end of the last block of the image of p.                            *)
ImageEnd(p) == ((size[p] + BlockSize - 1) \div BlockSize) * BlockSize

(* In HTTP mode the loop stops at most one block behind the image: only    *)
(* the block that starts where the image ends is written besides it.       *)
AtMostOneExtraBlock ==
    \A a \in DevAddr :
      (\A p \in Procs : a >= ImageEnd(p) + BlockSize) => dev[a] = Old

(* A process whose http_input has returned comes to an end, or the router  *)
(* reboots: the copy loop ends also when writes keep failing and the       *)
(* descriptor no longer moves with the loop index.                         *)
EndsAfterTransfer ==
    \A p \in Procs : pc[p] # "transfer" ~> pc[p] = "exit" \/ ~running

-------------------------------------------------------------------------------
(* The inductive invariant behind RebootsIntoImage, for one process.       *)

(* One upload at a time, of an image that fits into the file: what the     *)
(* proof of RebootsIntoImage needs and inetd's "nowait" does not give.     *)
SingleUpload == MaxImage <= OutCap /\ \A p, q \in Procs : p = q

(* main gets past http_input with complete images only.                    *)
ImageComplete ==
    \A p \in Procs :
      pc[p] \in {"size", "open", "write", "finish"} => got[p] = size[p]

(* The file holds what http_input has put into it.                         *)
CollectInv(p) ==
    /\ size[p] <= OutCap /\ got[p] <= size[p]
    /\ \A a \in FileAddr : a < got[p] => outfile[a] = <<p, a>>

(* As long as no write has failed, the blocks before the loop index - and  *)
(* after the loop all blocks of the image - are on the device.             *)
FlashInv(p) ==
    /\ pc[p] \in {"transfer", "size", "open"} => bytes[p] = 0 /\ offset[p] = 0
    /\ pc[p] = "write" /\ exitcode[p] = 0 =>
         /\ offset[p] = bytes[p]
         /\ \A a \in 0..(bytes[p] - 1) : a \in DevAddr /\ dev[a] = Block(a)
    /\ pc[p] = "finish" /\ exitcode[p] = 0 =>
         \A a \in 0..(size[p] - 1) : a \in DevAddr /\ dev[a] = <<p, a>>

UpgradeInv ==
    /\ TypeOK /\ ImageComplete
    /\ \A p \in Procs : CollectInv(p) /\ FlashInv(p)
    /\ RebootsIntoImage
===============================================================================

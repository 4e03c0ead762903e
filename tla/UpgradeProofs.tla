----------------------------- MODULE UpgradeProofs -----------------------------
(***************************************************************************)
(* Upgrade for every block size, partition size, file size and image.      *)
(***************************************************************************)
EXTENDS Upgrade, TLAPS

(* Types are preserved, for any number of processes.                       *)
LEMMA TypeStep == TypeOK /\ [Next]_vars => TypeOK'
<1> SUFFICES ASSUME TypeOK, [Next]_vars PROVE TypeOK'
    OBVIOUS
<1> USE UpgradeAssumption DEF TypeOK, Steps
<1>1. ASSUME NEW p \in Procs, TransferByte(p) PROVE TypeOK'
  <2>1. outfile' \in [FileAddr -> Content]
    BY <1>1 DEF TransferByte, Content, FileAddr
  <2> QED
    BY <1>1, <2>1 DEF TransferByte
<1>2. ASSUME NEW p \in Procs, TransferReady(p) PROVE TypeOK'
    BY <1>2 DEF TransferReady
<1>3. ASSUME NEW p \in Procs, TransferFails(p) PROVE TypeOK'
    BY <1>3 DEF TransferFails, Exit
<1>4. ASSUME NEW p \in Procs, CheckSize(p) PROVE TypeOK'
    BY <1>4 DEF CheckSize, TargetSizes, Exit
<1>5. ASSUME NEW p \in Procs, Open(p) PROVE TypeOK'
    BY <1>5 DEF Open, Exit
<1>6. ASSUME NEW p \in Procs, WriteBlock(p) PROVE TypeOK'
  <2>1. \A n \in Nat : Written(p, n) \in [DevAddr -> Content]
    BY DEF Written, Block, Content, FileAddr, DevAddr
  <2>2. PICK n \in Nat : WriteBytes(p, n)
    BY <1>6 DEF WriteBlock
  <2>3. dev' \in [DevAddr -> Content] /\ offset' \in [Procs -> Nat]
    BY <2>1, <2>2 DEF WriteBytes
  <2> QED
    BY <1>6, <2>3 DEF WriteBlock
<1>7. ASSUME NEW p \in Procs, WriteEnd(p) PROVE TypeOK'
    BY <1>7 DEF WriteEnd
<1>8. ASSUME NEW p \in Procs, Finish(p) PROVE TypeOK'
    BY <1>8 DEF Finish
<1>9. CASE UNCHANGED vars
    BY <1>9 DEF vars
<1> QED
    BY <1>1, <1>2, <1>3, <1>4, <1>5, <1>6, <1>7, <1>8, <1>9
       DEF Next, MainStep, TransferStep, LocalStep

LEMMA TypeInit == Init => TypeOK
<1> SUFFICES ASSUME Init PROVE TypeOK
    OBVIOUS
<1> USE UpgradeAssumption DEF Init
<1>1. outfile \in [FileAddr -> Content]
  <2>1. CASE httpMode
    BY <2>1 DEF Content
  <2>2. CASE ~httpMode
    BY <2>2 DEF Content, FileAddr
  <2> QED
    BY <2>1, <2>2
<1>2. dev \in [DevAddr -> Content]
    BY DEF Content
<1>3. size \in [Procs -> Nat]
    OBVIOUS
<1> QED
    BY <1>1, <1>2, <1>3 DEF TypeOK, Steps

(* Type correctness of main's state.                                       *)
THEOREM UpgradeTypeCorrect == Spec => []TypeOK
<1> QED
    BY TypeInit, TypeStep, PTL DEF Spec

-------------------------------------------------------------------------------
(* main gets past http_input only with a complete image.                   *)
LEMMA CompleteStep == TypeOK /\ ImageComplete /\ [Next]_vars => ImageComplete'
<1> SUFFICES ASSUME TypeOK, ImageComplete, [Next]_vars PROVE ImageComplete'
    OBVIOUS
<1> USE UpgradeAssumption DEF TypeOK, Steps
<1>1. ASSUME NEW p \in Procs, TransferByte(p) PROVE ImageComplete'
    BY <1>1 DEF TransferByte, ImageComplete
<1>2. ASSUME NEW p \in Procs, TransferReady(p) PROVE ImageComplete'
    BY <1>2 DEF TransferReady, ImageComplete
<1>3. ASSUME NEW p \in Procs, TransferFails(p) PROVE ImageComplete'
    BY <1>3 DEF TransferFails, Exit, ImageComplete
<1>4. ASSUME NEW p \in Procs, CheckSize(p) PROVE ImageComplete'
    BY <1>4 DEF CheckSize, Exit, ImageComplete
<1>5. ASSUME NEW p \in Procs, Open(p) PROVE ImageComplete'
    BY <1>5 DEF Open, Exit, ImageComplete
<1>6. ASSUME NEW p \in Procs, WriteBlock(p) PROVE ImageComplete'
    BY <1>6 DEF WriteBlock, ImageComplete
<1>7. ASSUME NEW p \in Procs, WriteEnd(p) PROVE ImageComplete'
    BY <1>7 DEF WriteEnd, ImageComplete
<1>8. ASSUME NEW p \in Procs, Finish(p) PROVE ImageComplete'
    BY <1>8 DEF Finish, ImageComplete
<1>9. CASE UNCHANGED vars
    BY <1>9 DEF vars, ImageComplete
<1> QED
    BY <1>1, <1>2, <1>3, <1>4, <1>5, <1>6, <1>7, <1>8, <1>9
       DEF Next, MainStep, TransferStep, LocalStep

(* No step of any process touches the flash before an image is complete.   *)
LEMMA FlashStep ==
    TypeOK /\ ImageComplete /\ FlashUntouchedBeforeImage /\ [Next]_vars
      => FlashUntouchedBeforeImage'
<1> SUFFICES ASSUME TypeOK, ImageComplete, FlashUntouchedBeforeImage, [Next]_vars
             PROVE  FlashUntouchedBeforeImage'
    OBVIOUS
<1> USE UpgradeAssumption DEF TypeOK, Steps
<1> USE DEF FlashUntouchedBeforeImage
<1>1. ASSUME NEW p \in Procs, TransferByte(p) PROVE FlashUntouchedBeforeImage'
    BY <1>1 DEF TransferByte
<1>2. ASSUME NEW p \in Procs, TransferReady(p) PROVE FlashUntouchedBeforeImage'
    BY <1>2 DEF TransferReady
<1>3. ASSUME NEW p \in Procs, TransferFails(p) PROVE FlashUntouchedBeforeImage'
    BY <1>3 DEF TransferFails, Exit
<1>4. ASSUME NEW p \in Procs, CheckSize(p) PROVE FlashUntouchedBeforeImage'
    BY <1>4 DEF CheckSize, Exit
<1>5. ASSUME NEW p \in Procs, Open(p) PROVE FlashUntouchedBeforeImage'
    BY <1>5 DEF Open, Exit
<1>6. ASSUME NEW p \in Procs, WriteBlock(p) PROVE FlashUntouchedBeforeImage'
  <2>1. got'[p] = size'[p] /\ pc'[p] \notin {"transfer", "size"}
    BY <1>6 DEF WriteBlock, ImageComplete
  <2> QED
    BY <2>1
<1>7. ASSUME NEW p \in Procs, WriteEnd(p) PROVE FlashUntouchedBeforeImage'
    BY <1>7 DEF WriteEnd
<1>8. ASSUME NEW p \in Procs, Finish(p) PROVE FlashUntouchedBeforeImage'
    BY <1>8 DEF Finish
<1>9. CASE UNCHANGED vars
    BY <1>9 DEF vars
<1> QED
    BY <1>1, <1>2, <1>3, <1>4, <1>5, <1>6, <1>7, <1>8, <1>9
       DEF Next, MainStep, TransferStep, LocalStep

LEMMA FlashStart == Init => ImageComplete /\ FlashUntouchedBeforeImage
<1> SUFFICES ASSUME Init PROVE ImageComplete /\ FlashUntouchedBeforeImage
    OBVIOUS
<1>1. FlashUntouchedBeforeImage
    BY DEF Init, FlashUntouchedBeforeImage
<1>2. ImageComplete
  <2>1. CASE httpMode
    BY <2>1 DEF Init, ImageComplete
  <2>2. CASE ~httpMode
    BY <2>2 DEF Init, ImageComplete
  <2> QED
    BY <2>1, <2>2
<1> QED
    BY <1>1, <1>2

(* However many clients upload at once and however their transfers end,    *)
(* main leaves the firmware partition alone until one image is complete.   *)
THEOREM FlashIsSafe == Spec => []FlashUntouchedBeforeImage
<1>1. Init => TypeOK /\ ImageComplete /\ FlashUntouchedBeforeImage
    BY TypeInit, FlashStart
<1>2. TypeOK /\ ImageComplete /\ FlashUntouchedBeforeImage /\ [Next]_vars
        => TypeOK' /\ ImageComplete' /\ FlashUntouchedBeforeImage'
    BY TypeStep, CompleteStep, FlashStep
<1> QED
    BY <1>1, <1>2, PTL DEF Spec

-------------------------------------------------------------------------------
(* The copy loop.  A block written without error extends the part of the   *)
(* device that agrees with the file by one block.                          *)
LEMMA BlockLands ==
    ASSUME TypeOK, NEW p \in Procs, offset[p] = bytes[p],
           bytes[p] + BlockSize <= TargetSize,
           \A a \in 0..(bytes[p] - 1) : a \in DevAddr /\ dev[a] = Block(a)
    PROVE  \A a \in 0..(bytes[p] + BlockSize - 1) :
              a \in DevAddr /\ Written(p, BlockSize)[a] = Block(a)
<1> SUFFICES ASSUME NEW a \in 0..(bytes[p] + BlockSize - 1)
             PROVE  a \in DevAddr /\ Written(p, BlockSize)[a] = Block(a)
    OBVIOUS
<1> USE UpgradeAssumption DEF TypeOK
<1>1. a \in DevAddr
    BY DEF DevAddr
<1>2. bytes[p] + a - offset[p] = a
    OBVIOUS
<1>3. Written(p, BlockSize)[a]
        = IF offset[p] <= a /\ a < offset[p] + BlockSize THEN Block(a) ELSE dev[a]
    BY <1>1, <1>2 DEF Written
<1>4. CASE bytes[p] <= a
    BY <1>1, <1>3, <1>4
<1>5. CASE ~(bytes[p] <= a)
    BY <1>1, <1>3, <1>5
<1> QED
    BY <1>4, <1>5

(* What is on the device below the block being written stays there.        *)
LEMMA BelowStays ==
    ASSUME TypeOK, NEW p \in Procs, NEW n \in Nat, NEW a \in DevAddr, a < offset[p]
    PROVE  Written(p, n)[a] = dev[a]
<1> QED
    BY UpgradeAssumption DEF TypeOK, Written, DevAddr

(* Every action of the process keeps the file's contents in step with got. *)
LEMMA CollectStep ==
    ASSUME SingleUpload, UpgradeInv, [Next]_vars, NEW q \in Procs
    PROVE  CollectInv(q)'
<1> USE UpgradeAssumption DEF UpgradeInv, TypeOK, CollectInv
<1>1. ASSUME NEW p \in Procs, TransferByte(p) PROVE CollectInv(q)'
  <2>1. p = q
    BY DEF SingleUpload
  <2>2. size' = size /\ got'[q] = got[q] + 1 /\ got[q] < size[q]
    BY <1>1, <2>1 DEF TransferByte
  <2>3. ASSUME NEW a \in FileAddr, a < got'[q] PROVE outfile'[a] = <<q, a>>
    <3>1. outfile'[a] = IF a = got[q] THEN <<q, a>> ELSE outfile[a]
      BY <1>1, <2>1 DEF TransferByte
    <3> QED
      BY <2>2, <2>3, <3>1 DEF FileAddr
  <2> QED
    BY <2>2, <2>3
<1>2. ASSUME NEW p \in Procs, ~TransferByte(p), MainStep(p) PROVE CollectInv(q)'
  <2>1. UNCHANGED <<size, got, outfile>>
    BY <1>2 DEF MainStep, TransferStep, LocalStep,
            TransferReady, TransferFails, CheckSize, Open,
                WriteBlock, WriteEnd, Finish
  <2> QED
    BY <2>1
<1>3. CASE UNCHANGED vars
    BY <1>3 DEF vars
<1> QED
    BY <1>1, <1>2, <1>3 DEF Next

(* The loop carries the image to the device.                               *)
LEMMA CopyStep ==
    ASSUME SingleUpload, UpgradeInv, [Next]_vars, NEW q \in Procs
    PROVE  FlashInv(q)'
<1> USE UpgradeAssumption DEF UpgradeInv, TypeOK, Steps
<1>0. \A p \in Procs : p = q
    BY DEF SingleUpload
<1>1. ASSUME NEW p \in Procs, TransferByte(p) PROVE FlashInv(q)'
    BY <1>0, <1>1 DEF TransferByte, FlashInv
<1>2. ASSUME NEW p \in Procs, TransferReady(p) PROVE FlashInv(q)'
    BY <1>0, <1>2 DEF TransferReady, FlashInv
<1>3. ASSUME NEW p \in Procs, TransferFails(p) PROVE FlashInv(q)'
    BY <1>0, <1>3 DEF TransferFails, Exit, FlashInv
<1>4. ASSUME NEW p \in Procs, CheckSize(p) PROVE FlashInv(q)'
    BY <1>0, <1>4 DEF CheckSize, Exit, FlashInv
<1>5. ASSUME NEW p \in Procs, Open(p) PROVE FlashInv(q)'
  <2>1. /\ bytes[q] = 0 /\ bytes' = bytes /\ pc'[q] \in {"write", "exit"}
        /\ offset[q] = 0 /\ offset' = offset
    BY <1>0, <1>5 DEF Open, Exit, FlashInv
  <2> QED
    BY <2>1 DEF FlashInv
<1>6. ASSUME NEW p \in Procs, WriteBlock(p) PROVE FlashInv(q)'
  <2>1. /\ p = q /\ pc[q] = "write" /\ bytes[q] < OutCap /\ bytes[q] \in Nat
        /\ UNCHANGED <<size, got, outfile>> /\ got[q] = size[q]
    BY <1>0, <1>6 DEF WriteBlock, ImageComplete
  <2> SUFFICES ASSUME exitcode'[q] = 0 PROVE FlashInv(q)'
    BY <2>1, <1>6 DEF WriteBlock, FlashInv
  <2>2. /\ exitcode[q] = 0 /\ offset[q] = bytes[q]
        /\ bytes[q] + BlockSize <= TargetSize
        /\ dev' = Written(q, BlockSize) /\ offset'[q] = bytes[q] + BlockSize
    BY <2>1, <1>6 DEF WriteBlock, WriteBytes, FlashInv
  <2>3. \A a \in 0..(bytes[q] - 1) : a \in DevAddr /\ dev[a] = Block(a)
    BY <2>1, <2>2 DEF FlashInv
  <2>4. CASE httpMode /\ bytes[q] >= Filesize(q)
    <3>1. pc'[q] = "finish" /\ size[q] <= bytes[q]
      BY <2>1, <2>4, <1>6 DEF WriteBlock, Filesize
    <3>2. ASSUME NEW a \in 0..(size[q] - 1)
          PROVE  a \in DevAddr /\ dev'[a] = <<q, a>>
      <4>1. a \in 0..(bytes[q] - 1) /\ a \in FileAddr /\ a < got[q]
        BY <2>1, <3>1 DEF FileAddr
      <4>2. a \in DevAddr /\ dev[a] = outfile[a]
        BY <2>3, <4>1 DEF Block, FileAddr
      <4>3. dev'[a] = dev[a]
        BY <2>1, <2>2, <4>1, <4>2, BelowStays
      <4> QED
        BY <4>1, <4>2, <4>3 DEF CollectInv
    <3> QED
      BY <2>1, <3>1, <3>2 DEF FlashInv
  <2>5. CASE ~(httpMode /\ bytes[q] >= Filesize(q))
    <3>1. pc'[q] = "write" /\ bytes'[q] = bytes[q] + BlockSize
      BY <2>1, <2>5, <1>6 DEF WriteBlock
    <3>2. \A a \in 0..(bytes'[q] - 1) : a \in DevAddr /\ dev'[a] = Block(a)
      BY <2>1, <2>2, <2>3, <3>1, BlockLands
    <3>3. \A a : Block(a)' = Block(a)
      BY <2>1 DEF Block
    <3> QED
      BY <2>2, <3>1, <3>2, <3>3 DEF FlashInv
  <2> QED
    BY <2>4, <2>5
<1>7. ASSUME NEW p \in Procs, WriteEnd(p) PROVE FlashInv(q)'
  <2>1. /\ p = q /\ pc[q] = "write" /\ bytes[q] >= OutCap /\ pc'[q] = "finish"
        /\ UNCHANGED <<size, exitcode, outfile, dev>> /\ got[q] = size[q]
    BY <1>0, <1>7 DEF WriteEnd, ImageComplete
  <2>2. ASSUME exitcode[q] = 0, NEW a \in 0..(size[q] - 1)
        PROVE  a \in DevAddr /\ dev[a] = <<q, a>>
    <3>1. a \in FileAddr /\ a < got[q] /\ a \in 0..(bytes[q] - 1)
      BY <2>1 DEF CollectInv, FileAddr
    <3>2. a \in DevAddr /\ dev[a] = Block(a)
      BY <2>1, <2>2, <3>1 DEF FlashInv
    <3> QED
      BY <3>1, <3>2 DEF CollectInv, Block, FileAddr
  <2> QED
    BY <2>1, <2>2 DEF FlashInv
<1>8. ASSUME NEW p \in Procs, Finish(p) PROVE FlashInv(q)'
    BY <1>0, <1>8 DEF Finish, FlashInv
<1>9. CASE UNCHANGED vars
  <2>1. UNCHANGED <<pc, size, bytes, offset, exitcode, outfile, dev>>
    BY <1>9 DEF vars
  <2> QED
    BY <2>1 DEF FlashInv, Block
<1> QED
    BY <1>1, <1>2, <1>3, <1>4, <1>5, <1>6, <1>7, <1>8, <1>9
       DEF Next, MainStep, TransferStep, LocalStep

(* Only Finish calls reboot(2), after the loop and without a write error.  *)
LEMMA RebootStep ==
    ASSUME SingleUpload, UpgradeInv, [Next]_vars
    PROVE  RebootsIntoImage'
<1> USE UpgradeAssumption DEF UpgradeInv, TypeOK, Steps, RebootsIntoImage
<1>1. CASE ~running
  <2>1. UNCHANGED vars
    BY <1>1 DEF Next, MainStep, TransferStep, LocalStep,
            TransferByte, TransferReady, TransferFails,
                CheckSize, Open, WriteBlock, WriteEnd, Finish
  <2> QED
    BY <1>1, <2>1 DEF vars
<1>2. CASE running
  <2>1. ASSUME NEW p \in Procs, Finish(p) PROVE RebootsIntoImage'
    BY <2>1 DEF Finish, FlashInv
  <2>2. ASSUME NEW p \in Procs, ~Finish(p), MainStep(p) PROVE RebootsIntoImage'
    BY <1>2, <2>2 DEF MainStep, TransferStep, LocalStep,
            TransferByte, TransferReady, TransferFails,
                      CheckSize, Open, WriteBlock, WriteEnd
  <2>3. CASE UNCHANGED vars
    BY <1>2, <2>3 DEF vars
  <2> QED
    BY <2>1, <2>2, <2>3 DEF Next
<1> QED
    BY <1>1, <1>2

LEMMA UpgradeInvInit == ASSUME SingleUpload, Init PROVE UpgradeInv
<1> USE UpgradeAssumption DEF Init
<1>1. ASSUME NEW p \in Procs PROVE CollectInv(p) /\ FlashInv(p)
  <2>1. CASE httpMode
    BY <2>1 DEF CollectInv, FlashInv, SingleUpload, FileAddr
  <2>2. CASE ~httpMode
    BY <2>2 DEF CollectInv, FlashInv, SingleUpload, FileAddr
  <2> QED
    BY <2>1, <2>2
<1> QED
    BY <1>1, TypeInit, FlashStart DEF UpgradeInv, RebootsIntoImage

(* One client that sends an image the file can hold: the file holds what   *)
(* was received, and the device all blocks before the loop index.          *)
THEOREM UpgradeInvariance ==
    ASSUME SingleUpload PROVE Spec => []UpgradeInv
<1>1. Init => UpgradeInv
    BY UpgradeInvInit
<1>2. UpgradeInv /\ [Next]_vars => UpgradeInv'
  <2> SUFFICES ASSUME UpgradeInv, [Next]_vars PROVE UpgradeInv'
    OBVIOUS
  <2>1. TypeOK'
    BY TypeStep DEF UpgradeInv
  <2>2. ImageComplete'
    BY CompleteStep DEF UpgradeInv
  <2>3. \A p \in Procs : CollectInv(p)' /\ FlashInv(p)'
    BY CollectStep, CopyStep
  <2>4. RebootsIntoImage'
    BY RebootStep
  <2> QED
    BY <2>1, <2>2, <2>3, <2>4 DEF UpgradeInv
<1> QED
    BY <1>1, <1>2, PTL DEF Spec

(* One client that sends an image the file can hold: if the router reboots,*)
(* whatever went wrong on the way, the partition holds that image from its *)
(* first to its last byte.                                                 *)
THEOREM SingleUploadReboots ==
    ASSUME SingleUpload PROVE Spec => []RebootsIntoImage
<1>1. UpgradeInv => RebootsIntoImage
    BY DEF UpgradeInv
<1> QED
    BY <1>1, UpgradeInvariance, PTL

-------------------------------------------------------------------------------
(* The bound of the copy loop: while p copies, its descriptor is not ahead *)
(* of the loop index, which is a multiple of the block size and not behind *)
(* the last block of the image.                                            *)
CopyBound(p) ==
    /\ httpMode \/ size[p] = OutCap
    /\ pc[p] \in {"transfer", "size", "open", "write"} =>
         /\ offset[p] <= bytes[p] /\ bytes[p] <= ImageEnd(p)
         /\ \E k \in Nat : bytes[p] = k * BlockSize

(* Multiples of the block size below the size of the image leave room for  *)
(* a whole block before its end.                                           *)
LEMMA NextBlockFits ==
    ASSUME NEW b \in Nat, b > 0, NEW s \in Nat, NEW k \in Nat, k * b < s
    PROVE  (k + 1) * b <= ((s + b - 1) \div b) * b
<1> DEFINE q == (s + b - 1) \div b
<1>1. q \in Int /\ s + b - 1 < q * b + b
  <2> DEFINE n == s + b - 1
  <2>1. n \in Nat
    OBVIOUS
  <2> HIDE DEF n
  <2>2. n \div b \in Int /\ n < (n \div b) * b + b
    BY <2>1
  <2> QED
    BY <2>2 DEF n
<1> HIDE DEF q
<1>2. k * b < q * b
  <2>1. q * b \in Int /\ k * b \in Int
    BY <1>1
  <2> QED
    BY <1>1, <2>1
<1>4. ~(q <= k)
    <2> SUFFICES ASSUME q <= k PROVE FALSE
      OBVIOUS
    <2>1. (k - q) * b >= 0
      BY <1>1
    <2>2. (k - q) * b = k * b - q * b
      BY <1>1
    <2> QED
      BY <1>1, <1>2, <2>1, <2>2
<1>5. (q - (k + 1)) * b >= 0
    BY <1>1, <1>4
<1>6. (q - (k + 1)) * b = q * b - (k + 1) * b
    BY <1>1
<1>7. (k + 1) * b <= q * b
    BY <1>1, <1>5, <1>6
<1> QED
    BY <1>7 DEF q

(* The bound holds at every step of every process.                         *)
LEMMA BoundStep ==
    TypeOK /\ ImageComplete /\ (\A p \in Procs : CopyBound(p)) /\ [Next]_vars
      => \A p \in Procs : CopyBound(p)'
<1> SUFFICES ASSUME TypeOK, ImageComplete, \A p \in Procs : CopyBound(p),
                    [Next]_vars, NEW p \in Procs
             PROVE  CopyBound(p)'
    OBVIOUS
<1> USE UpgradeAssumption DEF TypeOK
<1>1. ASSUME /\ UNCHANGED <<httpMode, size>>
             /\ bytes'[p] = bytes[p] /\ offset'[p] = offset[p]
             /\ pc'[p] \in {"transfer", "size", "open", "write"} =>
                  pc[p] \in {"transfer", "size", "open", "write"}
      PROVE  CopyBound(p)'
    BY <1>1, Zenon DEF CopyBound, ImageEnd
<1>2. ASSUME NEW q \in Procs, q # p, MainStep(q) PROVE CopyBound(p)'
  <2>1. /\ UNCHANGED <<httpMode, size>> /\ bytes'[p] = bytes[p]
        /\ offset'[p] = offset[p] /\ pc'[p] = pc[p]
    BY <1>2 DEF MainStep, TransferStep, LocalStep,
            TransferByte, TransferReady, TransferFails, CheckSize,
                Open, WriteBlock, WriteBytes, WriteEnd, Finish, Exit
  <2> QED
    BY <1>1, <2>1
<1>3. CASE WriteBlock(p)
  <2>1. /\ CopyBound(p) /\ pc[p] = "write" /\ UNCHANGED <<httpMode, size>>
        /\ got[p] = size[p] /\ bytes[p] < OutCap
        /\ httpMode' \/ size'[p] = OutCap
    BY <1>3 DEF WriteBlock, CopyBound, ImageComplete
  <2>2. CASE pc'[p] = "finish"
    BY <2>1, <2>2 DEF CopyBound
  <2>3. CASE pc'[p] # "finish"
    <3>1. /\ bytes'[p] = bytes[p] + BlockSize
          /\ ~(httpMode /\ bytes[p] >= size[p])
      BY <1>3, <2>1, <2>3 DEF WriteBlock, Filesize
    <3>2. bytes[p] < size[p]
      BY <2>1, <3>1 DEF CopyBound
    <3>3. PICK k \in Nat : bytes[p] = k * BlockSize
      BY <2>1 DEF CopyBound
    <3>4. bytes'[p] = (k + 1) * BlockSize /\ k + 1 \in Nat
      BY <3>1, <3>3
    <3>5. bytes'[p] <= ImageEnd(p)'
      <4>1. BlockSize \in Nat /\ BlockSize > 0 /\ size[p] \in Nat
        OBVIOUS
      <4>2. k * BlockSize < size[p]
        BY <3>2, <3>3
      <4>3. (k + 1) * BlockSize
              <= ((size[p] + BlockSize - 1) \div BlockSize) * BlockSize
        BY <4>1, <4>2, NextBlockFits
      <4> QED
        BY <2>1, <3>4, <4>3 DEF ImageEnd
    <3>6. offset'[p] <= bytes'[p]
      <4>1. PICK n \in 0..BlockSize : offset' = [offset EXCEPT ![p] = @ + n]
        BY <1>3 DEF WriteBlock, WriteBytes
      <4>2. offset[p] <= bytes[p]
        BY <2>1 DEF CopyBound
      <4> QED
        BY <3>1, <4>1, <4>2
    <3> QED
      BY <2>1, <3>4, <3>5, <3>6 DEF CopyBound
  <2> QED
    BY <2>2, <2>3
<1>4. CASE MainStep(p) /\ ~WriteBlock(p)
  <2>1. /\ UNCHANGED <<httpMode, size>>
        /\ bytes'[p] = bytes[p] /\ offset'[p] = offset[p]
        /\ pc'[p] \in {"transfer", "size", "open", "write"} =>
             pc[p] \in {"transfer", "size", "open", "write"}
    BY <1>4 DEF MainStep, TransferStep, LocalStep,
            TransferByte, TransferReady, TransferFails, CheckSize,
                Open, WriteEnd, Finish, Exit
  <2> QED
    BY <1>1, <2>1
<1>5. CASE UNCHANGED vars
    BY <1>1, <1>5 DEF vars
<1> QED
    BY <1>2, <1>3, <1>4, <1>5 DEF Next

(* A write stays within the block behind the loop index.                   *)
LEMMA ExtraStep ==
    TypeOK /\ (\A p \in Procs : CopyBound(p)) /\ AtMostOneExtraBlock /\ [Next]_vars
      => AtMostOneExtraBlock'
<1> SUFFICES ASSUME TypeOK, \A p \in Procs : CopyBound(p), AtMostOneExtraBlock,
                    [Next]_vars, NEW a \in DevAddr,
                    \A p \in Procs : a >= ImageEnd(p)' + BlockSize
             PROVE  dev'[a] = Old
    BY DEF AtMostOneExtraBlock
<1> USE UpgradeAssumption DEF TypeOK
<1>1. UNCHANGED size
    BY DEF Next, MainStep, TransferStep, LocalStep,
            TransferByte, TransferReady, TransferFails, CheckSize,
           Open, WriteBlock, WriteEnd, Finish, vars
<1>2. \A p \in Procs : a >= ImageEnd(p) + BlockSize
    BY <1>1 DEF ImageEnd
<1>3. dev[a] = Old
    BY <1>2 DEF AtMostOneExtraBlock
<1>4. CASE UNCHANGED dev
    BY <1>3, <1>4
<1>5. ASSUME NEW p \in Procs, WriteBlock(p) PROVE dev'[a] = Old
  <2>1. PICK n \in 0..BlockSize : dev' = Written(p, n)
    BY <1>5 DEF WriteBlock, WriteBytes
  <2>2. offset[p] <= bytes[p] /\ bytes[p] <= ImageEnd(p)
    BY <1>5 DEF WriteBlock, CopyBound
  <2>3. ImageEnd(p) \in Int
    BY DEF ImageEnd
  <2>4. ~(a < offset[p] + n)
    BY <1>2, <2>2, <2>3 DEF DevAddr
  <2> QED
    BY <1>3, <2>1, <2>4 DEF Written
<1> QED
    BY <1>4, <1>5 DEF Next, MainStep, TransferStep, LocalStep,
            TransferByte, TransferReady, TransferFails,
                      CheckSize, Open, WriteEnd, Finish, vars

(* However many uploads there are and whatever writes fail, nothing behind *)
(* the block that follows the longest image is written.                    *)
THEOREM CopyStops == Spec => []AtMostOneExtraBlock
<1> DEFINE Inv == /\ TypeOK /\ ImageComplete /\ AtMostOneExtraBlock
                  /\ \A p \in Procs : CopyBound(p)
<1>1. Init => Inv
  <2> SUFFICES ASSUME Init PROVE Inv
    OBVIOUS
  <2>1. TypeOK /\ ImageComplete
    BY TypeInit, FlashStart
  <2>2. AtMostOneExtraBlock
    BY DEF Init, AtMostOneExtraBlock
  <2>3. ASSUME NEW p \in Procs PROVE CopyBound(p)
    <3>1. bytes[p] = 0 /\ offset[p] = 0 /\ 0 = 0 * BlockSize
          /\ (httpMode \/ size[p] = OutCap)
      BY UpgradeAssumption DEF Init
    <3>2. ImageEnd(p) >= 0
      BY <2>1, UpgradeAssumption DEF ImageEnd, TypeOK
    <3> QED
      BY <3>1, <3>2 DEF CopyBound
  <2> QED
    BY <2>1, <2>2, <2>3
<1>2. Inv /\ [Next]_vars => Inv'
    BY TypeStep, CompleteStep, BoundStep, ExtraStep
<1>3. Inv => AtMostOneExtraBlock
    OBVIOUS
<1> QED
    BY <1>1, <1>2, <1>3, PTL DEF Spec
===============================================================================

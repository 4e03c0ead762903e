---------------------------- MODULE HttpInputProofs ----------------------------
(***************************************************************************)
(* http_input for every buffer size, boundary and body: its types, its use *)
(* of the ring buffer, and, for the bodies of its own upload form, that    *)
(* READY means the image and that module Transfer is implemented.          *)
(***************************************************************************)
EXTENDS HttpInput, UploadRingProofs, WellFoundedInduction

(* The MIN() of local_read.                                                *)
LEMMA MinOfTwo ==
    ASSUME NEW a \in Int, NEW b \in Int
    PROVE  Min({a, b}) = IF a <= b THEN a ELSE b
<1> DEFINE m == IF a <= b THEN a ELSE b
<1>1. m \in {a, b} /\ \A y \in {a, b} : m <= y
    OBVIOUS
<1>2. \A x \in {a, b} : (\A y \in {a, b} : x <= y) => x = m
    OBVIOUS
<1> QED
    BY <1>1, <1>2 DEF Min

(* A set of naturals that is not empty has a least element.                *)
LEMMA LeastNat ==
    ASSUME NEW T, T \subseteq Nat, T # {}
    PROVE  Min(T) \in T /\ \A y \in T : Min(T) <= y
<1> DEFINE R == {r \in Nat \X Nat : r[1] < r[2]}
<1>1. IsWellFoundedOn(R, Nat)
    BY NatLessThanWellFounded DEF OpToRel
<1>2. \A x, y \in Nat : <<y, x>> \notin R => x <= y
    OBVIOUS
<1> HIDE DEF R
<1>3. \E x \in T : \A y \in T : <<y, x>> \notin R
    BY <1>1, WFMin, Zenon
<1>4. \E x \in T : \A y \in T : x <= y
    BY <1>2, <1>3
<1> QED
    BY <1>4 DEF Min

(* Every call of the ring buffer that http_input makes is one that         *)
(* UploadRing allows: it appends only in the body loop, drains only after  *)
(* the marker and closes only after the loop or the drain.                 *)
LEMMA RingStep == [InputNext]_vars => [RingNext]_ringVars
<1> SUFFICES ASSUME [InputNext]_vars PROVE [RingNext]_ringVars
    OBVIOUS
<1> USE DEF NoRead, NoRing
<1>1. CASE UNCHANGED vars
    BY <1>1 DEF vars
<1>2. CASE BodyByte
    BY <1>2 DEF BodyByte, RingNext
<1>3. CASE DrainRing
    BY <1>3 DEF DrainRing, RingNext
<1>4. CASE Close
    BY <1>4 DEF Close, RingNext
<1>5. ASSUME NEW f \in Faults, ConnFault(f) PROVE UNCHANGED ringVars
    BY <1>5 DEF ConnFault
<1>6. CASE ReadRequest \/ LineByte \/ FirstLine \/ FirstLineFails
             \/ Disposition \/ DispositionFails
    BY <1>6 DEF ReadRequest, LineByte, FirstLine, FirstLineFails,
                Disposition, DispositionFails
<1>7. CASE PartHeaders \/ PartHeadersFail \/ Skip \/ SkipLine
             \/ SkipLineFails
    BY <1>7 DEF PartHeaders, PartHeadersFail, Skip, SkipLine, SkipLineFails
<1>8. CASE OpenOutput \/ BodyFails \/ Discard \/ Accepted
    BY <1>8 DEF OpenOutput, BodyFails, Discard, Accepted
<1> QED
    BY <1>1, <1>2, <1>3, <1>4, <1>5, <1>6, <1>7, <1>8
       DEF InputNext, HttpStep

(* http_input uses the ring buffer as module UploadRing specifies, so that *)
(* every theorem about the ring holds of a running http_input.             *)
THEOREM RingUsedAsSpecified == InputSpec => RingSpec
<1>1. InputInit => RingInit
    BY DEF InputInit
<1> QED
    BY <1>1, RingStep, PTL DEF InputSpec, RingSpec

-------------------------------------------------------------------------------
(* Types.                                                                  *)

LEMMA BodyTypes ==
    ASSUME InputTypeOK
    PROVE  /\ ContentLength \in Nat
           /\ body.bytes \in Seq(Byte) /\ body.image \in Seq(Byte)
           /\ Len(body.image) \in Nat
           /\ InBufSize \in Nat \ {0}
  BY InputAssumption DEF InputTypeOK, ContentLength

(* What read(2) returns fits into inbuf and is in the body.                *)
LEMMA ReadResultsBounded ==
    ASSUME InputTypeOK, NEW n \in ReadResults(Wanted)
    PROVE  /\ n \in -1..InBufSize
           /\ n >= 0 => pos + n <= sent
<1> DEFINE L == ContentLength
<1>1. /\ L \in Nat /\ InBufSize \in Nat \ {0} /\ sent \in 0..L
      /\ pos \in 0..sent /\ counter \in 0..(L + 1)
    BY BodyTypes DEF InputTypeOK
<1> HIDE DEF L
<1>2. Wanted \in 0..InBufSize
  <2>1. CASE counter > L
    BY <1>1, <2>1 DEF Wanted, L
  <2>2. CASE ~(counter > L)
    <3>1. InBufSize \in Int /\ L - counter \in Int
      BY <1>1
    <3>2. Wanted = IF InBufSize <= L - counter THEN InBufSize
                   ELSE L - counter
      BY <2>2, <3>1, MinOfTwo DEF Wanted, L
    <3> QED
      BY <1>1, <2>2, <3>2
  <2> QED
    BY <2>1, <2>2
<1> DEFINE Over == Wanted = 0 \/ (conn = "eof" /\ pos = sent)
<1>3. CASE Over
    BY <1>1, <1>2, <1>3 DEF ReadResults, L
<1>4. CASE ~Over /\ conn = "reset"
    BY <1>1, <1>2, <1>4 DEF ReadResults
<1>5. CASE ~Over /\ conn # "reset"
  <2> DEFINE most == Min({Wanted, sent - pos})
  <2>1. most = IF Wanted <= sent - pos THEN Wanted ELSE sent - pos
    <3>1. Wanted \in Int /\ sent - pos \in Int
      BY <1>1, <1>2
    <3> QED
      BY <3>1, MinOfTwo
  <2> HIDE DEF most
  <2>2. n \in {k \in 1..most : Pieces \/ k = most}
               \cup (IF pc = "discard" THEN {-1} ELSE {})
    BY <1>5 DEF ReadResults, most
  <2>3. n = -1 \/ n \in 1..most
    BY <2>2
  <2> QED
    BY <1>1, <1>2, <2>1, <2>3 DEF L
<1> QED
    BY <1>3, <1>4, <1>5

(* inbuf_p %= INPUT_BUFFER_SIZE: only a used-up full buffer wraps.         *)
LEMMA InbufMod ==
    ASSUME InputTypeOK
    PROVE  /\ inbufP % InBufSize = IF inbufP = InBufSize THEN 0 ELSE inbufP
           /\ inbufP % InBufSize \in 0..(InBufSize - 1)
<1>1. InBufSize \in Nat \ {0} /\ inbufP \in 0..InBufSize
    BY InputAssumption DEF InputTypeOK
<1>2. inbufP \in 0..(2 * InBufSize - 1)
    BY <1>1
<1>3. inbufP % InBufSize = IF inbufP < InBufSize THEN inbufP
                           ELSE inbufP - InBufSize
    BY <1>1, <1>2, ModWithin, Zenon
<1> QED
    BY <1>1, <1>3

LEMMA FilledTypes ==
    ASSUME InputTypeOK, NEW f \in Filled
    PROVE  /\ f.buf \in [1..InBufSize -> Byte]
           /\ f.len \in 0..InBufSize \cup {UINT_MAX}
           /\ f.pos \in 0..sent
<1>1. CASE inbufP % InBufSize # 0
    BY <1>1 DEF Filled, InputTypeOK
<1>2. CASE inbufP % InBufSize = 0
  <2>1. PICK n \in ReadResults(Wanted) :
               f = [buf |-> Overlay(n),
                    len |-> IF n < 0 THEN UINT_MAX ELSE n,
                    pos |-> pos + (IF n < 0 THEN 0 ELSE n)]
    BY <1>2 DEF Filled
  <2>2. /\ n \in -1..InBufSize /\ (n >= 0 => pos + n <= sent)
        /\ ContentLength \in Nat /\ sent \in 0..ContentLength
        /\ pos \in 0..sent
        /\ InBufSize \in Nat /\ body.bytes \in Seq(Byte)
        /\ inbuf \in [1..InBufSize -> Byte]
    BY ReadResultsBounded, BodyTypes DEF InputTypeOK
  <2>3. ASSUME NEW i \in 1..InBufSize, i <= n
        PROVE  body.bytes[pos + i] \in Byte
    <3>1. pos + i \in 1..Len(body.bytes)
      BY <2>2, <2>3 DEF ContentLength
    <3> QED
      BY <2>2, <3>1
  <2>4. Overlay(n) \in [1..InBufSize -> Byte]
    BY <2>2, <2>3 DEF Overlay
  <2>5. f.pos \in 0..sent /\ f.len \in 0..InBufSize \cup {UINT_MAX}
    BY <2>1, <2>2
  <2> QED
    BY <2>1, <2>4, <2>5
<1> QED
    BY <1>1, <1>2

LEMMA CountedType ==
    ASSUME InputTypeOK
    PROVE  /\ Counted \in 0..(ContentLength + 1)
           /\ counter < ContentLength => Counted = counter + 1
<1>1. ContentLength \in Nat /\ counter \in 0..(ContentLength + 1)
    BY BodyTypes DEF InputTypeOK
<1>2. counter + 1 \in Int /\ ContentLength + 1 \in Int
    BY <1>1
<1>3. Counted = IF counter + 1 <= ContentLength + 1 THEN counter + 1
                ELSE ContentLength + 1
    BY <1>2, MinOfTwo DEF Counted
<1> QED
    BY <1>1, <1>3

(* The fields of args that local_read changes keep their types.            *)
LEMMA LocalReadTypes ==
    ASSUME InputTypeOK, (\E ch \in Byte : LocalRead(ch)) \/ LocalReadNone
    PROVE  /\ inbuf' \in [1..InBufSize -> Byte]
           /\ inbufP' \in 0..InBufSize
           /\ inbufL' \in 0..InBufSize \cup {UINT_MAX}
           /\ pos' \in 0..sent
           /\ counter' \in 0..(ContentLength + 1)
<1>0. InBufSize \in Nat \ {0}
    BY InputAssumption
<1>1. ASSUME NEW ch \in Byte, LocalRead(ch)
      PROVE  /\ \E f \in Filled : inbuf' = f.buf /\ inbufL' = f.len
                                   /\ pos' = f.pos
             /\ inbufP' = (inbufP % InBufSize) + 1 /\ counter' = Counted
    BY <1>1 DEF LocalRead
<1>2. ASSUME LocalReadNone
      PROVE  /\ \E f \in Filled : inbuf' = f.buf /\ inbufL' = f.len
                                   /\ pos' = f.pos
             /\ inbufP' = 0 /\ counter' = counter
    BY <1>2 DEF LocalReadNone
<1>3. PICK f \in Filled : inbuf' = f.buf /\ inbufL' = f.len /\ pos' = f.pos
    BY <1>1, <1>2
<1>4. inbufP' = 0 \/ inbufP' = (inbufP % InBufSize) + 1
    BY <1>1, <1>2
<1>5. counter' = counter \/ counter' = Counted
    BY <1>1, <1>2
<1>6. inbufP' \in 0..InBufSize
    BY <1>0, <1>4, InbufMod
<1>7. counter' \in 0..(ContentLength + 1)
    BY <1>5, CountedType DEF InputTypeOK
<1> QED
    BY <1>3, <1>6, <1>7, FilledTypes

(* A step that leaves the socket's fields alone or takes them through      *)
(* local_read, and moves on in the control flow, keeps the types.          *)
LEMMA TypeFrame ==
    ASSUME InputTypeOK, RingTypeOK', UNCHANGED <<request, body, conn, sent>>,
           \/ UNCHANGED <<pos, counter, inbuf, inbufP, inbufL>>
           \/ (\E ch \in Byte : LocalRead(ch)) \/ LocalReadNone,
           line' \in Seq(Byte), match' \in BOOLEAN, status' \in Statuses,
           pc' \in LinePcs \cup {"request", "skip", "skip1", "skip2", "open",
                                  "body", "drain", "discard", "close", "done"},
           status' # "none" <=> pc' \in {"close", "done"}
    PROVE  InputTypeOK'
<1>1. ContentLength' = ContentLength
    BY DEF ContentLength
<1>2. /\ inbuf' \in [1..InBufSize -> Byte]
      /\ inbufP' \in 0..InBufSize
      /\ inbufL' \in 0..InBufSize \cup {UINT_MAX}
      /\ pos' \in 0..sent
      /\ counter' \in 0..(ContentLength + 1)
  <2>1. CASE UNCHANGED <<pos, counter, inbuf, inbufP, inbufL>>
    BY <2>1 DEF InputTypeOK
  <2>2. CASE (\E ch \in Byte : LocalRead(ch)) \/ LocalReadNone
    BY <2>2, LocalReadTypes
  <2> QED
    BY <2>1, <2>2
<1>3. /\ request' \in Requests /\ body' \in Bodies
      /\ conn' \in {"open"} \cup Faults /\ sent' \in 0..ContentLength
      /\ conn' = "open" => sent' = ContentLength
    BY DEF InputTypeOK
<1> QED
    BY <1>1, <1>2, <1>3 DEF InputTypeOK

LEMMA InputTypeStep ==
    ASSUME InputTypeOK, RingTypeOK', [InputNext]_vars
    PROVE  InputTypeOK'
<1> DEFINE Pcs == LinePcs \cup {"request", "skip", "skip1", "skip2", "open",
                                "body", "drain", "discard", "close", "done"}
<1>0. /\ pc \in Pcs /\ line \in Seq(Byte) /\ match \in BOOLEAN
      /\ status \in Statuses /\ conn \in {"open"} \cup Faults
      /\ status # "none" <=> pc \in {"close", "done"}
    BY DEF InputTypeOK
<1>1. ASSUME NEW p, NEW s, Goto(p, s), p \in Pcs, s \in Statuses,
             s # "none" <=> p \in {"close", "done"}
      PROVE  /\ pc' \in Pcs /\ status' \in Statuses /\ line' \in Seq(Byte)
             /\ status' # "none" <=> pc' \in {"close", "done"}
    BY <1>1 DEF Goto
<1> USE DEF Statuses, LinePcs
<1>2. CASE UNCHANGED vars
    BY <1>2 DEF vars, inVars, InputTypeOK, ContentLength
<1>3. ASSUME NEW f \in Faults, ConnFault(f) PROVE InputTypeOK'
  <2>1. /\ conn' \in Faults /\ conn' # "open"
        /\ UNCHANGED <<ringVars, pc, request, body, pos, counter, inbuf,
                       inbufP, inbufL, line, match, status>>
    BY <1>3, InputAssumption DEF ConnFault
  <2>2. ContentLength' = ContentLength
    BY <2>1 DEF ContentLength
  <2>3. sent' \in 0..ContentLength /\ pos' \in 0..sent'
    BY <1>3, <2>1, BodyTypes DEF ConnFault, InputTypeOK
  <2> QED
    BY <2>1, <2>2, <2>3 DEF InputTypeOK
<1>4. CASE ReadRequest
  <2>1. /\ pc' \in Pcs /\ status' \in Statuses /\ line' \in Seq(Byte)
        /\ status' # "none" <=> pc' \in {"close", "done"}
    BY <1>1, <1>4 DEF ReadRequest, Goto
  <2> QED
    BY <1>0, <1>4, <2>1, TypeFrame DEF ReadRequest, NoRead
<1>5. CASE LineByte
  <2>1. PICK ch \in Byte : LocalRead(ch) /\ line' = Append(line, ch)
    BY <1>5 DEF LineByte
  <2>2. line' \in Seq(Byte)
    BY <1>0, <2>1
  <2>3. UNCHANGED <<pc, request, body, conn, sent, match, status>>
    BY <1>5 DEF LineByte
  <2> QED
    BY <1>0, <2>1, <2>2, <2>3, TypeFrame
<1>6. CASE FirstLine
  <2>1. /\ pc' \in Pcs /\ status' \in Statuses /\ line' \in Seq(Byte)
        /\ status' # "none" <=> pc' \in {"close", "done"}
    BY <1>1, <1>6 DEF FirstLine, Goto
  <2> QED
    BY <1>0, <1>6, <2>1, TypeFrame DEF FirstLine, NoRead
<1>7. CASE FirstLineFails
  <2>1. /\ pc' \in Pcs /\ status' \in Statuses /\ line' \in Seq(Byte)
        /\ status' # "none" <=> pc' \in {"close", "done"}
    BY <1>1, <1>7 DEF FirstLineFails, Goto
  <2> QED
    BY <1>0, <1>7, <2>1, TypeFrame DEF FirstLineFails, NoRing
<1>8. CASE Disposition
  <2>1. /\ pc' \in Pcs /\ status' \in Statuses /\ line' \in Seq(Byte)
        /\ status' # "none" <=> pc' \in {"close", "done"}
    BY <1>1, <1>8 DEF Disposition, NoFirmware, Goto
  <2>2. match' \in BOOLEAN
    BY <1>8 DEF Disposition
  <2> QED
    BY <1>0, <1>8, <2>1, <2>2, TypeFrame DEF Disposition, NoRead
<1>9. CASE DispositionFails
  <2>1. /\ pc' \in Pcs /\ status' \in Statuses /\ line' \in Seq(Byte)
        /\ status' # "none" <=> pc' \in {"close", "done"}
    BY <1>1, <1>9 DEF DispositionFails, NoFirmware, Goto
  <2> QED
    BY <1>0, <1>9, <2>1, TypeFrame DEF DispositionFails, NoRing
<1>10. CASE PartHeaders
  <2>1. /\ pc' \in Pcs /\ status' \in Statuses /\ line' \in Seq(Byte)
        /\ status' # "none" <=> pc' \in {"close", "done"}
    BY <1>1, <1>10 DEF PartHeaders, AfterPartHeaders, Goto
  <2> QED
    BY <1>0, <1>10, <2>1, TypeFrame DEF PartHeaders, NoRead
<1>11. CASE PartHeadersFail
  <2>1. /\ pc' \in Pcs /\ status' \in Statuses /\ line' \in Seq(Byte)
        /\ status' # "none" <=> pc' \in {"close", "done"}
    BY <1>1, <1>11 DEF PartHeadersFail, AfterPartHeaders, Goto
  <2> QED
    BY <1>0, <1>11, <2>1, TypeFrame DEF PartHeadersFail, NoRing
<1>12. CASE Skip
  <2>1. ASSUME NEW ch \in Byte, pc \in {"skip", "skip1", "skip2"}
        PROVE  SkipNext(ch) \in Pcs \ {"close", "done"}
    BY <2>1 DEF SkipNext
  <2>2. /\ pc' \in Pcs /\ status' \in Statuses /\ line' \in Seq(Byte)
        /\ status' # "none" <=> pc' \in {"close", "done"}
    BY <1>1, <1>12, <2>1 DEF Skip, Goto
  <2>3. (\E ch \in Byte : LocalRead(ch)) \/ LocalReadNone
    BY <1>12 DEF Skip
  <2> QED
    BY <1>0, <1>12, <2>2, <2>3, TypeFrame DEF Skip, NoRing
<1>13. CASE SkipLine
  <2>1. /\ pc' \in Pcs /\ status' \in Statuses /\ line' \in Seq(Byte)
        /\ status' # "none" <=> pc' \in {"close", "done"}
    BY <1>1, <1>13 DEF SkipLine, NoFirmware, Goto
  <2> QED
    BY <1>0, <1>13, <2>1, TypeFrame DEF SkipLine, NoRead
<1>14. CASE SkipLineFails
  <2>1. /\ pc' \in Pcs /\ status' \in Statuses /\ line' \in Seq(Byte)
        /\ status' # "none" <=> pc' \in {"close", "done"}
    BY <1>1, <1>14 DEF SkipLineFails, NoFirmware, Goto
  <2> QED
    BY <1>0, <1>14, <2>1, TypeFrame DEF SkipLineFails, NoRing
<1>15. CASE OpenOutput
  <2>1. /\ pc' \in Pcs /\ status' \in Statuses /\ line' \in Seq(Byte)
        /\ status' # "none" <=> pc' \in {"close", "done"}
    BY <1>1, <1>15 DEF OpenOutput, Goto
  <2> QED
    BY <1>0, <1>15, <2>1, TypeFrame DEF OpenOutput, NoRead
<1>16. CASE BodyByte
  <2>1. /\ \E ch \in Byte : LocalRead(ch)
        /\ pc = "body" /\ pc' \in {"body", "drain"}
        /\ UNCHANGED <<request, body, conn, sent, line, match, status>>
    BY <1>16 DEF BodyByte
  <2> QED
    BY <1>0, <2>1, TypeFrame
<1>17. CASE BodyFails
  <2>1. /\ pc' \in Pcs /\ status' \in Statuses /\ line' \in Seq(Byte)
        /\ status' # "none" <=> pc' \in {"close", "done"}
    BY <1>1, <1>17 DEF BodyFails, Goto
  <2>2. \/ UNCHANGED <<pos, counter, inbuf, inbufP, inbufL>>
        \/ LocalReadNone
    BY <1>17 DEF BodyFails
  <2> QED
    BY <1>0, <1>17, <2>1, <2>2, TypeFrame DEF BodyFails, NoRing
<1>18. CASE DrainRing
    BY <1>0, <1>18, TypeFrame DEF DrainRing
<1>19. CASE Discard
    BY <1>0, <1>19, TypeFrame DEF Discard, NoRing
<1>20. CASE Accepted
  <2>1. /\ pc' \in Pcs /\ status' \in Statuses /\ line' \in Seq(Byte)
        /\ status' # "none" <=> pc' \in {"close", "done"}
    BY <1>1, <1>20 DEF Accepted, Goto
  <2> QED
    BY <1>0, <1>20, <2>1, TypeFrame DEF Accepted, NoRead
<1>21. CASE Close
    BY <1>0, <1>21, TypeFrame DEF Close
<1> QED
    BY <1>2, <1>3, <1>4, <1>5, <1>6, <1>7, <1>8, <1>9, <1>10, <1>11, <1>12,
       <1>13, <1>14, <1>15, <1>16, <1>17, <1>18, <1>19, <1>20, <1>21
       DEF InputNext, HttpStep

LEMMA InputTypeInit == InputInit => InputTypeOK
<1> SUFFICES ASSUME InputInit PROVE InputTypeOK
    OBVIOUS
<1>1. RingTypeOK
    BY RingInitInv DEF InputInit, RingInv
<1>2. ContentLength \in Nat /\ InBufSize \in Nat \ {0} /\ CR \in Byte
    BY InputAssumption, RingAssumption DEF InputInit, ContentLength
<1>3. /\ inbuf \in [1..InBufSize -> Byte] /\ inbufP \in 0..InBufSize
      /\ inbufL \in 0..InBufSize \cup {UINT_MAX}
      /\ sent \in 0..ContentLength /\ pos \in 0..sent
      /\ counter \in 0..(ContentLength + 1)
    BY <1>2 DEF InputInit
<1>4. line \in Seq(Byte) /\ status \in Statuses
    BY DEF InputInit, Statuses
<1>5. match \in BOOLEAN
    BY Zenon DEF InputInit
<1> QED
    BY <1>1, <1>3, <1>4, <1>5 DEF InputInit, InputTypeOK, LinePcs

(* The struct and the variables of http_input keep their types: inbuf_p    *)
(* and the slots of the ring stay inside their buffers, also after a       *)
(* failed read(2), and a status is there exactly at the end.               *)
THEOREM InputTypeCorrect == InputSpec => []InputTypeOK
<1>1. InputTypeOK /\ RingTypeOK' /\ [InputNext]_vars => InputTypeOK'
    BY InputTypeStep
<1> QED
    BY <1>1, InputTypeInit, RingUsedAsSpecified, RingTypeCorrect, PTL
       DEF InputSpec

-------------------------------------------------------------------------------
(* local_read.                                                             *)

(* Why local_read returned 0, as long as the reads are in order.           *)
LEMMA EmptyRead ==
    ASSUME InputTypeOK, InWindow, pc # "discard", conn # "reset",
           inbufP % InBufSize = 0, NEW n \in ReadResults(Wanted)
    PROVE  /\ pos = counter /\ n \in 0..InBufSize
           /\ pos + n <= sent
           /\ n = 0 => (conn = "eof" /\ pos = sent) \/ counter = ContentLength
           /\ n # 0 => ~(conn = "eof" /\ pos = sent)
           /\ n # 0 => Pieces \/ n = InBufSize \/ pos + n = sent
<1> DEFINE L == ContentLength
<1>1. /\ L \in Nat /\ InBufSize \in Nat \ {0} /\ sent \in 0..L
      /\ pos \in 0..sent
      /\ counter \in 0..(L + 1) /\ inbufP \in 0..InBufSize
      /\ inbufL \in 0..InBufSize \cup {UINT_MAX}
    BY BodyTypes DEF InputTypeOK
<1>2. inbufP = 0 \/ inbufP = InBufSize
    BY <1>1, InbufMod
<1>3. pos = counter
    BY <1>1, <1>2 DEF InWindow, UINT_MAX
<1>4. Wanted = IF InBufSize <= L - counter THEN InBufSize ELSE L - counter
  <2>1. InBufSize \in Int /\ L - counter \in Int /\ ~(counter > L)
    BY <1>1, <1>3
  <2> QED
    BY <2>1, MinOfTwo DEF Wanted, L
<1> HIDE DEF L
<1> DEFINE Over == Wanted = 0 \/ (conn = "eof" /\ pos = sent)
<1>5. CASE Over
  <2>1. n = 0
    BY <1>5 DEF ReadResults
  <2> QED
    BY <1>1, <1>3, <1>4, <1>5, <2>1 DEF L
<1>6. CASE ~Over
  <2> DEFINE most == Min({Wanted, sent - pos})
  <2>1. most = IF Wanted <= sent - pos THEN Wanted ELSE sent - pos
    <3>1. Wanted \in Int /\ sent - pos \in Int
      BY <1>1, <1>3, <1>4
    <3> QED
      BY <3>1, MinOfTwo
  <2> HIDE DEF most
  <2>2. n \in 1..most /\ (Pieces \/ n = most)
    BY <1>6 DEF ReadResults, most
  <2>3. Wanted \in 1..InBufSize
    BY <1>1, <1>3, <1>4, <1>6
  <2> QED
    BY <1>1, <1>3, <1>4, <1>6, <2>1, <2>2, <2>3 DEF L
<1> QED
    BY <1>5, <1>6

(* A byte that local_read hands out is the next one of the body.           *)
LEMMA ReadsInOrder ==
    ASSUME InputTypeOK, InWindow, pc # "discard", conn # "reset",
           NEW ch, LocalRead(ch), UNCHANGED <<body, sent>>
    PROVE  /\ counter < ContentLength /\ counter' = counter + 1
           /\ ch = body.bytes[counter + 1]
           /\ InWindow' /\ ~Silent
<1> DEFINE p == inbufP % InBufSize
<1>1. /\ ContentLength \in Nat /\ InBufSize \in Nat \ {0}
      /\ sent \in 0..ContentLength /\ (conn = "open" => sent = ContentLength)
      /\ pos \in 0..sent /\ counter \in 0..(ContentLength + 1)
      /\ inbufP \in 0..InBufSize
      /\ inbufL \in 0..InBufSize \cup {UINT_MAX}
    BY BodyTypes DEF InputTypeOK
<1>2. p = (IF inbufP = InBufSize THEN 0 ELSE inbufP) /\ p \in 0..(InBufSize - 1)
    BY InbufMod
<1>3. PICK f \in Filled :
             /\ p < f.len /\ ch = f.buf[p + 1]
             /\ inbufP' = p + 1 /\ counter' = Counted
             /\ inbuf' = f.buf /\ inbufL' = f.len /\ pos' = f.pos
    BY DEF LocalRead
<1>4. ContentLength' = ContentLength
    BY DEF ContentLength
<1>5. CASE p # 0
  <2>1. f = [buf |-> inbuf, len |-> inbufL, pos |-> pos]
    BY <1>5 DEF Filled
  <2>2. inbufP = p /\ inbufP > 0 /\ inbufP < inbufL
    BY <1>1, <1>2, <1>3, <1>5, <2>1
  <2>3. /\ inbufL <= InBufSize /\ inbufP <= counter
        /\ pos = counter + inbufL - inbufP
        /\ \A i \in 1..inbufL : inbuf[i] = body.bytes[counter - inbufP + i]
        /\ Pieces \/ inbufL = InBufSize \/ pos = sent
    BY <1>1, <2>2 DEF InWindow
  <2>4. counter < ContentLength
    BY <1>1, <2>2, <2>3 DEF UINT_MAX
  <2>5. counter' = counter + 1
    BY <1>3, <2>4, CountedType
  <2>6. ch = body.bytes[counter + 1]
    <3>1. inbufP + 1 \in 1..inbufL /\ counter - inbufP + (inbufP + 1) = counter + 1
      BY <1>1, <2>2, <2>3 DEF UINT_MAX
    <3> QED
      BY <1>3, <2>1, <2>2, <2>3, <3>1
  <2>7. /\ inbufP' = inbufP + 1 /\ inbuf' = inbuf /\ inbufL' = inbufL
        /\ pos' = pos
    BY <1>3, <2>1, <2>2
  <2>8. ASSUME NEW i \in 1..inbufL
        PROVE  inbuf[i] = body.bytes[counter' - inbufP' + i]
    <3>1. counter' - inbufP' + i = counter - inbufP + i
      BY <1>1, <2>5, <2>7, <2>8
    <3> QED
      BY <2>3, <3>1
  <2>9. InWindow'
    BY <1>1, <1>4, <2>2, <2>3, <2>5, <2>7, <2>8 DEF InWindow, UINT_MAX
  <2> QED
    BY <1>1, <2>2, <2>4, <2>5, <2>6, <2>9 DEF Silent
<1>6. CASE p = 0
  <2>1. PICK n \in ReadResults(Wanted) :
               f = [buf |-> Overlay(n),
                    len |-> IF n < 0 THEN UINT_MAX ELSE n,
                    pos |-> pos + (IF n < 0 THEN 0 ELSE n)]
    BY <1>6 DEF Filled
  <2>2. /\ pos = counter /\ n \in 0..InBufSize /\ pos + n <= sent
        /\ n # 0 => ~(conn = "eof" /\ pos = sent)
        /\ n # 0 => Pieces \/ n = InBufSize \/ pos + n = sent
    BY <1>6, EmptyRead
  <2>3. f.buf = Overlay(n) /\ f.len = n /\ f.pos = pos + n /\ n > 0
    BY <1>3, <1>6, <2>1, <2>2
  <2>4. ASSUME NEW i \in 1..n
        PROVE  inbuf'[i] = body.bytes[counter + i]
    <3>1. i \in 1..InBufSize /\ i <= n
      BY <1>1, <2>2
    <3> QED
      BY <1>3, <2>2, <2>3, <3>1 DEF Overlay
  <2>5. counter < ContentLength /\ counter' = counter + 1
    BY <1>1, <1>3, <2>2, <2>3, CountedType
  <2>6. ch = body.bytes[counter + 1]
    <3>1. 1 \in 1..n /\ p + 1 = 1
      BY <1>6, <2>2, <2>3
    <3> QED
      BY <1>3, <2>4, <3>1
  <2>7. inbufP' = 1 /\ inbufL' = n /\ pos' = pos + n
    BY <1>3, <1>6, <2>3
  <2>8. ASSUME NEW i \in 1..n
        PROVE  inbuf'[i] = body.bytes[counter' - inbufP' + i]
    <3>1. counter' - inbufP' + i = counter + i
      BY <1>1, <2>2, <2>5, <2>7
    <3> QED
      BY <2>4, <3>1
  <2>9. InWindow'
    BY <1>1, <1>4, <2>2, <2>3, <2>5, <2>7, <2>8 DEF InWindow
  <2> QED
    BY <2>2, <2>3, <2>5, <2>6, <2>9 DEF Silent
<1> QED
    BY <1>5, <1>6

(* local_read returns 0 between two pieces, at the end of the body, or     *)
(* when the client is gone; it loses nothing.                              *)
LEMMA NoneKeepsWindow ==
    ASSUME InputTypeOK, InWindow, pc # "discard", conn # "reset",
           LocalReadNone, UNCHANGED <<body, conn, sent>>
    PROVE  /\ counter' = counter /\ InWindow'
           /\ Pieces \/ Silent' \/ counter = ContentLength
<1> DEFINE p == inbufP % InBufSize
<1>1. /\ ContentLength \in Nat /\ InBufSize \in Nat \ {0}
      /\ sent \in 0..ContentLength /\ (conn = "open" => sent = ContentLength)
      /\ pos \in 0..sent /\ counter \in 0..(ContentLength + 1)
      /\ inbufP \in 0..InBufSize
      /\ inbufL \in 0..InBufSize \cup {UINT_MAX}
    BY BodyTypes DEF InputTypeOK
<1>2. p = (IF inbufP = InBufSize THEN 0 ELSE inbufP) /\ p \in 0..(InBufSize - 1)
    BY InbufMod
<1>3. PICK f \in Filled :
             /\ p >= f.len /\ inbufP' = 0 /\ counter' = counter
             /\ inbuf' = f.buf /\ inbufL' = f.len /\ pos' = f.pos
    BY DEF LocalReadNone
<1>4. CASE p # 0
  <2>1. f = [buf |-> inbuf, len |-> inbufL, pos |-> pos]
    BY <1>4 DEF Filled
  <2>2. inbufP = p /\ inbufP > 0 /\ inbufP >= inbufL /\ inbufP < InBufSize
    BY <1>1, <1>2, <1>3, <1>4, <2>1
  <2>3. /\ inbufL = inbufP /\ pos = counter
        /\ Pieces \/ pos = sent
    BY <1>1, <2>2 DEF InWindow, UINT_MAX
  <2>4. pos' = pos
    BY <1>3, <2>1
  <2>5. conn = "open" \/ conn = "eof"
    BY InputAssumption DEF InputTypeOK
  <2> QED
    BY <1>1, <1>3, <2>3, <2>4, <2>5 DEF InWindow, Silent
<1>5. CASE p = 0
  <2>1. PICK n \in ReadResults(Wanted) :
               f = [buf |-> Overlay(n),
                    len |-> IF n < 0 THEN UINT_MAX ELSE n,
                    pos |-> pos + (IF n < 0 THEN 0 ELSE n)]
    BY <1>5 DEF Filled
  <2>2. /\ pos = counter /\ n \in 0..InBufSize
        /\ n = 0 => (conn = "eof" /\ pos = sent) \/ counter = ContentLength
    BY <1>5, EmptyRead
  <2>3. n = 0 /\ pos' = pos
    BY <1>1, <1>3, <1>5, <2>1, <2>2
  <2> QED
    BY <1>1, <1>3, <2>2, <2>3 DEF InWindow, Silent
<1> QED
    BY <1>4, <1>5

-------------------------------------------------------------------------------
(* read_line.                                                              *)

(* The text of a line ends before its first CR or LF.                      *)
LEMMA TextUpTo ==
    ASSUME line \in Seq(Byte), NEW e \in 1..Len(line),
           line[e] \in {CR, LF},
           \A k \in 1..(e - 1) : line[k] \notin {CR, LF}
    PROVE  Text = SubSeq(line, 1, e - 1)
<1> DEFINE I == {i \in 1..Len(line) : line[i] \in {CR, LF}}
<1>1. e \in I /\ \A y \in I : e <= y
    OBVIOUS
<1>2. \A x \in I : (\A y \in I : x <= y) => x = e
    BY <1>1
<1>3. Min(I) = e
    BY <1>1, <1>2 DEF Min
<1> HIDE DEF I
<1>4. I # {} /\ e # 0
    BY <1>1
<1>5. Text = SubSeq(line, 1, (IF (IF I # {} THEN Min(I) ELSE 0) = 0
                              THEN Len(line)
                              ELSE IF I # {} THEN Min(I) ELSE 0) - 1)
    BY Zenon DEF Text, SelectInSeq, I
<1> QED
    BY <1>3, <1>4, <1>5

(* A line that does not begin with a line break has some text.             *)
LEMMA TextOfFullLine ==
    ASSUME line \in Seq(Byte), Len(line) >= 1, line[Len(line)] = LF,
           line[1] \notin {CR, LF}
    PROVE  Text # <<>>
<1> DEFINE I == {i \in 1..Len(line) : line[i] \in {CR, LF}}
<1>1. Len(line) \in Nat /\ Len(line) \in I /\ I \subseteq Nat
    OBVIOUS
<1>2. Min(I) \in I
    BY <1>1, LeastNat
<1>3. Min(I) \in 2..Len(line)
    BY <1>1, <1>2
<1> HIDE DEF I
<1>4. I # {} /\ Min(I) # 0
    BY <1>1, <1>3
<1>5. Text = SubSeq(line, 1, (IF (IF I # {} THEN Min(I) ELSE 0) = 0
                              THEN Len(line)
                              ELSE IF I # {} THEN Min(I) ELSE 0) - 1)
    BY Zenon DEF Text, SelectInSeq, I
<1>6. Text = SubSeq(line, 1, Min(I) - 1)
    BY <1>4, <1>5
<1>7. Len(Text) = Min(I) - 1
    BY <1>1, <1>3, <1>6
<1> QED
    BY <1>3, <1>7

-------------------------------------------------------------------------------
(* The bodies of the upload form.                                          *)

LEMMA FormAt ==
    ASSUME FormUploads, InputTypeOK
    PROVE  /\ HeaderLen(body) \in 1..Len(body.bytes)
           /\ FormUploadAt(body, HeaderLen(body))
           /\ MarkerLen \in Nat /\ MarkerLen >= 2
           /\ LineMax \in Nat /\ MarkerLen + 2 <= LineMax
           /\ counter \in Nat /\ line \in Seq(Byte) /\ Len(line) \in Nat
<1>1. body \in Bodies /\ FormUpload(body)
    BY DEF FormUploads, InputTypeOK
<1>2. MarkerLen \in Nat /\ MarkerLen >= 2 /\ MarkerLen + 2 <= LineMax
        /\ LineMax \in Nat
    BY RingAssumption, InputAssumption, BoundaryAssumption DEF MarkerLen
<1>3. counter \in Nat /\ line \in Seq(Byte) /\ Len(line) \in Nat
    BY BodyTypes DEF InputTypeOK
<1> QED
    BY <1>1, <1>2, <1>3 DEF FormUpload, HeaderLen

(* The header of the part, byte by byte.                                   *)
LEMMA HeaderBytes ==
    ASSUME FormUploads, InputTypeOK
    PROVE  LET s == body.bytes
               h == HeaderLen(body)
           IN
           /\ h \in Nat /\ MarkerLen + 7 <= h
           /\ DispositionEnd = MarkerLen + 5
           /\ \A j \in 1..MarkerLen : s[j] = Marker[j]
           /\ s[MarkerLen + 1] = CR /\ s[MarkerLen + 2] = LF
           /\ s[MarkerLen + 3] = FwLine
           /\ s[MarkerLen + 4] = CR /\ s[MarkerLen + 5] = LF
           /\ s[h - 2] = LF /\ s[h - 1] = CR /\ s[h] = LF
           /\ h + Len(body.image) + 2 + MarkerLen <= ContentLength
<1> DEFINE s == body.bytes
           h == HeaderLen(body)
<1>1. FormHeader(s, h) /\ h + Len(body.image) + 2 + MarkerLen <= Len(s)
    BY FormAt DEF FormUploadAt
<1>2. /\ DispositionEnd + 2 <= h
      /\ \A j \in 1..MarkerLen : s[0 + j] = Marker[j]
      /\ s[MarkerLen + 1] = CR /\ s[MarkerLen + 1 + 1] = LF
      /\ s[MarkerLen + 3] = FwLine
      /\ s[MarkerLen + 4] = CR /\ s[MarkerLen + 4 + 1] = LF
      /\ s[h - 2] = LF /\ s[h - 1] = CR /\ s[h - 1 + 1] = LF
    BY <1>1 DEF FormHeader, MarkerFrom, LineBreakAt
<1>3. h \in Nat /\ MarkerLen \in Nat
    BY FormAt
<1> HIDE DEF h, s
<1>4. /\ MarkerLen + 1 + 1 = MarkerLen + 2 /\ MarkerLen + 4 + 1 = MarkerLen + 5
      /\ h - 1 + 1 = h /\ \A j \in 1..MarkerLen : 0 + j = j
    BY <1>3
<1>5. \A j \in 1..MarkerLen : s[j] = Marker[j]
    BY <1>2, <1>4
<1>6. h + Len(body.image) + 2 + MarkerLen <= ContentLength
    BY <1>1 DEF ContentLength, s
<1> QED
    BY <1>2, <1>3, <1>4, <1>5, <1>6 DEF h, s, DispositionEnd

(* The line breaks between the header lines.                               *)
LEMMA HeaderLines ==
    ASSUME FormUploads, InputTypeOK,
           NEW k \in Nat, DispositionEnd <= k, k <= HeaderLen(body) - 3,
           body.bytes[k] = LF
    PROVE  /\ body.bytes[k + 1] \notin {CR, LF}
           /\ \E e \in (k + 2)..(k + LineMax) :
                e <= HeaderLen(body) - 2 /\ body.bytes[e] = LF
<1>1. k \in DispositionEnd..(HeaderLen(body) - 3)
    BY FormAt DEF DispositionEnd
<1> QED
    BY <1>1, FormAt DEF FormUploadAt, FormHeader

LEMMA NoReset ==
    ASSUME FormUploads, InputTypeOK
    PROVE  conn # "reset"
  BY DEF FormUploads, InputTypeOK

(* One more byte of a header line.                                         *)
LEMMA LineByteStep ==
    ASSUME FormUploads, InputTypeOK, ReadInv, LineInv, LineByte
    PROVE  LineInv' /\ ReadInv'
<1> DEFINE s == body.bytes
           h == HeaderLen(body)
           a == counter - Len(line)
<1>1. /\ pc \in {"first", "disposition", "partheaders"} /\ ~LineDone
      /\ UNCHANGED <<pc, body, conn, sent, match>>
    BY DEF LineByte, LinePcs, LineInv
<1>2. PICK ch \in Byte : LocalRead(ch) /\ line' = Append(line, ch)
    BY DEF LineByte
<1>3. InWindow
    BY <1>1 DEF ReadInv, BeforeBody, LinePcs
<1>4. /\ counter' = counter + 1 /\ ch = s[counter + 1] /\ InWindow'
    BY <1>1, <1>2, <1>3, ReadsInOrder, NoReset
<1>5. /\ counter \in Nat /\ Len(line) \in Nat /\ line \in Seq(Byte)
      /\ h \in Nat /\ MarkerLen \in Nat /\ LineMax \in Nat
      /\ MarkerLen >= 2 /\ MarkerLen + 2 <= LineMax
      /\ MarkerLen + 7 <= h /\ DispositionEnd = MarkerLen + 5
      /\ s[MarkerLen + 2] = LF /\ s[MarkerLen + 5] = LF /\ s[h] = LF
    BY FormAt, HeaderBytes
<1>6. \A k \in 1..Len(line) : line[k] = s[a + k]
    BY <1>1 DEF LineInv, LinePcs
<1> HIDE DEF s, h
<1>7. /\ Len(line') = Len(line) + 1 /\ line'[Len(line) + 1] = ch
      /\ \A k \in 1..Len(line) : line'[k] = line[k]
    BY <1>2, <1>5
<1>8. counter' - Len(line') = a
    BY <1>4, <1>5, <1>7
<1>9. a + (Len(line) + 1) = counter + 1 /\ a + Len(line) = counter
    BY <1>5
<1>10. ASSUME NEW k \in 1..Len(line') PROVE line'[k] = s[a + k]
  <2>1. CASE k \in 1..Len(line)
    BY <1>6, <1>7, <2>1
  <2>2. CASE k = Len(line) + 1
    BY <1>4, <1>7, <1>9, <2>2
  <2> QED
    BY <1>5, <1>7, <2>1, <2>2
<1>11. /\ Len(line) > 0 => line[Len(line)] # LF
       /\ Len(line) # LineMax
    BY <1>1, <1>5 DEF LineDone, Last
<1>12. Len(line) > 0 => s[counter] # LF
    BY <1>5, <1>6, <1>9, <1>11
<1>13. ASSUME pc = "first" PROVE a = 0 /\ Len(line') <= MarkerLen + 2
  <2>1. a = 0 /\ Len(line) <= MarkerLen + 2
    BY <1>13 DEF LineInv
  <2>2. Len(line) # MarkerLen + 2
    BY <1>5, <1>12, <2>1
  <2> QED
    BY <1>5, <1>7, <2>1, <2>2
<1>14. ASSUME pc = "disposition"
       PROVE  a = MarkerLen + 2 /\ Len(line') <= 3
  <2>1. a = MarkerLen + 2 /\ Len(line) <= 3
    BY <1>14 DEF LineInv
  <2>2. ASSUME Len(line) = 3 PROVE FALSE
    <3>1. counter = MarkerLen + 5
      BY <1>5, <2>1, <2>2
    <3> QED
      BY <1>5, <1>12, <2>2, <3>1
  <2>3. PICK n \in Nat : n = Len(line)
    BY <1>5
  <2>4. n <= 3 /\ n # 3
    BY <2>1, <2>2, <2>3
  <2>5. n + 1 <= 3
    BY <2>4
  <2> QED
    BY <1>7, <2>1, <2>3, <2>5
<1>15. ASSUME pc = "partheaders"
       PROVE  /\ match
              /\ DispositionEnd <= a /\ a <= h - 2 /\ s[a] = LF
              /\ counter' <= h /\ Len(line') <= LineMax
              /\ \A k \in 1..(Len(line') - 1) : line'[k] # LF
  <2>1. /\ match
        /\ DispositionEnd <= a /\ a <= h - 2 /\ s[a] = LF /\ counter <= h
        /\ Len(line) <= LineMax
        /\ \A k \in 1..(Len(line) - 1) : line[k] # LF
    BY <1>15 DEF LineInv, s, h
  <2>2. counter # h
    BY <1>5, <1>12, <2>1
  <2>3. \A k \in 1..(Len(line') - 1) : line'[k] # LF
    BY <1>5, <1>7, <1>11, <2>1
  <2> QED
    BY <1>4, <1>5, <1>7, <1>11, <2>1, <2>2, <2>3
<1>16. s' = s /\ h' = h
    BY <1>1 DEF s, h
<1>17. LineInv'
    BY <1>1, <1>8, <1>10, <1>13, <1>14, <1>15, <1>16 DEF LineInv, s, h
<1> QED
    BY <1>4, <1>17 DEF ReadInv

(* The first line is the marker, the second the Content-Disposition of the *)
(* firmware: test_part_header finds what it looks for.                     *)
LEMMA FirstLineStep ==
    ASSUME FormUploads, InputTypeOK, LineInv, FirstLine
    PROVE  pc' = "disposition" /\ line' = <<>> /\ counter' = counter
             /\ counter = MarkerLen + 2 /\ status' = "none"
<1> DEFINE s == body.bytes
<1>1. /\ pc = "first" /\ LineDone /\ UNCHANGED counter
      /\ Goto(IF IsPrefix(Marker, Text) THEN "disposition" ELSE "open", "none")
    BY DEF FirstLine, NoRead
<1>2. /\ counter \in Nat /\ Len(line) \in Nat /\ line \in Seq(Byte)
      /\ MarkerLen \in Nat /\ LineMax \in Nat /\ MarkerLen + 2 <= LineMax
      /\ \A j \in 1..MarkerLen : s[j] = Marker[j]
      /\ s[MarkerLen + 1] = CR /\ s[MarkerLen + 2] = LF
      /\ MarkerLen = Len(Marker) /\ Marker \in Seq(Byte) /\ CR # LF
    BY FormAt, HeaderBytes, RingAssumption DEF MarkerLen
<1>3. /\ counter - Len(line) = 0 /\ Len(line) <= MarkerLen + 2
      /\ \A k \in 1..Len(line) : line[k] = s[0 + k]
    BY <1>1 DEF LineInv, LinePcs
<1> HIDE DEF s
<1>4. \A k \in 1..Len(line) : line[k] = s[k]
    BY <1>2, <1>3
<1>5. \A k \in 1..MarkerLen : Marker[k] \notin {CR, LF}
    BY <1>2, MarkerAssumption, BoundaryAssumption
<1>6. Len(line) = MarkerLen + 2
  <2>1. Len(line) >= 1 /\ (line[Len(line)] = LF \/ Len(line) = LineMax)
    BY <1>1, <1>2 DEF LineDone, Last
  <2>2. CASE Len(line) <= MarkerLen
    <3>1. line[Len(line)] = Marker[Len(line)] /\ Len(line) \in 1..MarkerLen
      BY <1>2, <1>4, <2>1, <2>2
    <3> QED
      BY <1>2, <1>5, <2>1, <2>2, <3>1
  <2>3. CASE Len(line) = MarkerLen + 1
    BY <1>2, <1>4, <2>1, <2>3
  <2> QED
    BY <1>2, <1>3, <2>2, <2>3
<1>7. Text = SubSeq(line, 1, MarkerLen)
  <2> DEFINE e == MarkerLen + 1
  <2>1. e \in 1..Len(line) /\ line[e] \in {CR, LF} /\ e - 1 = MarkerLen
    BY <1>2, <1>4, <1>6
  <2>2. \A k \in 1..(e - 1) : line[k] \notin {CR, LF}
    BY <1>2, <1>4, <1>5, <1>6
  <2> HIDE DEF e
  <2>3. Text = SubSeq(line, 1, e - 1)
    BY <1>2, <2>1, <2>2, TextUpTo
  <2> QED
    BY <2>1, <2>3
<1>8. /\ Len(Text) = MarkerLen /\ Text \in Seq(Byte)
      /\ \A k \in 1..MarkerLen : Text[k] = Marker[k]
    BY <1>2, <1>4, <1>6, <1>7
<1>9. IsPrefix(Marker, Text)
    BY <1>2, <1>8 DEF IsPrefix
<1> QED
    BY <1>1, <1>2, <1>3, <1>6, <1>9 DEF Goto

LEMMA DispositionStep ==
    ASSUME FormUploads, InputTypeOK, LineInv, Disposition
    PROVE  /\ pc' = "partheaders" /\ line' = <<>> /\ match' /\ status' = "none"
           /\ counter' = counter /\ counter = DispositionEnd
<1> DEFINE s == body.bytes
<1>1. /\ pc = "disposition" /\ LineDone /\ UNCHANGED counter
      /\ IF Text \in {<<NoNameLine>>, <<NotFormLine>>} THEN NoFirmware
         ELSE Goto("partheaders", "none")
      /\ match' = (Text = <<FwLine>>)
    BY DEF Disposition, NoRead
<1>2. /\ counter \in Nat /\ Len(line) \in Nat /\ line \in Seq(Byte)
      /\ MarkerLen \in Nat /\ LineMax \in Nat /\ 4 <= LineMax
      /\ s[MarkerLen + 3] = FwLine
      /\ s[MarkerLen + 4] = CR /\ s[MarkerLen + 5] = LF
      /\ FwLine \notin {CR, LF, NoNameLine, NotFormLine} /\ FwLine \in Byte
      /\ CR # LF /\ DispositionEnd = MarkerLen + 5
    BY FormAt, HeaderBytes, RingAssumption, InputAssumption
<1>3. /\ counter - Len(line) = MarkerLen + 2 /\ Len(line) <= 3
      /\ \A k \in 1..Len(line) : line[k] = s[MarkerLen + 2 + k]
    BY <1>1 DEF LineInv, LinePcs
<1> HIDE DEF s
<1>4. /\ MarkerLen + 2 + 1 = MarkerLen + 3 /\ MarkerLen + 2 + 2 = MarkerLen + 4
      /\ MarkerLen + 2 + 3 = MarkerLen + 5
    BY <1>2
<1>5. /\ Len(line) >= 1 => line[1] = FwLine
      /\ Len(line) >= 2 => line[2] = CR
      /\ Len(line) >= 3 => line[3] = LF
    BY <1>2, <1>3, <1>4
<1>6. Len(line) = 3
  <2>1. Len(line) >= 1 /\ (line[Len(line)] = LF \/ Len(line) = LineMax)
    BY <1>1, <1>2 DEF LineDone, Last
  <2>2. Len(line) # 1
    BY <1>2, <1>5, <2>1
  <2>3. Len(line) # 2
    BY <1>2, <1>5, <2>1
  <2>4. PICK n \in Nat : n = Len(line)
    BY <1>2
  <2>5. n >= 1 /\ n <= 3 /\ n # 1 /\ n # 2
    BY <1>3, <2>1, <2>2, <2>3, <2>4
  <2>6. n = 3
    BY <2>5
  <2> QED
    BY <2>4, <2>6
<1>7. Text = SubSeq(line, 1, 1)
  <2> DEFINE e == 2
  <2>1. e \in 1..Len(line) /\ line[e] \in {CR, LF} /\ e - 1 = 1
    BY <1>5, <1>6
  <2>2. \A k \in 1..(e - 1) : line[k] \notin {CR, LF}
    BY <1>2, <1>5, <1>6
  <2> HIDE DEF e
  <2>3. Text = SubSeq(line, 1, e - 1)
    BY <1>2, <2>1, <2>2, TextUpTo
  <2> QED
    BY <2>1, <2>3
<1>8. Text = <<FwLine>>
  <2>1. /\ Text \in Seq(Byte) /\ Len(Text) = 1 /\ Text[1] = line[1]
    BY <1>2, <1>6, <1>7
  <2>2. line[1] = FwLine
    BY <1>5, <1>6
  <2> QED
    BY <2>1, <2>2
<1>9. Text \notin {<<NoNameLine>>, <<NotFormLine>>}
    BY <1>2, <1>8
<1>10. counter = DispositionEnd
    BY <1>2, <1>3, <1>6
<1>11. Goto("partheaders", "none") /\ match'
    BY <1>1, <1>8, <1>9
<1> QED
    BY <1>1, <1>10, <1>11 DEF Goto

(* The header lines up to the empty one: the loop leaves exactly behind    *)
(* it, with the next byte the first of the image.                          *)
LEMMA PartHeadersStep ==
    ASSUME FormUploads, InputTypeOK, LineInv, PartHeaders
    PROVE  /\ line' = <<>> /\ match' /\ match /\ status' = "none"
           /\ counter' = counter
           /\ \/ pc' = "open" /\ counter = HeaderLen(body)
              \/ /\ pc' = "partheaders"
                 /\ DispositionEnd <= counter /\ counter <= HeaderLen(body) - 2
                 /\ body.bytes[counter] = LF
<1> DEFINE s == body.bytes
           h == HeaderLen(body)
           a == counter - Len(line)
<1>1. /\ pc = "partheaders" /\ LineDone /\ UNCHANGED <<counter, match>>
      /\ IF Text = <<>> THEN AfterPartHeaders ELSE Goto("partheaders", "none")
    BY DEF PartHeaders, NoRead
<1>2. /\ counter \in Nat /\ Len(line) \in Nat /\ line \in Seq(Byte)
      /\ h \in Nat /\ MarkerLen \in Nat /\ LineMax \in Nat /\ 4 <= LineMax
      /\ s[h - 2] = LF /\ s[h - 1] = CR /\ s[h] = LF /\ CR # LF
      /\ DispositionEnd \in Nat
  <2>1. /\ counter \in Nat /\ Len(line) \in Nat /\ line \in Seq(Byte)
        /\ MarkerLen \in Nat /\ LineMax \in Nat
        /\ MarkerLen >= 2 /\ MarkerLen + 2 <= LineMax
    BY FormAt
  <2>2. /\ h \in Nat /\ DispositionEnd = MarkerLen + 5
        /\ s[h - 2] = LF /\ s[h - 1] = CR /\ s[h] = LF
    BY HeaderBytes
  <2> QED
    BY <2>1, <2>2, RingAssumption
<1>3. /\ match /\ DispositionEnd <= a /\ a <= h - 2 /\ s[a] = LF /\ counter <= h
      /\ Len(line) <= LineMax
      /\ \A k \in 1..(Len(line) - 1) : line[k] # LF
      /\ \A k \in 1..Len(line) : line[k] = s[a + k]
    BY <1>1 DEF LineInv, LinePcs
<1>4. Len(line) >= 1 /\ (line[Len(line)] = LF \/ Len(line) = LineMax)
    BY <1>1, <1>2 DEF LineDone, Last
<1>5. a \in Nat /\ a + Len(line) = counter
    BY <1>2, <1>3
<1>6. line[1] = s[a + 1] /\ line[Len(line)] = s[counter]
  <2>1. 1 \in 1..Len(line) /\ Len(line) \in 1..Len(line)
    BY <1>2, <1>4
  <2> QED
    BY <1>3, <1>5, <2>1
<1>7. CASE a = h - 2
  <2>1. Len(line) <= 2 /\ a + 1 = h - 1
    BY <1>2, <1>3, <1>5, <1>7
  <2>2. line[1] = CR
    BY <1>2, <1>6, <2>1
  <2>3. Len(line) = 2
    <3>1. Len(line) # 1
      <4>1. CR # LF /\ LineMax # 1
        BY <1>2
      <4> QED
        BY <1>4, <2>2, <4>1
    <3>2. PICK n \in Nat : n = Len(line)
      BY <1>2
    <3>3. n # 1 /\ n <= 2 /\ n >= 1
      BY <1>4, <2>1, <3>1, <3>2
    <3>4. n = 2
      BY <3>3
    <3> QED
      BY <3>2, <3>4
  <2>4. counter = h
    BY <1>2, <1>5, <1>7, <2>3
  <2>5. Text = <<>>
    <3> DEFINE e == 1
    <3>1. e \in 1..Len(line) /\ line[e] \in {CR, LF}
            /\ \A k \in 1..(e - 1) : line[k] \notin {CR, LF}
      BY <2>2, <2>3
    <3> HIDE DEF e
    <3>2. Text = SubSeq(line, 1, e - 1)
      BY <1>2, <3>1, TextUpTo
    <3> QED
      BY <1>2, <3>2 DEF e
  <2> QED
    BY <1>1, <1>3, <2>4, <2>5 DEF AfterPartHeaders, Goto
<1>8. CASE a # h - 2
  <2>1. a <= h - 3
    BY <1>2, <1>3, <1>5, <1>8
  <2> HIDE DEF a
  <2>2. /\ s[a + 1] \notin {CR, LF}
        /\ \E e \in (a + 2)..(a + LineMax) : e <= h - 2 /\ s[e] = LF
    BY <1>3, <1>5, <2>1, HeaderLines
  <2>3. PICK e \in (a + 2)..(a + LineMax) : e <= h - 2 /\ s[e] = LF
    BY <2>2
  <2> HIDE DEF s, h
  <2> DEFINE d == e - a
  <2>4. d \in 2..LineMax /\ a + d = e
    BY <1>2, <1>5, <2>3
  <2> HIDE DEF d
  <2>5. d <= Len(line) => line[d] = LF
    BY <1>2, <1>3, <2>3, <2>4
  <2>6. d >= Len(line)
    BY <1>2, <1>3, <2>4, <2>5
  <2>7. line[Len(line)] = LF
    BY <1>2, <1>4, <2>4, <2>5, <2>6
  <2>8. counter <= h - 2 /\ DispositionEnd <= counter
    BY <1>2, <1>3, <1>5, <2>3, <2>4, <2>6
  <2>9. Text # <<>>
    BY <1>2, <1>4, <1>6, <2>2, <2>7, TextOfFullLine
  <2>10. s[counter] = LF
    BY <1>6, <2>7
  <2> QED
    BY <1>1, <1>3, <2>8, <2>9, <2>10 DEF Goto, s, h
<1> QED
    BY <1>7, <1>8

-------------------------------------------------------------------------------
(* The body loop.                                                          *)

(* The image and what follows it, byte by byte.                            *)
LEMMA ImageBytes ==
    ASSUME FormUploads, InputTypeOK
    PROVE  LET s == body.bytes
               h == HeaderLen(body)
               E == UploadEnd(body)
               n == Len(body.image)
           IN
           /\ h \in Nat /\ n \in Nat /\ MarkerLen \in Nat /\ MarkerLen >= 2
           /\ RingSize \in Nat /\ MarkerLen + 2 < RingSize
           /\ DispositionEnd \in Nat /\ DispositionEnd + 2 <= h
           /\ E = h + n + 2 + MarkerLen /\ RingSize <= n + 2 + MarkerLen
           /\ \A k \in 1..n : s[h + k] = body.image[k]
           /\ s[h + n + 1] = CR /\ s[h + n + 2] = LF
           /\ \A j \in 1..MarkerLen : s[h + n + 2 + j] = Marker[j]
           /\ \A k \in DispositionEnd..(h + n + 1) : ~MarkerFrom(s, k)
<1> DEFINE s == body.bytes
           h == HeaderLen(body)
           n == Len(body.image)
<1>1. /\ MarkerLen \in Nat /\ MarkerLen >= 2 /\ h \in Nat
      /\ DispositionEnd = MarkerLen + 5 /\ MarkerLen + 7 <= h
    BY FormAt, HeaderBytes
<1>2. n \in Nat /\ RingSize \in Nat /\ MarkerLen + 2 < RingSize
    BY BodyTypes, RingAssumption DEF MarkerLen
<1>3. /\ \A k \in 1..n : s[h + k] = body.image[k]
      /\ s[h + n + 1] = CR /\ s[h + n + 1 + 1] = LF
      /\ \A j \in 1..MarkerLen : s[h + n + 2 + j] = Marker[j]
      /\ \A k \in DispositionEnd..(h + n + 1) : ~MarkerFrom(s, k)
      /\ RingSize <= n + 2 + MarkerLen
  <2>1. FormUploadAt(body, h)
    BY FormAt
  <2> QED
    BY <2>1 DEF FormUploadAt, LineBreakAt, MarkerFrom
<1>4. UploadEnd(body) = h + n + 2 + MarkerLen
    BY DEF UploadEnd
<1> HIDE DEF s, h, n
<1>5. h + n + 1 + 1 = h + n + 2
    BY <1>1, <1>2
<1> QED
    BY <1>1, <1>2, <1>3, <1>4, <1>5 DEF s, h, n

(* The body loop has not passed the marker behind the image: the matcher   *)
(* does not miss it.                                                       *)
LEMMA BelowEnd ==
    ASSUME FormUploads, InputTypeOK, RingInv, phase = "body",
           RunFrom(counter - total)
    PROVE  counter < UploadEnd(body)
<1> DEFINE s == body.bytes
           h == HeaderLen(body)
           E == UploadEnd(body)
           n == Len(body.image)
           st == counter - total
           q == E - st
<1>1. /\ h \in Nat /\ n \in Nat /\ MarkerLen \in Nat /\ MarkerLen >= 2
      /\ E = h + n + 2 + MarkerLen /\ s[h + n + 2] = LF
      /\ \A j \in 1..MarkerLen : s[h + n + 2 + j] = Marker[j]
    BY ImageBytes
<1>2. /\ st <= h /\ DispositionEnd <= st
      /\ \A i \in 1..total : input[i] = s[st + i]
    BY DEF RunFrom
<1>3. /\ total \in Nat /\ counter \in Nat /\ DispositionEnd \in Nat
      /\ \A i \in 1..total :
           ~(MarkerAt(input, i) /\ StartsLine(input, i - MarkerLen + 1))
    BY FormAt, ImageBytes DEF RingInv, RingTypeOK, MatchInv
<1> HIDE DEF s, h, E, n
<1>4. SUFFICES ASSUME counter >= E PROVE FALSE
    BY <1>1, <1>3 DEF E
<1>5. st \in Nat /\ q \in 1..total /\ q - MarkerLen \in 2..total
        /\ st + (q - MarkerLen) = h + n + 2
    BY <1>1, <1>2, <1>3, <1>4
<1> HIDE DEF st, q
<1>6. MarkerAt(input, q)
  <2>1. ASSUME NEW j \in 1..MarkerLen
        PROVE  input[q - MarkerLen + j] = Marker[j]
    <3>1. q - MarkerLen + j \in 1..total
            /\ st + (q - MarkerLen + j) = h + n + 2 + j
      BY <1>1, <1>3, <1>5, <2>1
    <3> QED
      BY <1>1, <1>2, <3>1
  <2> QED
    BY <1>1, <1>5, <2>1 DEF MarkerAt
<1>7. StartsLine(input, q - MarkerLen + 1)
  <2>1. input[q - MarkerLen] = LF
    BY <1>1, <1>2, <1>3, <1>5
  <2>2. (q - MarkerLen + 1) - 1 = q - MarkerLen
    BY <1>1, <1>3, <1>5
  <2> QED
    BY <2>1, <2>2 DEF StartsLine
<1> QED
    BY <1>3, <1>5, <1>6, <1>7

(* One turn of the body loop; it ends at the marker behind the image.      *)
LEMMA BodyByteStep ==
    ASSUME FormUploads, InputTypeOK, RingInv, RingInv', PhaseInv, ReadInv,
           BodyInv, BodyByte
    PROVE  /\ PhaseInv' /\ ReadInv' /\ LineInv' /\ BodyInv'
           /\ Pieces \/ counter - total = HeaderLen(body)
<1> DEFINE s == body.bytes
           h == HeaderLen(body)
           E == UploadEnd(body)
           st == counter - total
<1>1. /\ pc = "body" /\ phase = "body" /\ InWindow
      /\ RunFrom(st) /\ (Pieces \/ st = h \/ Silent)
    BY DEF BodyByte, PhaseInv, ReadInv, BodyInv, BeforeBody
<1>2. PICK ch \in Byte : LocalRead(ch) /\ RingAppend(ch)
    BY DEF BodyByte
<1>3. UNCHANGED <<request, body, conn, sent, line, match, status>>
    BY DEF BodyByte
<1>4. /\ counter' = counter + 1 /\ ch = s[counter + 1] /\ InWindow'
      /\ ~Silent
    BY <1>1, <1>2, <1>3, ReadsInOrder, NoReset
<1>5. /\ total' = total + 1 /\ input' = Append(input, ch)
      /\ phase' = "body" \/ phase' = "drain"
      /\ pc' = IF phase' = "drain" THEN "drain" ELSE "body"
    BY <1>1, <1>2 DEF RingAppend, BodyByte
<1>6. /\ total \in Nat /\ counter \in Nat /\ input \in Seq(Byte)
      /\ Len(input) = total
    BY FormAt DEF RingInv, RingTypeOK, WindowInv
<1>7. /\ MarkerLen \in Nat /\ DispositionEnd \in Nat /\ h \in Nat
      /\ Len(body.image) \in Nat /\ E = h + Len(body.image) + 2 + MarkerLen
      /\ \A k \in DispositionEnd..(h + Len(body.image) + 1) : ~MarkerFrom(s, k)
    BY ImageBytes
<1>8. /\ DispositionEnd <= st /\ st <= h
      /\ \A k \in 1..total : input[k] = s[st + k]
    BY <1>1 DEF RunFrom
<1>9. counter < E
    BY <1>1, BelowEnd
<1>10. s' = s /\ h' = h /\ E' = E
    BY <1>3
<1> HIDE DEF s, h, E
<1>11. counter' - total' = st
    BY <1>4, <1>5, <1>6
<1>12. ASSUME NEW k \in 1..total' PROVE input'[k] = s[st + k]
  <2>1. CASE k \in 1..total
    BY <1>5, <1>6, <1>8, <2>1
  <2>2. CASE k = total + 1
    <3>1. st + k = counter + 1
      BY <1>6, <2>2
    <3>2. input'[k] = ch
      BY <1>5, <1>6, <2>2
    <3> QED
      BY <1>4, <3>1, <3>2
  <2> QED
    BY <1>5, <1>6, <2>1, <2>2
<1>13. RunFrom(st)'
  <2>1. st' = st
    BY <1>11
  <2> QED
    BY <1>8, <1>10, <1>12, <2>1 DEF RunFrom, s, h
<1>14. ASSUME phase' = "drain" PROVE E - total' = st
  <2> DEFINE m == counter + 1 - MarkerLen
  <2>1. /\ matched' = MarkerLen /\ matched' <= total'
        /\ \A j \in 1..matched' : input'[total' - matched' + j] = Marker[j]
    BY <1>14 DEF RingInv, MatchInv
  <2>2. ASSUME NEW j \in 1..MarkerLen PROVE s[m + j] = Marker[j]
    <3>1. /\ total' - MarkerLen + j \in 1..total'
          /\ st + (total' - MarkerLen + j) = m + j
      BY <1>5, <1>6, <1>7, <2>1, <2>2
    <3>2. input'[total' - MarkerLen + j] = s[st + (total' - MarkerLen + j)]
      BY <1>12, <3>1
    <3> QED
      BY <2>1, <2>2, <3>1, <3>2
  <2>3. MarkerFrom(s, m)
    BY <2>2 DEF MarkerFrom
  <2>4. m \in Int /\ m >= DispositionEnd
    BY <1>5, <1>6, <1>7, <1>8, <2>1
  <2>5. ~(m <= h + Len(body.image) + 1)
    <3>1. m \notin DispositionEnd..(h + Len(body.image) + 1)
      BY <1>7, <2>3
    <3> QED
      BY <1>7, <2>4, <3>1
  <2> QED
    BY <1>5, <1>6, <1>7, <1>9, <2>4, <2>5
<1>15. Pieces \/ st = h
    BY <1>1, <1>4
<1>16. status = "none"
    BY <1>1 DEF InputTypeOK
<1>17. BodyInv'
  <2>1. CASE phase' = "drain"
    <3>1. pc' = "drain" /\ E' - total' = st /\ (E - total)' = st
      BY <1>5, <1>10, <1>14, <2>1
    <3>2. RunFrom(UploadEnd(body) - total)'
      BY <1>11, <1>13, <3>1 DEF RunFrom, E
    <3> QED
      BY <1>3, <1>10, <1>15, <1>16, <3>1, <3>2 DEF BodyInv, E, h
  <2>2. CASE phase' = "body"
    <3>1. pc' = "body"
      BY <1>5, <2>2
    <3> QED
      BY <1>3, <1>10, <1>11, <1>13, <1>15, <1>16, <3>1 DEF BodyInv, h
  <2> QED
    BY <1>5, <2>1, <2>2
<1>18. PhaseInv'
    BY <1>3, <1>5, <1>16 DEF PhaseInv, BeforeBody, LinePcs
<1>19. ReadInv' /\ LineInv'
    BY <1>4, <1>5 DEF ReadInv, LineInv, LinePcs
<1> QED
    BY <1>15, <1>17, <1>18, <1>19 DEF h

(* A call that has given up has nothing left to keep.                      *)
LEMMA GivenUp ==
    ASSUME pc' \in {"close", "done"}, status' # "READY",
           pc' = "close" => phase' = "body"
    PROVE  PhaseInv' /\ ReadInv' /\ LineInv' /\ BodyInv'
  BY DEF PhaseInv, ReadInv, LineInv, BodyInv, BeforeBody, LinePcs

(* Where http_input stands before the body loop, with nothing in the ring. *)
LEMMA BeforeBodyStep ==
    ASSUME InputTypeOK, pc' \in BeforeBody, status' = "none",
           UNCHANGED <<ringVars, body>>, pc \in BeforeBody, PhaseInv,
           InWindow', LineInv',
           pc' = "open" => BodyInv'
    PROVE  PhaseInv' /\ ReadInv' /\ LineInv' /\ BodyInv'
<1>1. phase' = "body" /\ total' = 0
    BY DEF PhaseInv, ringVars
<1>2. pc' \notin {"body", "drain", "discard", "close", "done"}
    BY DEF BeforeBody, LinePcs
<1>3. PhaseInv' /\ ReadInv'
    BY <1>1, <1>2 DEF PhaseInv, ReadInv
<1>4. BodyInv'
    BY <1>2 DEF BodyInv
<1> QED
    BY <1>3, <1>4

(* The loop over the header lines is left: at the empty line, or because   *)
(* local_read returned 0.                                                  *)
LEMMA OpenStep ==
    ASSUME FormUploads, InputTypeOK, RingInv, PhaseInv, pc = "partheaders",
           pc' = "open", status' = "none", UNCHANGED <<ringVars, body>>,
           counter' = counter,
           DispositionEnd <= counter, counter <= HeaderLen(body),
           Pieces \/ counter = HeaderLen(body) \/ Silent'
    PROVE  BodyInv'
<1>1. total = 0 /\ total' = 0
    BY DEF PhaseInv, BeforeBody, LinePcs, ringVars
<1>2. counter \in Nat
    BY FormAt
<1>3. (counter - total)' = counter
    BY <1>1, <1>2
<1>4. RunFrom(counter - total)'
    BY <1>1, <1>3 DEF RunFrom
<1> QED
    BY <1>1, <1>3, <1>4 DEF BodyInv

LEMMA HeaderStep ==
    ASSUME FormUploads, InputTypeOK, RingInv, PhaseInv, ReadInv, LineInv,
           BodyInv,
           \/ ReadRequest \/ LineByte \/ FirstLine \/ FirstLineFails
           \/ Disposition \/ DispositionFails \/ PartHeaders
           \/ PartHeadersFail
    PROVE  PhaseInv' /\ ReadInv' /\ LineInv' /\ BodyInv'
<1>0. /\ pc \in BeforeBody => InWindow
      /\ counter \in Nat /\ MarkerLen \in Nat /\ Len(line) \in Nat
      /\ DispositionEnd = MarkerLen + 5
    BY FormAt, HeaderBytes DEF ReadInv
<1>1. CASE ReadRequest
  <2>1. /\ pc = "request" /\ NoRead
        /\ \/ pc' = "done" /\ status' # "READY"
           \/ pc' = "first" /\ status' = "none" /\ line' = <<>>
    BY <1>1 DEF ReadRequest, Goto
  <2>2. CASE pc' = "done" /\ status' # "READY"
    BY <2>2, GivenUp
  <2>3. CASE pc' = "first" /\ status' = "none" /\ line' = <<>>
    <3>1. counter' = 0 /\ Len(line') = 0 /\ counter' - Len(line') = 0
      BY <2>1, <2>3 DEF LineInv, NoRead
    <3>2. LineInv'
      BY <1>0, <2>3, <3>1 DEF LineInv, LinePcs
    <3>3. InWindow'
      BY <1>0, <2>1 DEF InWindow, NoRead, BeforeBody, ContentLength
    <3> QED
      BY <2>1, <2>3, <3>2, <3>3, BeforeBodyStep DEF NoRead, BeforeBody, LinePcs
  <2> QED
    BY <2>1, <2>2, <2>3
<1>2. CASE LineByte
  <2>1. LineInv' /\ ReadInv'
    BY <1>2, LineByteStep
  <2>2. /\ pc' = pc /\ pc \in BeforeBody \ {"open"} /\ status' = status
        /\ UNCHANGED <<ringVars, body>>
    BY <1>2 DEF LineByte, LinePcs, BeforeBody
  <2>3. status' = "none" /\ InWindow'
    BY <2>1, <2>2 DEF InputTypeOK, ReadInv, BeforeBody, LinePcs
  <2> QED
    BY <2>1, <2>2, <2>3, BeforeBodyStep
<1>3. CASE FirstLine
  <2>1. /\ pc' = "disposition" /\ line' = <<>> /\ counter' = counter
        /\ counter = MarkerLen + 2 /\ status' = "none"
    BY <1>3, FirstLineStep
  <2>2. NoRead /\ pc \in BeforeBody
    BY <1>3 DEF FirstLine, BeforeBody, LinePcs
  <2>3. LineInv'
    BY <1>0, <2>1 DEF LineInv
  <2>4. InWindow'
    BY <1>0, <2>2 DEF InWindow, NoRead, ContentLength
  <2> QED
    BY <2>1, <2>2, <2>3, <2>4, BeforeBodyStep DEF NoRead, BeforeBody, LinePcs
<1>4. CASE FirstLineFails
  <2>1. pc' = "done" /\ status' # "READY"
    BY <1>4 DEF FirstLineFails, Goto
  <2> QED
    BY <2>1, GivenUp
<1>5. CASE Disposition
  <2>1. /\ pc' = "partheaders" /\ line' = <<>> /\ match' /\ status' = "none"
        /\ counter' = counter /\ counter = DispositionEnd
    BY <1>5, DispositionStep
  <2>2. NoRead /\ pc \in BeforeBody
    BY <1>5 DEF Disposition, BeforeBody, LinePcs
  <2>3. body.bytes[DispositionEnd] = LF /\ DispositionEnd <= HeaderLen(body) - 2
          /\ HeaderLen(body) \in Nat /\ LineMax \in Nat
    BY FormAt, HeaderBytes
  <2>4. body' = body
    BY <2>2 DEF NoRead
  <2>5. Len(line') = 0 /\ counter' - Len(line') = DispositionEnd
    BY <1>0, <2>1
  <2>6. LineInv'
    BY <1>0, <2>1, <2>3, <2>4, <2>5 DEF LineInv
  <2>7. InWindow'
    BY <1>0, <2>2 DEF InWindow, NoRead, ContentLength
  <2> QED
    BY <2>1, <2>2, <2>6, <2>7, BeforeBodyStep DEF NoRead, BeforeBody, LinePcs
<1>6. CASE DispositionFails
  <2>1. pc' = "done" /\ status' # "READY"
    BY <1>6 DEF DispositionFails, NoFirmware, Goto
  <2> QED
    BY <2>1, GivenUp
<1>7. CASE PartHeaders
  <2>1. /\ line' = <<>> /\ match' /\ match /\ status' = "none"
        /\ counter' = counter
        /\ \/ pc' = "open" /\ counter = HeaderLen(body)
           \/ /\ pc' = "partheaders"
              /\ DispositionEnd <= counter /\ counter <= HeaderLen(body) - 2
              /\ body.bytes[counter] = LF
    BY <1>7, PartHeadersStep
  <2>2. NoRead /\ pc = "partheaders"
    BY <1>7 DEF PartHeaders
  <2>3. HeaderLen(body) \in Nat /\ LineMax \in Nat
          /\ DispositionEnd <= HeaderLen(body)
    BY <1>0, FormAt, HeaderBytes
  <2>4. body' = body /\ UNCHANGED ringVars
    BY <2>2 DEF NoRead
  <2>5. Len(line') = 0 /\ counter' - Len(line') = counter
    BY <1>0, <2>1
  <2>6. LineInv'
    BY <1>0, <2>1, <2>3, <2>4, <2>5 DEF LineInv
  <2>7. InWindow'
    BY <1>0, <2>2 DEF InWindow, NoRead, ContentLength, BeforeBody, LinePcs
  <2>8. pc' = "open" => BodyInv'
    BY <2>1, <2>2, <2>3, <2>4, OpenStep
  <2> QED
    BY <2>1, <2>2, <2>4, <2>6, <2>7, <2>8, BeforeBodyStep
       DEF BeforeBody, LinePcs
<1>8. CASE PartHeadersFail
  <2>1. /\ pc = "partheaders" /\ LocalReadNone
        /\ UNCHANGED <<body, conn, sent>>
        /\ UNCHANGED ringVars /\ AfterPartHeaders
    BY <1>8 DEF PartHeadersFail, NoRing
  <2>2. /\ match /\ DispositionEnd <= counter - Len(line)
        /\ counter <= HeaderLen(body)
    BY <2>1 DEF LineInv
  <2>3. pc' = "open" /\ status' = "none" /\ line' = <<>>
    BY <2>1, <2>2 DEF AfterPartHeaders, Goto
  <2>4. InWindow
    BY <1>0, <2>1 DEF BeforeBody, LinePcs
  <2>5. /\ counter' = counter /\ InWindow'
        /\ Pieces \/ Silent' \/ counter = ContentLength
    BY <2>1, <2>4, NoneKeepsWindow, NoReset
  <2>6. counter # ContentLength /\ DispositionEnd <= counter
    <3>1. HeaderLen(body) \in Nat /\ Len(body.image) \in Nat
            /\ HeaderLen(body) + Len(body.image) + 2 + MarkerLen <= ContentLength
            /\ ContentLength \in Nat
      BY HeaderBytes, BodyTypes
    <3> QED
      BY <1>0, <2>2, <3>1
  <2>7. BodyInv'
    BY <2>1, <2>2, <2>3, <2>5, <2>6, OpenStep
  <2>8. LineInv'
    BY <2>3 DEF LineInv, LinePcs
  <2> QED
    BY <2>1, <2>3, <2>5, <2>7, <2>8, BeforeBodyStep DEF BeforeBody, LinePcs
<1> QED
    BY <1>1, <1>2, <1>3, <1>4, <1>5, <1>6, <1>7, <1>8

(* The rest of http_input: opening the file, the body loop, the drain, the *)
(* discard loop and the close.                                             *)
LEMMA FileStep ==
    ASSUME FormUploads, InputTypeOK, RingInv, RingInv', PhaseInv, ReadInv,
           LineInv, BodyInv,
           \/ OpenOutput \/ BodyByte \/ BodyFails \/ DrainRing \/ Discard
           \/ Accepted \/ Close
    PROVE  PhaseInv' /\ ReadInv' /\ LineInv' /\ BodyInv'
<1>1. CASE OpenOutput
  <2>1. /\ pc = "open" /\ NoRead /\ line' = <<>>
        /\ \/ pc' = "body" /\ status' = "none"
           \/ pc' = "done" /\ status' = "CANT_OPEN_OFILE"
           \/ pc' = "close" /\ status' = "RB_INIT_ERR"
    BY <1>1 DEF OpenOutput, Goto
  <2>2. phase' = "body" /\ total' = total
    BY <2>1 DEF PhaseInv, BeforeBody, NoRead, ringVars
  <2>3. CASE pc' = "body" /\ status' = "none"
    <3>1. InWindow'
      BY <2>1 DEF ReadInv, InWindow, BeforeBody, NoRead, ContentLength
    <3>2. BodyInv'
      BY <2>1, <2>3 DEF BodyInv, NoRead, ringVars, RunFrom, Silent
    <3> QED
      BY <2>2, <2>3, <3>1, <3>2
         DEF PhaseInv, ReadInv, LineInv, BeforeBody, LinePcs
  <2>4. CASE pc' \in {"done", "close"} /\ status' # "READY"
    BY <2>2, <2>4, GivenUp
  <2> QED
    BY <2>1, <2>3, <2>4
<1>2. CASE BodyByte
    BY <1>2, BodyByteStep
<1>3. CASE BodyFails
  <2>1. pc = "body" /\ pc' = "close" /\ status' = "SHOW_INDEX"
          /\ phase' = phase
    BY <1>3 DEF BodyFails, Goto, NoRing, ringVars
  <2>2. phase' = "body"
    BY <2>1 DEF PhaseInv
  <2> QED
    BY <2>1, <2>2, GivenUp
<1>4. CASE DrainRing
  <2>1. /\ pc = "drain" /\ phase = "drain" /\ status = "none"
        /\ UNCHANGED <<total, matched, input, body, status>>
        /\ phase' \in {"drain", "drained"}
        /\ pc' = IF phase' = "drained" THEN "discard" ELSE "drain"
    BY <1>4 DEF DrainRing, Drain, DrainShort, DrainByte, DrainEnd, PhaseInv,
                InputTypeOK
  <2>2. PhaseInv' /\ ReadInv' /\ LineInv'
    BY <2>1 DEF PhaseInv, ReadInv, LineInv, BeforeBody, LinePcs
  <2>3. BodyInv'
    BY <2>1 DEF BodyInv, RunFrom
  <2> QED
    BY <2>2, <2>3
<1>5. CASE Discard
  <2>1. /\ pc = "discard" /\ pc' = "discard" /\ status = "none"
        /\ UNCHANGED <<total, phase, input, body, status>>
    BY <1>5 DEF Discard, NoRing, ringVars, InputTypeOK
  <2>2. PhaseInv' /\ ReadInv' /\ LineInv'
    BY <2>1 DEF PhaseInv, ReadInv, LineInv, BeforeBody, LinePcs
  <2>3. BodyInv'
    BY <2>1 DEF BodyInv, RunFrom
  <2> QED
    BY <2>2, <2>3
<1>6. CASE Accepted
  <2>1. /\ pc = "discard" /\ pc' = "close" /\ status' = "READY"
        /\ UNCHANGED <<total, phase, input, body, matched>>
    BY <1>6 DEF Accepted, Goto, NoRead, ringVars
  <2>2. phase = "drained" /\ matched = MarkerLen
    BY <2>1 DEF PhaseInv, RingInv, MatchInv
  <2>3. PhaseInv' /\ ReadInv' /\ LineInv'
    BY <2>1, <2>2 DEF PhaseInv, ReadInv, LineInv, BeforeBody, LinePcs
  <2>4. BodyInv'
    BY <2>1 DEF BodyInv, RunFrom
  <2> QED
    BY <2>3, <2>4
<1>7. CASE Close
  <2>1. /\ pc = "close" /\ pc' = "done" /\ phase' = "closed"
        /\ UNCHANGED <<total, input, body, matched, status>>
    BY <1>7 DEF Close, LocalClose
  <2>2. PhaseInv' /\ ReadInv' /\ LineInv'
    BY <2>1 DEF PhaseInv, ReadInv, LineInv, BeforeBody, LinePcs
  <2>3. BodyInv'
    BY <2>1 DEF BodyInv, RunFrom
  <2> QED
    BY <2>2, <2>3
<1> QED
    BY <1>1, <1>2, <1>3, <1>4, <1>5, <1>6, <1>7

(* What the faults and the steps of others leave alone.                    *)
LEMMA FaultStep ==
    ASSUME InputTypeOK, PhaseInv, ReadInv, LineInv, BodyInv,
           \/ UNCHANGED vars
           \/ \E f \in Faults : ConnFault(f)
    PROVE  PhaseInv' /\ ReadInv' /\ LineInv' /\ BodyInv'
<1>1. /\ UNCHANGED <<ringVars, pc, body, pos, counter, inbuf, inbufP, inbufL,
                     line, match, status>>
      /\ (conn' = conn /\ sent' = sent) \/ conn = "open"
      /\ pos = sent => pos' = sent'
  <2>1. CASE UNCHANGED vars
    BY <2>1 DEF vars, inVars
  <2>2. ASSUME NEW f \in Faults, ConnFault(f)
        PROVE  /\ UNCHANGED <<ringVars, pc, body, pos, counter, inbuf, inbufP,
                              inbufL, line, match, status>>
               /\ conn = "open"
               /\ pos = sent => pos' = sent'
    BY <2>2, BodyTypes DEF ConnFault, InputTypeOK
  <2> QED
    BY <2>1, <2>2
<1>2. UNCHANGED <<total, matched, phase, input>> /\ (Silent => Silent')
    BY <1>1 DEF ringVars, Silent
<1>3. PhaseInv' /\ ReadInv' /\ LineInv'
    BY <1>1, <1>2 DEF PhaseInv, ReadInv, LineInv, InWindow
<1>4. BodyInv'
    BY <1>1, <1>2 DEF BodyInv, RunFrom
<1> QED
    BY <1>3, <1>4

(* A form upload is read as such to the end, whatever the connection does. *)
LEMMA FormStep ==
    ASSUME FormUploads, InputTypeOK, RingInv, RingInv', PhaseInv, ReadInv,
           LineInv, BodyInv, [InputNext]_vars
    PROVE  PhaseInv' /\ ReadInv' /\ LineInv' /\ BodyInv'
<1>1. CASE Skip \/ SkipLine \/ SkipLineFails
    BY <1>1 DEF Skip, SkipLine, SkipLineFails, LineInv
<1>2. CASE \/ ReadRequest \/ LineByte \/ FirstLine \/ FirstLineFails
           \/ Disposition \/ DispositionFails \/ PartHeaders
           \/ PartHeadersFail
    BY <1>2, HeaderStep
<1>3. CASE \/ OpenOutput \/ BodyByte \/ BodyFails \/ DrainRing \/ Discard
           \/ Accepted \/ Close
    BY <1>3, FileStep
<1>4. CASE UNCHANGED vars \/ \E f \in Faults : ConnFault(f)
    BY <1>4, FaultStep
<1> QED
    BY <1>1, <1>2, <1>3, <1>4 DEF InputNext, HttpStep

LEMMA FormInit ==
    ASSUME InputInit
    PROVE  PhaseInv /\ ReadInv /\ LineInv /\ BodyInv
<1>1. /\ pc = "request" /\ counter = 0 /\ line = <<>> /\ status = "none"
      /\ phase = "body" /\ total = 0 /\ inbufP = 0 /\ pos = 0
    BY DEF InputInit, RingInit
<1> QED
    BY <1>1 DEF PhaseInv, ReadInv, LineInv, BodyInv, InWindow, BeforeBody,
                LinePcs

-------------------------------------------------------------------------------
(* The output file.                                                        *)

(* What the ring has let out, if it got the body from the image on.        *)
LEMMA EmittedIsImage ==
    ASSUME FormUploads
    PROVE  /\ InputTypeOK /\ RingInv
           /\ total >= RingSize \/ phase = "body"
           /\ RunFrom(HeaderLen(body)) /\ filesize <= Len(body.image)
           => FileInv
<1> SUFFICES ASSUME InputTypeOK, RingInv,
                    total >= RingSize \/ phase = "body",
                    RunFrom(HeaderLen(body)), filesize <= Len(body.image)
             PROVE  FileInv
    OBVIOUS
<1>1. /\ Len(written) + Len(wrbuf) = filesize /\ filesize \in Nat
      /\ filesize <= total /\ total \in Nat
      /\ \A k \in 1..filesize : Emitted(k) = input[k]
    BY DEF RingInv, StreamInv, RingTypeOK
<1>2. \A k \in 1..total : input[k] = body.bytes[HeaderLen(body) + k]
    BY DEF RunFrom
<1>3. /\ \A k \in 1..Len(body.image) :
           body.bytes[HeaderLen(body) + k] = body.image[k]
      /\ Len(body.image) \in Nat
    BY ImageBytes
<1>4. \A k \in 1..filesize : Emitted(k) = body.image[k]
    BY <1>1, <1>2, <1>3
<1> QED
    BY <1>1, <1>4 DEF FileInv

(* The same of the state after a step.                                     *)
LEMMA EmittedIsImageNext ==
    ASSUME FormUploads
    PROVE  /\ InputTypeOK' /\ RingInv'
           /\ (total >= RingSize \/ phase = "body")'
           /\ RunFrom(HeaderLen(body))' /\ (filesize <= Len(body.image))'
           => FileInv'
  BY EmittedIsImage, PTL

(* The ring filled up before the marker behind the image was recognised,   *)
(* and the drain stops at the end of the image.                            *)
LEMMA DrainEndsImage ==
    ASSUME FormUploads
    PROVE  /\ InputTypeOK /\ RingInv /\ matched = MarkerLen
           /\ RunFrom(UploadEnd(body) - total)
           => total >= RingSize /\ ImageLen = total - MarkerLen - 2
<1> SUFFICES ASSUME InputTypeOK, RingInv, matched = MarkerLen,
                    RunFrom(UploadEnd(body) - total)
             PROVE  total >= RingSize /\ ImageLen = total - MarkerLen - 2
    OBVIOUS
<1> DEFINE h == HeaderLen(body)
           n == Len(body.image)
           E == UploadEnd(body)
<1>1. /\ h \in Nat /\ n \in Nat /\ MarkerLen \in Nat /\ RingSize \in Nat
      /\ E = h + n + 2 + MarkerLen /\ RingSize <= n + 2 + MarkerLen
      /\ body.bytes[h + n + 1] = CR /\ MarkerLen + 2 < RingSize
    BY ImageBytes
<1>2. /\ total \in Nat /\ E - total <= h
      /\ \A k \in 1..total : input[k] = body.bytes[(E - total) + k]
    BY DEF RingInv, RingTypeOK, RunFrom
<1> HIDE DEF h, n, E
<1>3. total >= RingSize
    BY <1>1, <1>2
<1>4. /\ total - MarkerLen - 1 \in 1..total
      /\ (E - total) + (total - MarkerLen - 1) = h + n + 1
    BY <1>1, <1>2, <1>3
<1>5. input[total - MarkerLen - 1] = CR
    BY <1>1, <1>2, <1>4
<1> QED
    BY <1>3, <1>5 DEF ImageLen

LEMMA DrainEndsImageNext ==
    ASSUME FormUploads
    PROVE  /\ InputTypeOK' /\ RingInv' /\ (matched = MarkerLen)'
           /\ RunFrom(UploadEnd(body) - total)'
           => (total >= RingSize)'
<1>1. /\ InputTypeOK /\ RingInv /\ matched = MarkerLen
      /\ RunFrom(UploadEnd(body) - total)
      => total >= RingSize
    BY DrainEndsImage
<1> QED
    BY <1>1, PTL

(* Only the body loop, the drain and the close touch the output file.      *)
LEMMA FileFrame ==
    ASSUME [InputNext]_vars
    PROVE  BodyByte \/ DrainRing \/ Close \/ UNCHANGED <<written, wrbuf, body>>
<1> USE DEF NoRead, NoRing, ringVars
<1>1. CASE UNCHANGED vars \/ \E f \in Faults : ConnFault(f)
    BY <1>1 DEF vars, inVars, ConnFault
<1>2. CASE ReadRequest \/ LineByte \/ FirstLine \/ FirstLineFails
    BY <1>2 DEF ReadRequest, LineByte, FirstLine, FirstLineFails
<1>3. CASE Disposition \/ DispositionFails \/ PartHeaders \/ PartHeadersFail
    BY <1>3 DEF Disposition, DispositionFails, PartHeaders, PartHeadersFail
<1>4. CASE Skip \/ SkipLine \/ SkipLineFails
    BY <1>4 DEF Skip, SkipLine, SkipLineFails
<1>5. CASE OpenOutput \/ BodyFails \/ Discard \/ Accepted
    BY <1>5 DEF OpenOutput, BodyFails, Discard, Accepted
<1> QED
    BY <1>1, <1>2, <1>3, <1>4, <1>5 DEF InputNext, HttpStep

(* The output file gets nothing but image bytes, in order.                 *)
LEMMA FileInvStep ==
    ASSUME FormUploads, ~Pieces, InputTypeOK, InputTypeOK', RingInv, RingInv',
           PhaseInv, ReadInv, BodyInv, BodyInv', FileInv,
           [InputNext]_vars
    PROVE  FileInv'
<1> DEFINE h == HeaderLen(body)
           n == Len(body.image)
           E == UploadEnd(body)
<1>0. /\ h \in Nat /\ n \in Nat /\ MarkerLen \in Nat /\ RingSize \in Nat
      /\ E = h + n + 2 + MarkerLen /\ MarkerLen + 2 < RingSize
      /\ total \in Nat /\ counter \in Nat
    BY ImageBytes, FormAt DEF RingInv, RingTypeOK
<1>1. CASE UNCHANGED <<written, wrbuf, body>>
    BY <1>1 DEF FileInv, Emitted
<1>2. CASE BodyByte
  <2>1. /\ counter - total = h /\ pc = "body" /\ body' = body
        /\ phase = "body" /\ RunFrom(counter - total)
    BY <1>2, BodyByteStep DEF BodyByte, PhaseInv, BodyInv
  <2>2. PICK ch \in Byte : LocalRead(ch) /\ RingAppend(ch)
    BY <1>2 DEF BodyByte
  <2>3. counter' = counter + 1
    <3>1. UNCHANGED <<body, sent>>
      BY <1>2 DEF BodyByte
    <3> QED
      BY <2>1, <2>2, <3>1, ReadsInOrder, NoReset DEF ReadInv, BeforeBody
  <2>4. /\ total' = total + 1
        /\ filesize' = IF total >= RingSize THEN filesize + 1 ELSE filesize
        /\ phase' = "body" \/ phase' = "drain"
        /\ pc' = IF phase' = "drain" THEN "drain" ELSE "body"
    BY <1>2, <2>2 DEF RingAppend, BodyByte
  <2>5. counter < E
    BY <2>1, BelowEnd
  <2>6. filesize = IF total >= RingSize THEN total - RingSize ELSE 0
    BY <2>1 DEF RingInv, StreamInv
  <2> HIDE DEF h, n, E
  <2>7. filesize' <= n /\ counter' - total' = h
    BY <1>0, <2>1, <2>3, <2>4, <2>5, <2>6
  <2>8. CASE phase' = "body"
    <3>1. RunFrom(counter - total)'
      BY <2>4, <2>8 DEF BodyInv
    <3>2. RunFrom(h)'
      BY <2>1, <2>7, <3>1 DEF RunFrom, h
    <3> QED
      BY <2>1, <2>7, <2>8, <3>2, EmittedIsImageNext DEF h, n
  <2>9. CASE phase' = "drain"
    <3>1. /\ RunFrom(UploadEnd(body) - total)' /\ matched' = MarkerLen
          /\ UploadEnd(body)' - total' = HeaderLen(body)'
      BY <2>4, <2>9 DEF BodyInv, RingInv, MatchInv
    <3>2. RunFrom(h)'
      BY <2>1, <3>1 DEF RunFrom, h
    <3>3. total' >= RingSize
      BY <3>1, DrainEndsImageNext
    <3> QED
      BY <2>1, <2>7, <3>2, <3>3, EmittedIsImageNext DEF h, n
  <2> QED
    BY <2>4, <2>8, <2>9
<1>3. CASE DrainRing
  <2>1. /\ pc = "drain" /\ phase = "drain" /\ matched = MarkerLen
        /\ RunFrom(E - total) /\ E - total = h
    BY <1>3 DEF DrainRing, PhaseInv, RingInv, MatchInv, BodyInv
  <2>2. total >= RingSize /\ ImageLen = total - MarkerLen - 2
    BY <2>1, DrainEndsImage
  <2>3. CASE DrainByte
    <3>1. /\ UNCHANGED <<total, phase, input>> /\ body' = body
      BY <1>3, <2>3 DEF DrainByte, DrainRing
    <3>2. filesize' <= ImageLen' /\ ImageLen' = ImageLen
      BY <2>1, <2>2, <3>1 DEF RingInv, StreamInv, ImageLen
    <3>3. RunFrom(h)'
      BY <2>1, <3>1 DEF RunFrom
    <3> HIDE DEF h, n, E
    <3>4. ImageLen = n
      BY <1>0, <2>1, <2>2
    <3> QED
      BY <2>2, <3>1, <3>2, <3>3, <3>4, EmittedIsImageNext DEF h, n
  <2>4. CASE DrainEnd
    BY <1>1, <1>3, <2>4 DEF DrainEnd, DrainRing
  <2> QED
    BY <1>0, <1>3, <2>2, <2>3, <2>4 DEF DrainRing, Drain, DrainShort
<1>4. CASE Close
  <2>1. /\ written' = written \o wrbuf /\ wrbuf' = <<>> /\ body' = body
    BY <1>4 DEF Close, LocalClose
  <2>2. /\ Len(written') = Len(written) + Len(wrbuf) /\ Len(wrbuf') = 0
        /\ \A k \in 1..Len(written') : written'[k] = Emitted(k)
        /\ Len(written') \in Nat
    BY <2>1, FlushEmits DEF InputTypeOK
  <2>3. /\ Len(written') + Len(wrbuf') = Len(written')
        /\ \A k \in 1..Len(written') : Emitted(k)' = written'[k]
    BY <2>2 DEF Emitted
  <2> QED
    BY <2>1, <2>2, <2>3 DEF FileInv
<1> QED
    BY <1>1, <1>2, <1>3, <1>4, FileFrame

-------------------------------------------------------------------------------
(* The theorems.                                                           *)

(* The inductive invariant of http_input, for clients that send the form   *)
(* of http_index and connections that may close at any moment.             *)
THEOREM InputInvariance ==
    ASSUME FormUploads
    PROVE  InputSpec => []InputInv
<1>1. InputInit => InputInv
  <2> SUFFICES ASSUME InputInit PROVE InputInv
    OBVIOUS
  <2>1. InputTypeOK /\ RingInv
    BY InputTypeInit, RingInitInv DEF InputInit
  <2>2. PhaseInv /\ ReadInv /\ LineInv /\ BodyInv
    BY FormInit
  <2>3. FileInv
    <3>1. Len(written) + Len(wrbuf) = 0
      BY DEF InputInit, RingInit
    <3> QED
      BY <2>1, <3>1, BodyTypes DEF FileInv
  <2> QED
    BY <2>1, <2>2, <2>3 DEF InputInv
<1>2. InputInv /\ RingInv' /\ [InputNext]_vars => InputInv'
  <2> SUFFICES ASSUME InputInv, RingInv', [InputNext]_vars PROVE InputInv'
    OBVIOUS
  <2>1. /\ InputTypeOK /\ RingInv /\ PhaseInv /\ ReadInv /\ LineInv /\ BodyInv
        /\ Pieces \/ FileInv
    BY DEF InputInv
  <2>2. InputTypeOK'
    BY <2>1, InputTypeStep DEF RingInv
  <2>3. PhaseInv' /\ ReadInv' /\ LineInv' /\ BodyInv'
    BY <2>1, FormStep
  <2>4. Pieces \/ FileInv'
    BY <2>1, <2>2, <2>3, FileInvStep
  <2> QED
    BY <2>2, <2>3, <2>4 DEF InputInv
<1> QED
    BY <1>1, <1>2, RingUsedAsSpecified, RingInvariance, PTL DEF InputSpec

(* What the invariant says of a call that has returned READY.              *)
LEMMA ReadyFile ==
    ASSUME FormUploads, InputInv, ReturnedReady
    PROVE  /\ written \in Seq(Byte) /\ body.image \in Seq(Byte)
           /\ Len(written) = filesize /\ filesize = total - MarkerLen - 2
           /\ UploadEnd(body) - total <= HeaderLen(body)
           /\ Pieces \/ UploadEnd(body) - total = HeaderLen(body)
           /\ \A k \in 1..filesize :
                written[k] = body.bytes[(UploadEnd(body) - total) + k]
<1>1. /\ InputTypeOK /\ RingInv /\ PhaseInv /\ BodyInv
      /\ pc = "done" /\ status = "READY"
    BY DEF InputInv, ReturnedReady
<1>2. /\ phase = "closed" /\ matched = MarkerLen
      /\ RunFrom(UploadEnd(body) - total)
      /\ Pieces \/ UploadEnd(body) - total = HeaderLen(body)
    BY <1>1 DEF PhaseInv, BodyInv
<1>3. total >= RingSize /\ ImageLen = total - MarkerLen - 2
    BY <1>1, <1>2, DrainEndsImage
<1>4. /\ wrbuf = <<>> /\ filesize = ImageLen
      /\ Len(written) + Len(wrbuf) = filesize /\ filesize <= total
      /\ \A k \in 1..filesize : Emitted(k) = input[k]
    BY <1>1, <1>2, <1>3 DEF RingInv, StreamInv
<1>5. /\ written \in Seq(Byte) /\ body.image \in Seq(Byte) /\ total \in Nat
      /\ filesize \in Nat
    BY <1>1, BodyTypes DEF InputTypeOK, RingTypeOK
<1>6. Len(written) = filesize
    BY <1>4, <1>5
<1>7. \A k \in 1..filesize : written[k] = input[k]
    BY <1>4, <1>5, <1>6 DEF Emitted
<1>8. /\ UploadEnd(body) - total <= HeaderLen(body)
      /\ \A k \in 1..total :
           input[k] = body.bytes[(UploadEnd(body) - total) + k]
    BY <1>2 DEF RunFrom
<1> QED
    BY <1>2, <1>3, <1>4, <1>5, <1>6, <1>7, <1>8

(* HTTP_INPUT_READY means that the file is the image the client put into   *)
(* the form, byte for byte, and args->filesize its size - for every image, *)
(* boundary, header and buffer size, and wherever the client stops.        *)
THEOREM ReadyIsImage ==
    ASSUME FormUploads, ~Pieces
    PROVE  InputSpec => []ReadyMeansImage
<1>1. InputInv => ReadyMeansImage
  <2> SUFFICES ASSUME InputInv, ReturnedReady
               PROVE  written = body.image /\ filesize = Len(body.image)
    BY DEF ReadyMeansImage
  <2> DEFINE h == HeaderLen(body)
             n == Len(body.image)
             E == UploadEnd(body)
  <2>1. /\ written \in Seq(Byte) /\ body.image \in Seq(Byte)
        /\ Len(written) = filesize /\ filesize = total - MarkerLen - 2
        /\ E - total = h
        /\ \A k \in 1..filesize : written[k] = body.bytes[h + k]
    BY ReadyFile
  <2>2. /\ h \in Nat /\ n \in Nat /\ MarkerLen \in Nat
        /\ E = h + n + 2 + MarkerLen
        /\ \A k \in 1..n : body.bytes[h + k] = body.image[k]
    BY ImageBytes DEF InputInv
  <2>3. total \in Nat
    BY DEF InputInv, RingInv, RingTypeOK
  <2> HIDE DEF h, E
  <2>4. filesize = n
    BY <2>1, <2>2, <2>3
  <2>5. \A k \in 1..n : written[k] = body.image[k]
    BY <2>1, <2>2, <2>4
  <2>6. written = body.image
    BY <2>1, <2>4, <2>5
  <2> QED
    BY <2>4, <2>6
<1> QED
    BY <1>1, InputInvariance, PTL

(* A body that arrives in pieces: whatever http_input takes for the end of *)
(* the part's headers, a READY file still ends with the whole image.       *)
THEOREM ReadyEndsImage ==
    ASSUME FormUploads
    PROVE  InputSpec => []ReadyEndsWithImage
<1>1. InputInv => ReadyEndsWithImage
  <2> SUFFICES ASSUME InputInv, ReturnedReady
               PROVE  /\ IsSuffix(body.image, written)
                      /\ filesize = Len(written)
    BY DEF ReadyEndsWithImage
  <2> DEFINE h == HeaderLen(body)
             n == Len(body.image)
             E == UploadEnd(body)
             w == Len(written)
  <2>1. /\ written \in Seq(Byte) /\ body.image \in Seq(Byte)
        /\ w = filesize /\ filesize = total - MarkerLen - 2
        /\ E - total <= h
        /\ \A k \in 1..filesize : written[k] = body.bytes[(E - total) + k]
    BY ReadyFile
  <2>2. /\ h \in Nat /\ n \in Nat /\ MarkerLen \in Nat
        /\ E = h + n + 2 + MarkerLen
        /\ \A k \in 1..n : body.bytes[h + k] = body.image[k]
    BY ImageBytes DEF InputInv
  <2>3. total \in Nat /\ w \in Nat
    BY <2>1 DEF InputInv, RingInv, RingTypeOK
  <2>3a. /\ n \in Nat /\ w \in Nat /\ h \in Nat
         /\ n <= w /\ E - total = h - (w - n)
    <3>1. /\ h \in Nat /\ n \in Nat /\ MarkerLen \in Nat
          /\ total \in Nat /\ w \in Nat
          /\ E = h + n + 2 + MarkerLen /\ w = total - MarkerLen - 2
          /\ E - total <= h
      BY <2>1, <2>2, <2>3
    <3> HIDE DEF h, E, n, w
    <3> QED
      BY <3>1
  <2> HIDE DEF h, E, n, w
  <2>4. n <= w
    BY <2>3a
  <2>5. \A k \in 1..n : written[(w - n) + k] = body.image[k]
    <3> TAKE k \in 1..n
    <3>1. (w - n) + k \in 1..w /\ (h - (w - n)) + ((w - n) + k) = h + k
      BY <2>3a
    <3>2. written[(w - n) + k] = body.bytes[(E - total) + ((w - n) + k)]
      BY <2>1, <3>1
    <3>3. body.bytes[h + k] = body.image[k]
      BY <2>2
    <3> QED
      BY <2>3a, <3>1, <3>2, <3>3
  <2>6. \A k \in 1..n : Reverse(body.image)[k] = Reverse(written)[k]
    <3> TAKE k \in 1..n
    <3>1. (n - k) + 1 \in 1..n /\ (w - n) + ((n - k) + 1) = (w - k) + 1
            /\ k \in 1..w
      BY <2>2, <2>3, <2>4
    <3>2. Reverse(body.image)[k] = body.image[(n - k) + 1]
      BY DEF Reverse, n
    <3>3. Reverse(written)[k] = written[(w - k) + 1]
      BY <3>1 DEF Reverse, w
    <3> QED
      BY <2>5, <3>1, <3>2, <3>3
  <2>7. /\ Reverse(body.image) \in Seq(Byte) /\ Len(Reverse(body.image)) = n
        /\ Reverse(written) \in Seq(Byte) /\ Len(Reverse(written)) = w
    BY <2>1, <2>2, <2>3 DEF Reverse, n, w
  <2>8. SubSeq(Reverse(body.image), 1, n) = SubSeq(Reverse(written), 1, n)
    BY <2>2, <2>3, <2>4, <2>6, <2>7
  <2>9. IsSuffix(body.image, written)
    BY <2>4, <2>7, <2>8 DEF IsSuffix, IsPrefix
  <2> QED
    BY <2>1, <2>9 DEF w
<1> QED
    BY <1>1, InputInvariance, PTL

-------------------------------------------------------------------------------
(* The contract of module Transfer.                                        *)

(* Concatenation keeps what was there.                                     *)
LEMMA PrefixOfConcat ==
    ASSUME NEW s \in Seq(Byte), NEW t \in Seq(Byte)
    PROVE  IsPrefix(s, s \o t)
<1>1. Len(s) <= Len(s \o t) /\ \A k \in 1..Len(s) : (s \o t)[k] = s[k]
    OBVIOUS
<1>2. SubSeq(s \o t, 1, Len(s)) = SubSeq(s, 1, Len(s))
    BY <1>1
<1> QED
    BY <1>1, <1>2 DEF IsPrefix

LEMMA PrefixOfSelf ==
    ASSUME NEW s \in Seq(Byte)
    PROVE  IsPrefix(s, s)
  BY DEF IsPrefix

(* What write(2) was given is never taken back.                            *)
LEMMA FileGrows ==
    ASSUME RingInv, [InputNext]_vars
    PROVE  IsPrefix(written, written')
<1>1. written \in Seq(Byte) /\ wrbuf \in Seq(Byte) /\ total \in Nat
        /\ buf \in [Slots -> Byte] /\ RingSize \in Nat
    BY RingAssumption DEF RingInv, RingTypeOK
<1>2. CASE written' = written
    BY <1>1, <1>2, PrefixOfSelf
<1>3. CASE written' = written \o wrbuf
    BY <1>1, <1>3, PrefixOfConcat
<1>4. CASE DrainShort
  <2> DEFINE s == [j \in 1..total |-> buf[j]]
  <2>1. written' = (written \o wrbuf) \o s /\ total < RingSize
    BY <1>4 DEF DrainShort, LocalWriteBlock
  <2>2. s \in Seq(Byte)
    BY <1>1, <2>1 DEF Slots
  <2> HIDE DEF s
  <2>3. (written \o wrbuf) \o s = written \o (wrbuf \o s)
    BY <1>1, <2>2
  <2>4. wrbuf \o s \in Seq(Byte)
    BY <1>1, <2>2
  <2>5. IsPrefix(written, written \o (wrbuf \o s))
    BY <1>1, <2>4, PrefixOfConcat, Zenon
  <2> QED
    BY <2>1, <2>3, <2>5, Zenon
<1>5. \/ written' = written \/ written' = written \o wrbuf \/ DrainShort
  <2>1. CASE BodyByte
    BY <2>1 DEF BodyByte, RingAppend, LocalWrite
  <2>2. CASE DrainRing
    BY <2>2 DEF DrainRing, Drain, DrainByte, DrainEnd, LocalWrite
  <2>3. CASE Close
    BY <2>3 DEF Close, LocalClose
  <2> QED
    BY <2>1, <2>2, <2>3, FileFrame
<1> QED
    BY <1>2, <1>3, <1>4, <1>5

(* The call that has returned makes no further step.                       *)
LEMMA DoneStays ==
    ASSUME pc = "done", [InputNext]_vars
    PROVE  UNCHANGED <<pc, status, body, written, filesize>>
<1>1. ~InputNext
    BY DEF InputNext, HttpStep, ReadRequest, LineByte, FirstLine,
           FirstLineFails, Disposition, DispositionFails, PartHeaders,
           PartHeadersFail, Skip, SkipLine, SkipLineFails, OpenOutput,
           BodyByte, BodyFails, DrainRing, Discard, Accepted, Close,
           ConnFault, LinePcs
<1> QED
    BY <1>1 DEF vars, inVars, ringVars

(* http_input implements Transfer: from the first byte on the file is a    *)
(* beginning of the image, and the call ends with all of it and READY, or  *)
(* with another status.                                                    *)
THEOREM TransferImplemented ==
    ASSUME FormUploads, ~Pieces
    PROVE  InputSpec => ImplementsTransfer
<1>1. InputInit => AsTransfer!TransferInit
    BY DEF InputInit, RingInit, AsTransfer!TransferInit, ReturnedReady
<1>2. InputInv /\ InputInv' /\ ReadyMeansImage' /\ [InputNext]_vars
        => [AsTransfer!Collect \/ AsTransfer!Ready
              \/ AsTransfer!GiveUp]_(AsTransfer!transferVars)
  <2> SUFFICES ASSUME InputInv, InputInv', ReadyMeansImage', [InputNext]_vars
               PROVE  \/ AsTransfer!Collect \/ AsTransfer!Ready
                      \/ AsTransfer!GiveUp
                      \/ UNCHANGED AsTransfer!transferVars
    OBVIOUS
  <2>1. CASE pc = "done"
    BY <2>1, DoneStays DEF AsTransfer!transferVars, ReturnedReady
  <2>2. CASE pc # "done"
    <3>1. body' = body
      BY FileFrame DEF BodyByte, DrainRing, Close
    <3>2. AsTransfer!Grows
      <4>1. IsPrefix(written, written')
        BY FileGrows DEF InputInv
      <4>2. IsPrefix(written', body.image)
        <5>1. /\ Len(written') + Len(wrbuf') <= Len(body.image)
              /\ \A k \in 1..(Len(written') + Len(wrbuf')) :
                   Emitted(k)' = body.image[k]
          BY <3>1 DEF InputInv, FileInv
        <5>2. /\ written' \in Seq(Byte) /\ Len(written') \in Nat
              /\ Len(wrbuf') \in Nat
          BY DEF InputInv, RingInv, RingTypeOK
        <5>3. body.image \in Seq(Byte)
          BY BodyTypes DEF InputInv
        <5>4. \A k \in 1..Len(written') : written'[k] = body.image[k]
          BY <5>1, <5>2 DEF Emitted
        <5>5. /\ Len(written') <= Len(body.image)
              /\ SubSeq(written', 1, Len(written'))
                   = SubSeq(body.image, 1, Len(written'))
          BY <5>1, <5>2, <5>3, <5>4
        <5> QED
          BY <5>5 DEF IsPrefix
      <4> QED
        BY <4>1, <4>2 DEF AsTransfer!Grows, AsTransfer!IsPrefix, IsPrefix
    <3>3. CASE pc' # "done"
      BY <2>2, <3>1, <3>2, <3>3 DEF AsTransfer!Collect, ReturnedReady
    <3>4. CASE pc' = "done" /\ status' = "READY"
      BY <2>2, <3>1, <3>2, <3>4
         DEF AsTransfer!Ready, ReturnedReady, ReadyMeansImage
    <3>5. CASE pc' = "done" /\ status' # "READY"
      BY <2>2, <3>1, <3>2, <3>5 DEF AsTransfer!GiveUp, ReturnedReady
    <3> QED
      BY <3>3, <3>4, <3>5
  <2> QED
    BY <2>1, <2>2
<1> QED
    BY <1>1, <1>2, InputInvariance, ReadyIsImage, PTL
       DEF InputSpec, ImplementsTransfer, AsTransfer!TransferSpec

===============================================================================

--------------------------- MODULE UploadRingProofs ---------------------------
(***************************************************************************)
(* UploadRing for every ring size, marker, write buffer size and stream:   *)
(* the file that local_close leaves is the image, byte for byte.           *)
(***************************************************************************)
EXTENDS UploadRing, TLAPS

(* Slot arithmetic: the ring indices stay below twice the ring size, where *)
(* "% RING_BUFFER_SIZE" is at most one subtraction.                        *)
LEMMA ModWithin ==
    ASSUME NEW R \in Nat \ {0}, NEW x \in 0..(2 * R - 1)
    PROVE  x % R = IF x < R THEN x ELSE x - R
<1>1. CASE x < R
    BY <1>1, Z3
<1>2. CASE ~(x < R)
    BY <1>2, Z3
<1> QED
    BY <1>1, <1>2

(* (i + 1) % RING_BUFFER_SIZE, the step of curr and of the drain loop.     *)
LEMMA NextSlot ==
    ASSUME NEW i \in Slots
    PROVE  (i + 1) % RingSize = IF i + 1 = RingSize THEN 0 ELSE i + 1
<1> DEFINE x == i + 1
<1>1. RingSize \in Nat \ {0} /\ i \in Int /\ 0 <= i /\ i < RingSize
    BY RingAssumption DEF Slots
<1>2. x \in 0..(2 * RingSize - 1)
    BY <1>1
<1>3. x % RingSize = IF x < RingSize THEN x ELSE x - RingSize
    BY <1>1, <1>2, ModWithin, Zenon
<1> QED
    BY <1>1, <1>3

(* (i + RING_BUFFER_SIZE - d) % RING_BUFFER_SIZE, d slots back.            *)
LEMMA SlotBack ==
    ASSUME NEW i \in Slots, NEW d \in 1..RingSize
    PROVE  /\ (i + RingSize - d) % RingSize
                = IF i >= d THEN i - d ELSE i + RingSize - d
           /\ (i + RingSize - d) % RingSize \in Slots
<1> DEFINE x == i + RingSize - d
<1>1. /\ RingSize \in Nat \ {0} /\ i \in Int /\ 0 <= i /\ i < RingSize
      /\ d \in Int /\ 1 <= d /\ d <= RingSize
    BY RingAssumption DEF Slots
<1>2. x \in 0..(2 * RingSize - 1)
    BY <1>1
<1>3. x % RingSize = IF x < RingSize THEN x ELSE x - RingSize
    BY <1>1, <1>2, ModWithin, Zenon
<1> QED
    BY <1>1, <1>3 DEF Slots

(* The slot after the newest byte's is the oldest byte's.                  *)
LEMMA OldestSlot ==
    ASSUME NEW c \in Slots, NEW t \in Nat, NEW i,
           i = IF c + 1 = RingSize THEN 0 ELSE c + 1
    PROVE  (IF i <= c THEN t - c + i ELSE t - c + i - RingSize)
             = t - RingSize + 1
  BY RingAssumption DEF Slots

(* One byte through local_write lengthens the emitted stream by that byte  *)
(* and changes nothing that was emitted before, flushed or not.            *)
LEMMA LocalWriteEmits ==
    ASSUME RingTypeOK, NEW b \in Byte, LocalWrite(b)
    PROVE  /\ wrbuf' \in Seq(Byte) /\ Len(wrbuf') <= WrbSize
           /\ written' \in Seq(Byte)
           /\ Len(written') + Len(wrbuf') = Len(written) + Len(wrbuf) + 1
           /\ \A k \in 1..(Len(written) + Len(wrbuf)) :
                Emitted(k)' = Emitted(k)
           /\ \A k \in Nat :
                k = Len(written) + Len(wrbuf) + 1 => Emitted(k)' = b
<1> USE RingAssumption DEF RingTypeOK
<1>1. CASE Len(wrbuf) = WrbSize
  <2>1. written' = written \o wrbuf /\ wrbuf' = <<b>>
    BY <1>1 DEF LocalWrite
  <2>2. /\ written' \in Seq(Byte) /\ Len(written') = Len(written) + Len(wrbuf)
        /\ \A k \in 1..Len(written) : written'[k] = written[k]
        /\ \A k \in (Len(written) + 1)..(Len(written) + Len(wrbuf)) :
             written'[k] = wrbuf[k - Len(written)]
    BY <2>1
  <2>3. wrbuf' \in Seq(Byte) /\ Len(wrbuf') = 1 /\ wrbuf'[1] = b
    BY <2>1
  <2>4. Len(written) \in Nat /\ Len(wrbuf) \in Nat
    OBVIOUS
  <2>5. ASSUME NEW k \in 1..(Len(written) + Len(wrbuf))
        PROVE  Emitted(k)' = Emitted(k)
    <3>1. Emitted(k)' = written'[k]
      BY <2>2, <2>4 DEF Emitted
    <3>2. CASE k <= Len(written)
      BY <2>2, <2>4, <3>1, <3>2 DEF Emitted
    <3>3. CASE ~(k <= Len(written))
      BY <2>2, <2>4, <3>1, <3>3 DEF Emitted
    <3> QED
      BY <3>2, <3>3
  <2>6. ASSUME NEW k \in Nat, k = Len(written) + Len(wrbuf) + 1
        PROVE  Emitted(k)' = b
    <3>1. Len(written') \in Nat /\ ~(k <= Len(written'))
            /\ k - Len(written') = 1
      BY <2>2, <2>4, <2>6
    <3> QED
      BY <2>3, <3>1 DEF Emitted
  <2> QED
    BY <2>2, <2>3, <2>4, <2>5, <2>6
<1>2. CASE Len(wrbuf) # WrbSize
  <2>1. written' = written /\ wrbuf' = Append(wrbuf, b)
    BY <1>2 DEF LocalWrite
  <2>2. /\ wrbuf' \in Seq(Byte) /\ Len(wrbuf') = Len(wrbuf) + 1
        /\ \A k \in 1..Len(wrbuf) : wrbuf'[k] = wrbuf[k]
        /\ wrbuf'[Len(wrbuf) + 1] = b
    BY <2>1
  <2>3. Len(written) \in Nat /\ Len(wrbuf) \in Nat /\ Len(wrbuf) < WrbSize
    BY <1>2
  <2>4. ASSUME NEW k \in 1..(Len(written) + Len(wrbuf))
        PROVE  Emitted(k)' = Emitted(k)
    <3>1. CASE k <= Len(written)
      BY <2>1, <3>1 DEF Emitted
    <3>2. CASE ~(k <= Len(written))
      <4>1. k - Len(written) \in 1..Len(wrbuf)
        BY <2>3, <3>2
      <4> QED
        BY <2>1, <2>2, <3>2, <4>1 DEF Emitted
    <3> QED
      BY <3>1, <3>2
  <2>5. ASSUME NEW k \in Nat, k = Len(written) + Len(wrbuf) + 1
        PROVE  Emitted(k)' = b
    BY <2>1, <2>2, <2>3, <2>5 DEF Emitted
  <2> QED
    BY <2>1, <2>2, <2>3, <2>4, <2>5
<1> QED
    BY <1>1, <1>2

(* Flushing wrbuf moves bytes to the file and changes no emitted byte.     *)
LEMMA FlushEmits ==
    ASSUME RingTypeOK, written' = written \o wrbuf, wrbuf' = <<>>
    PROVE  /\ written' \in Seq(Byte)
           /\ Len(written') = Len(written) + Len(wrbuf)
           /\ wrbuf' \in Seq(Byte) /\ Len(wrbuf') = 0
           /\ \A k \in 1..Len(written') : written'[k] = Emitted(k)
  BY DEF RingTypeOK, Emitted

(* DrainStop is the slot of the byte after the image.                           *)
LEMMA LastSlot ==
    ASSUME RingInv, matched = MarkerLen, total >= RingSize
    PROVE  /\ DrainStop \in Slots
           /\ Pos(DrainStop) = ImageLen + 1
           /\ total - RingSize <= ImageLen /\ ImageLen < total
           /\ ImageLen \in Nat
<1> DEFINE lf == (curr + RingSize - MarkerLen) % RingSize
           cr == (lf + RingSize - 1) % RingSize
<1>1. /\ curr \in Slots /\ total \in Nat /\ MarkerLen \in Nat
      /\ RingSize \in Nat /\ MarkerLen >= 2 /\ MarkerLen + 2 < RingSize
    BY RingAssumption DEF RingInv, RingTypeOK, MarkerLen
<1>2. lf \in Slots /\ lf = IF curr >= MarkerLen THEN curr - MarkerLen
                           ELSE curr + RingSize - MarkerLen
    BY <1>1, SlotBack
<1>3. cr \in Slots /\ cr = IF lf >= 1 THEN lf - 1 ELSE lf + RingSize - 1
    BY <1>1, <1>2, SlotBack
<1>4. Pos(lf) = total - MarkerLen
    BY <1>1, <1>2 DEF Pos, Slots
<1>5. Pos(cr) = total - MarkerLen - 1
    BY <1>1, <1>2, <1>3 DEF Pos, Slots
<1>6. buf[cr] = input[total - MarkerLen - 1]
    BY <1>1, <1>3, <1>5 DEF RingInv, WindowInv
<1>7. DrainStop = IF buf[cr] = CR THEN cr ELSE lf
    BY DEF DrainStop
<1> QED
    BY <1>1, <1>2, <1>3, <1>4, <1>5, <1>6, <1>7 DEF ImageLen

(* The initial state.                                                      *)
LEMMA RingInitInv == RingInit => RingInv
<1> SUFFICES ASSUME RingInit PROVE RingInv
    OBVIOUS
<1> USE RingAssumption DEF RingInit
<1>1. RingTypeOK
    BY DEF RingTypeOK, Slots, Phases, MarkerLen
<1>2. WindowInv
    BY DEF WindowInv, Slots, Pos
<1>3. MatchInv
    BY DEF MatchInv, MarkerLen, StartsLine
<1>4. StreamInv
    BY DEF StreamInv, Emitted
<1> QED
    BY <1>1, <1>2, <1>3, <1>4 DEF RingInv

(* ring_buffer_append keeps the ring a window on the stream.               *)
LEMMA AppendWindow ==
    ASSUME RingInv, NEW ch \in Byte, RingAppend(ch)
    PROVE  /\ WindowInv'
           /\ curr' = IF curr + 1 = RingSize THEN 0 ELSE curr + 1
           /\ curr' \in Slots
           /\ buf' \in [Slots -> Byte]
           /\ input' \in Seq(Byte) /\ Len(input') = total + 1
           /\ \A k \in 1..total : input'[k] = input[k]
           /\ input'[total + 1] = ch
           /\ total >= RingSize => buf[curr'] = input[total - RingSize + 1]
<1>1. /\ curr \in Slots /\ total \in Nat /\ RingSize \in Nat /\ RingSize > 4
      /\ buf \in [Slots -> Byte] /\ input \in Seq(Byte) /\ Len(input) = total
    BY RingAssumption DEF RingInv, RingTypeOK, WindowInv
<1>2. /\ curr' = (curr + 1) % RingSize /\ total' = total + 1
      /\ buf' = [buf EXCEPT ![curr'] = ch] /\ input' = Append(input, ch)
    BY DEF RingAppend
<1>3. curr' = IF curr + 1 = RingSize THEN 0 ELSE curr + 1
    BY <1>1, <1>2, NextSlot
<1>4. curr' \in Slots
    BY <1>1, <1>3 DEF Slots
<1>5. /\ input' \in Seq(Byte) /\ Len(input') = total + 1
      /\ \A k \in 1..total : input'[k] = input[k]
      /\ input'[total + 1] = ch
    BY <1>1, <1>2
<1>6. buf' \in [Slots -> Byte] /\ buf'[curr'] = ch
        /\ \A i \in Slots : i # curr' => buf'[i] = buf[i]
    BY <1>1, <1>2, <1>4
<1>7. total >= RingSize => buf[curr'] = input[total - RingSize + 1]
  <2>1. total >= RingSize => Pos(curr') = total - RingSize + 1
    BY <1>1, <1>3 DEF Pos, Slots
  <2> QED
    BY <1>1, <1>4, <2>1 DEF RingInv, WindowInv
<1>8. ASSUME NEW i \in Slots, Pos(i)' >= 1
      PROVE  buf'[i] = input'[Pos(i)']
  <2>1. CASE i = curr'
    <3>1. Pos(i)' = total + 1
      BY <1>1, <1>2, <1>4, <2>1 DEF Pos, Slots
    <3> QED
      BY <1>5, <1>6, <2>1, <3>1
  <2>2. CASE i # curr'
    <3>1. Pos(i)' = Pos(i) /\ Pos(i) \in Int /\ Pos(i) <= total
      <4>1. /\ i \in Int /\ 0 <= i /\ i < RingSize /\ total \in Int
            /\ curr \in Int /\ 0 <= curr /\ curr < RingSize
            /\ RingSize \in Int /\ total' = total + 1 /\ i # curr'
        BY <1>1, <1>2, <2>2 DEF Slots
      <4>2. CASE curr + 1 = RingSize
        <5>1. curr' = 0 /\ i <= curr /\ ~(i <= curr')
          BY <1>3, <4>1, <4>2
        <5> QED
          BY <4>1, <4>2, <5>1 DEF Pos
      <4>3. CASE curr + 1 # RingSize
        <5>1. curr' = curr + 1 /\ (i <= curr <=> i <= curr')
          BY <1>3, <4>1, <4>3
        <5> QED
          BY <4>1, <4>3, <5>1 DEF Pos
      <4> QED
        BY <4>2, <4>3
    <3>2. Pos(i) >= 1 /\ Pos(i) \in 1..total
      BY <1>1, <1>8, <3>1
    <3>3. buf[i] = input[Pos(i)]
      BY <3>2 DEF RingInv, WindowInv
    <3> QED
      BY <1>5, <1>6, <2>2, <3>1, <3>2, <3>3
  <2> QED
    BY <2>1, <2>2
<1>9. total' < RingSize => curr' = total'
    BY <1>1, <1>2, <1>3 DEF RingInv, WindowInv, Slots
<1> QED
    BY <1>2, <1>3, <1>4, <1>5, <1>6, <1>7, <1>8, <1>9 DEF WindowInv

(* ring_buffer_append keeps matched exact.                                 *)
LEMMA AppendMatch ==
    ASSUME RingInv, NEW ch \in Byte, RingAppend(ch)
    PROVE  MatchInv' /\ matched' \in 0..MarkerLen
<1>1. /\ total \in Nat /\ matched \in Nat /\ MarkerLen \in Nat
      /\ MarkerLen >= 2 /\ phase = "body" /\ matched < MarkerLen
      /\ matched <= total
      /\ \A j \in 1..MarkerLen : Marker[j] # LF
    BY RingAssumption, MarkerAssumption
    DEF RingInv, RingTypeOK, MatchInv, RingAppend, MarkerLen
<1>2. /\ total' = total + 1
      /\ matched' = IF ch = Marker[matched + 1] THEN matched + 1 ELSE 0
      /\ phase' = IF matched' = MarkerLen THEN "drain" ELSE "body"
    BY <1>1 DEF RingAppend, MatchedAfter
<1>3. /\ \A k \in 1..total : input'[k] = input[k]
      /\ input'[total + 1] = ch
    BY AppendWindow
<1>4. matched' <= total' /\ matched' \in 0..MarkerLen
    BY <1>1, <1>2
<1>5. \A j \in 1..matched' : input'[total' - matched' + j] = Marker[j]
  <2> SUFFICES ASSUME NEW j \in 1..matched'
               PROVE  input'[total' - matched' + j] = Marker[j]
    OBVIOUS
  <2>1. matched' = matched + 1 /\ ch = Marker[matched + 1]
    BY <1>1, <1>2
  <2>2. CASE j = matched + 1
    BY <1>1, <1>2, <1>3, <2>1, <2>2
  <2>3. CASE j # matched + 1
    <3>1. j \in 1..matched /\ total - matched + j \in 1..total
      BY <1>1, <2>1, <2>3
    <3>2. input[total - matched + j] = Marker[j]
      BY <3>1 DEF RingInv, MatchInv
    <3>3. total' - matched' + j = total - matched + j
      BY <1>1, <1>2, <2>1
    <3> QED
      BY <1>3, <3>1, <3>2, <3>3
  <2> QED
    BY <2>2, <2>3
<1>6. ASSUME NEW m \in 0..MarkerLen, m <= total',
             StartsLine(input', total' - m + 1),
             \A j \in 1..m : input'[total' - m + j] = Marker[j]
      PROVE  m = matched'
  <2>1. CASE m = 0
    <3>1. ch = LF
      BY <1>1, <1>2, <1>3, <1>6, <2>1 DEF StartsLine
    <3> QED
      BY <1>1, <1>2, <2>1, <3>1
  <2>2. CASE m # 0
    <3> DEFINE l == m - 1
    <3>1. l \in 0..MarkerLen /\ l <= total /\ total - l + 1 = total' - m + 1
      BY <1>1, <1>2, <1>6, <2>2
    <3>2. StartsLine(input, total - l + 1)
      <4>1. StartsLine(input', total - l + 1)
        BY <1>6, <3>1
      <4>2. total - l + 1 = 1 \/ total - l \in 1..total
        BY <1>1, <3>1
      <4>3. total - l + 1 - 1 = total - l
        BY <1>1, <3>1
      <4> QED
        BY <1>3, <4>1, <4>2, <4>3 DEF StartsLine
    <3>3. \A j \in 1..l : input[total - l + j] = Marker[j]
      BY <1>1, <1>2, <1>3, <1>6, <2>2
    <3>4. l = matched
      BY <3>1, <3>2, <3>3 DEF RingInv, MatchInv
    <3>5. ch = Marker[m]
      BY <1>1, <1>2, <1>3, <1>6, <2>2
    <3> QED
      BY <1>1, <1>2, <2>2, <3>4, <3>5
  <2> QED
    BY <2>1, <2>2
<1>7. ASSUME phase' = "body", NEW k \in 1..total', MarkerAt(input', k),
             StartsLine(input', k - MarkerLen + 1)
      PROVE  FALSE
  <2>1. CASE k = total'
    <3>1. MarkerLen = matched'
      <4>1. /\ MarkerLen \in 0..MarkerLen /\ MarkerLen <= total'
            /\ \A j \in 1..MarkerLen : input'[total' - MarkerLen + j] = Marker[j]
        BY <1>1, <1>7, <2>1 DEF MarkerAt
      <4>2. StartsLine(input', total' - MarkerLen + 1)
        BY <1>7, <2>1
      <4> QED
        BY <1>6, <4>1, <4>2
    <3> QED
      BY <1>2, <1>7, <3>1
  <2>2. CASE k # total'
    <3>1. k \in 1..total
      BY <1>1, <1>2, <2>2
    <3>2. MarkerAt(input, k) /\ StartsLine(input, k - MarkerLen + 1)
      BY <1>1, <1>3, <1>7, <3>1 DEF MarkerAt, StartsLine
    <3> QED
      BY <1>1, <3>1, <3>2 DEF RingInv, MatchInv
  <2> QED
    BY <2>1, <2>2
<1>8. /\ phase' = "body" => matched' < MarkerLen
      /\ phase' \in {"drain", "drained"} => matched' = MarkerLen
    BY <1>1, <1>2, <1>4
<1> QED
    BY <1>4, <1>5, <1>6, <1>7, <1>8 DEF MatchInv

(* ring_buffer_append emits the oldest byte of a full ring, no other.      *)
LEMMA AppendStream ==
    ASSUME RingInv, NEW ch \in Byte, RingAppend(ch)
    PROVE  /\ StreamInv'
           /\ filesize' \in Nat /\ drained' \in Slots
           /\ wrbuf' \in Seq(Byte) /\ Len(wrbuf') <= WrbSize
           /\ written' \in Seq(Byte)
<1>1. /\ RingTypeOK /\ total \in Nat /\ filesize \in Nat /\ RingSize \in Nat
      /\ wrbuf \in Seq(Byte) /\ written \in Seq(Byte) /\ Len(wrbuf) <= WrbSize
      /\ MarkerLen \in Nat /\ MarkerLen >= 2 /\ MarkerLen + 2 < RingSize
      /\ curr \in Slots /\ drained \in Slots /\ buf \in [Slots -> Byte]
      /\ Len(written) \in Nat /\ Len(wrbuf) \in Nat
    BY RingAssumption DEF RingInv, RingTypeOK, MarkerLen
<1>2. /\ filesize = IF total >= RingSize THEN total - RingSize ELSE 0
      /\ Len(written) + Len(wrbuf) = filesize /\ filesize <= total
      /\ \A k \in 1..filesize : Emitted(k) = input[k]
      /\ phase = "body"
    BY DEF RingInv, StreamInv, RingAppend
<1>3. /\ total' = total + 1
      /\ phase' = IF matched' = MarkerLen THEN "drain" ELSE "body"
      /\ drained' = IF matched' = MarkerLen THEN (curr' + 1) % RingSize
                    ELSE drained
    BY <1>2 DEF RingAppend
<1>4. /\ curr' \in Slots /\ \A k \in 1..total : input'[k] = input[k]
      /\ total >= RingSize => buf[curr'] = input[total - RingSize + 1]
    BY AppendWindow
<1>5. /\ filesize' = IF total >= RingSize THEN filesize + 1 ELSE filesize
      /\ filesize' = IF total' >= RingSize THEN total' - RingSize ELSE 0
      /\ filesize' \in Nat /\ filesize' <= total
  <2>1. filesize' = IF total >= RingSize THEN filesize + 1 ELSE filesize
    BY DEF RingAppend
  <2> QED
    BY <1>1, <1>2, <1>3, <2>1
<1>6. /\ wrbuf' \in Seq(Byte) /\ Len(wrbuf') <= WrbSize
      /\ written' \in Seq(Byte)
      /\ Len(written') + Len(wrbuf') = filesize'
      /\ \A k \in 1..filesize' : Emitted(k)' = input'[k]
  <2>1. CASE total >= RingSize
    <3>1. LocalWrite(buf[curr']) /\ buf[curr'] \in Byte
      BY <1>1, <1>4, <2>1 DEF RingAppend
    <3>2. /\ wrbuf' \in Seq(Byte) /\ Len(wrbuf') <= WrbSize
          /\ written' \in Seq(Byte)
          /\ Len(written') + Len(wrbuf') = filesize + 1
          /\ \A k \in 1..filesize : Emitted(k)' = Emitted(k)
          /\ \A k \in Nat : k = filesize + 1 => Emitted(k)' = buf[curr']
      BY <1>1, <1>2, <3>1, LocalWriteEmits
    <3>3. ASSUME NEW k \in 1..filesize'
          PROVE  Emitted(k)' = input'[k]
      <4>1. k \in 1..total /\ k \in Nat /\ k <= filesize + 1
        BY <1>1, <1>2, <1>5
      <4>2. CASE k = filesize + 1
        BY <1>1, <1>2, <1>4, <2>1, <3>2, <4>1, <4>2
      <4>3. CASE k # filesize + 1
        BY <1>1, <1>2, <1>4, <3>2, <4>1, <4>3
      <4> QED
        BY <4>2, <4>3
    <3> QED
      BY <1>5, <2>1, <3>2, <3>3
  <2>2. CASE ~(total >= RingSize)
    <3>1. wrbuf' = wrbuf /\ written' = written /\ filesize' = 0
      BY <1>2, <2>2 DEF RingAppend
    <3> QED
      BY <1>1, <1>2, <2>2, <3>1
  <2> QED
    BY <2>1, <2>2
<1>7. drained' \in Slots /\ (matched' = MarkerLen => drained' =
             IF curr' + 1 = RingSize THEN 0 ELSE curr' + 1)
  <2>1. (curr' + 1) % RingSize = IF curr' + 1 = RingSize THEN 0 ELSE curr' + 1
    BY <1>4, NextSlot
  <2>2. (IF curr' + 1 = RingSize THEN 0 ELSE curr' + 1) \in Slots
    BY <1>1, <1>4 DEF Slots
  <2> QED
    BY <1>1, <1>3, <2>1, <2>2
<1>8. ASSUME phase' = "drain", total' >= RingSize
      PROVE  /\ total' - RingSize <= filesize' /\ filesize' <= ImageLen'
             /\ Pos(drained)' = filesize' + 1
  <2>1. ImageLen' >= total' - MarkerLen - 2
    BY <1>1, <1>3 DEF ImageLen
  <2>2. Pos(drained)' = total' - RingSize + 1
    <3>1. matched' = MarkerLen
      BY <1>3, <1>8
    <3>2. drained' = IF curr' + 1 = RingSize THEN 0 ELSE curr' + 1
      BY <1>7, <3>1
    <3>3. total' \in Nat
      BY <1>1, <1>3
    <3> QED
      BY <1>4, <3>2, <3>3, OldestSlot DEF Pos
  <2> QED
    BY <1>1, <1>3, <1>5, <1>8, <2>1, <2>2 DEF ImageLen
<1>9. phase' \in {"body", "drain"}
    BY <1>3
<1> QED
    BY <1>1, <1>3, <1>5, <1>6, <1>7, <1>8, <1>9 DEF StreamInv

LEMMA AppendInv ==
    ASSUME RingInv, NEW ch \in Byte, RingAppend(ch)
    PROVE  RingInv'
<1>1. total' \in Nat /\ phase' \in Phases
    BY DEF RingInv, RingTypeOK, RingAppend, Phases
<1>2. RingTypeOK'
    BY <1>1, AppendWindow, AppendMatch, AppendStream DEF RingTypeOK
<1> QED
    BY <1>2, AppendWindow, AppendMatch, AppendStream DEF RingInv

(* A step that leaves the ring itself alone and does not return to the     *)
(* body loop keeps the window and the matcher.                             *)
LEMMA RingKept ==
    ASSUME RingInv,
           UNCHANGED <<curr, total, matched, buf, input>>,
           phase' # "body",
           phase' \in {"drain", "drained"} => matched = MarkerLen
    PROVE  WindowInv' /\ MatchInv'
  BY DEF RingInv, WindowInv, MatchInv, Pos, StartsLine, MarkerAt

(* One turn of the drain loop emits the next byte of the image.            *)
LEMMA DrainByteInv ==
    ASSUME RingInv, DrainByte
    PROVE  RingInv'
<1>1. /\ RingTypeOK /\ total \in Nat /\ filesize \in Nat /\ RingSize \in Nat
      /\ MarkerLen \in Nat /\ MarkerLen >= 2 /\ MarkerLen + 2 < RingSize
      /\ curr \in Slots /\ drained \in Slots /\ buf \in [Slots -> Byte]
      /\ Len(written) \in Nat /\ Len(wrbuf) \in Nat
    BY RingAssumption DEF RingInv, RingTypeOK, MarkerLen
<1>2. /\ phase = "drain" /\ total >= RingSize /\ drained # DrainStop
      /\ filesize' = filesize + 1 /\ LocalWrite(buf[drained])
      /\ drained' = (drained + 1) % RingSize
      /\ UNCHANGED <<curr, total, matched, buf, phase, input>>
    BY DEF DrainByte
<1>3. /\ total - RingSize <= filesize /\ filesize <= ImageLen
      /\ Pos(drained) = filesize + 1
      /\ Len(written) + Len(wrbuf) = filesize /\ filesize <= total
      /\ \A k \in 1..filesize : Emitted(k) = input[k]
      /\ matched = MarkerLen
    BY <1>2 DEF RingInv, StreamInv, MatchInv
<1>4. /\ DrainStop \in Slots /\ Pos(DrainStop) = ImageLen + 1
      /\ ImageLen < total /\ ImageLen \in Nat
    BY <1>2, <1>3, LastSlot
<1>5. filesize < ImageLen
  <2>1. Pos(drained) # Pos(DrainStop)
    BY <1>1, <1>2, <1>4 DEF Pos, Slots
  <2> QED
    BY <1>1, <1>3, <1>4, <2>1
<1>6. WindowInv' /\ MatchInv'
    BY <1>2, <1>3, RingKept
<1>7. buf[drained] = input[filesize + 1] /\ buf[drained] \in Byte
    BY <1>1, <1>3 DEF RingInv, WindowInv
<1>8. /\ wrbuf' \in Seq(Byte) /\ Len(wrbuf') <= WrbSize
      /\ written' \in Seq(Byte)
      /\ Len(written') + Len(wrbuf') = filesize + 1
      /\ \A k \in 1..filesize : Emitted(k)' = Emitted(k)
      /\ \A k \in Nat : k = filesize + 1 => Emitted(k)' = buf[drained]
    BY <1>1, <1>2, <1>3, <1>7, LocalWriteEmits
<1>9. ASSUME NEW k \in 1..(filesize + 1)
      PROVE  Emitted(k)' = input'[k]
  <2>1. CASE k = filesize + 1
    BY <1>1, <1>2, <1>7, <1>8, <2>1
  <2>2. CASE k # filesize + 1
    <3>1. k \in 1..filesize
      BY <1>1, <2>2
    <3> QED
      BY <1>2, <1>3, <1>8, <3>1
  <2> QED
    BY <2>1, <2>2
<1>10. (drained + 1) % RingSize = IF drained + 1 = RingSize THEN 0
                                  ELSE drained + 1
    BY <1>1, NextSlot
<1>11. drained' \in Slots
  <2>1. (IF drained + 1 = RingSize THEN 0 ELSE drained + 1) \in Slots
    BY <1>1 DEF Slots
  <2> QED
    BY <1>2, <1>10, <2>1
<1>12. Pos(drained)' = filesize + 2
  <2>1. CASE drained + 1 = RingSize
    <3>1. curr # RingSize - 1
      BY <1>1, <1>3, <1>4, <1>5, <2>1 DEF Pos, Slots
    <3>2. drained' = 0
      BY <1>2, <1>10, <2>1
    <3> QED
      BY <1>1, <1>2, <1>3, <2>1, <3>1, <3>2 DEF Pos, Slots
  <2>2. CASE drained + 1 # RingSize
    <3>1. drained # curr
      BY <1>1, <1>3, <1>4, <1>5 DEF Pos, Slots
    <3>2. drained' = drained + 1
      BY <1>2, <1>10, <2>2
    <3> QED
      BY <1>1, <1>2, <1>3, <2>2, <3>1, <3>2 DEF Pos, Slots
  <2> QED
    BY <2>1, <2>2
<1>13. ImageLen' = ImageLen
    BY <1>2 DEF ImageLen
<1>14. StreamInv'
    BY <1>1, <1>2, <1>3, <1>4, <1>5, <1>8, <1>9, <1>12, <1>13 DEF StreamInv
<1>15. RingTypeOK'
    BY <1>1, <1>2, <1>8, <1>11 DEF RingTypeOK
<1> QED
    BY <1>6, <1>14, <1>15 DEF RingInv

(* The end of the drain loop: the whole image has been emitted.            *)
LEMMA DrainEndInv ==
    ASSUME RingInv, DrainEnd
    PROVE  RingInv'
<1>1. /\ phase = "drain" /\ total >= RingSize /\ drained = DrainStop
      /\ phase' = "drained"
      /\ UNCHANGED <<curr, total, matched, filesize, buf, wrbuf, written,
                     drained, input>>
    BY DEF DrainEnd
<1>2. /\ Pos(drained) = filesize + 1 /\ matched = MarkerLen
      /\ filesize \in Nat
    BY <1>1 DEF RingInv, StreamInv, MatchInv, RingTypeOK
<1>3. Pos(DrainStop) = ImageLen + 1 /\ ImageLen \in Nat
    BY <1>1, <1>2, LastSlot
<1>4. filesize = ImageLen
    BY <1>1, <1>2, <1>3
<1>5. WindowInv' /\ MatchInv'
    BY <1>1, <1>2, RingKept
<1>6. ImageLen' = ImageLen /\ \A k \in 1..filesize : Emitted(k)' = Emitted(k)
    BY <1>1 DEF ImageLen, Emitted
<1>7. StreamInv'
    BY <1>1, <1>4, <1>6 DEF RingInv, StreamInv
<1>8. RingTypeOK'
    BY <1>1 DEF RingInv, RingTypeOK, Phases
<1> QED
    BY <1>5, <1>7, <1>8 DEF RingInv

(* The drain of a ring that never filled up.                               *)
LEMMA DrainShortInv ==
    ASSUME RingInv, DrainShort
    PROVE  RingInv'
<1> DEFINE s == [j \in 1..total |-> buf[j]]
<1>1. /\ phase = "drain" /\ total < RingSize /\ phase' = "drained"
      /\ filesize' = filesize + total /\ wrbuf' = <<>>
      /\ written' = (written \o wrbuf) \o s
      /\ UNCHANGED <<curr, total, matched, buf, drained, input>>
    BY DEF DrainShort, LocalWriteBlock
<1>2. /\ total \in Nat /\ filesize \in Nat /\ RingSize \in Nat
      /\ buf \in [Slots -> Byte] /\ matched = MarkerLen
      /\ wrbuf \in Seq(Byte) /\ written \in Seq(Byte)
    BY <1>1, RingAssumption DEF RingInv, RingTypeOK, MatchInv
<1>3. s \in Seq(Byte)
  <2>1. \A j \in 1..total : buf[j] \in Byte
    BY <1>1, <1>2 DEF Slots
  <2> QED
    BY <1>2, <2>1
<1>4. written' \in Seq(Byte)
  <2>1. written \o wrbuf \in Seq(Byte)
    BY <1>2
  <2> QED
    BY <1>1, <1>3, <2>1
<1>5. WindowInv' /\ MatchInv'
    BY <1>1, <1>2, RingKept
<1>6. RingTypeOK'
    BY <1>1, <1>2, <1>4, RingAssumption DEF RingInv, RingTypeOK, Phases
<1>7. /\ filesize = 0 /\ Len(written) + Len(wrbuf) = 0
      /\ Len(written) \in Nat /\ Len(wrbuf) \in Nat
    BY <1>1, <1>2 DEF RingInv, StreamInv
<1>8. /\ Len(written') = total
      /\ \A k \in 1..total : written'[k] = input[k]
  <2>1. written = <<>> /\ wrbuf = <<>>
    BY <1>2, <1>7
  <2>2. Len(s) = total /\ \A k \in 1..total : s[k] = buf[k]
    BY <1>2, <1>3
  <2>3. written \o wrbuf = <<>>
    BY <2>1
  <2>4. \A k \in 1..total : written'[k] = s[k]
    BY <1>1, <1>2, <1>3, <2>2, <2>3
  <2>5. Len(written') = total
    BY <1>1, <1>2, <1>3, <2>2, <2>3
  <2>6. ASSUME NEW k \in 1..total PROVE buf[k] = input[k]
    <3>1. k \in Slots /\ Pos(k) = k
      BY <1>1, <1>2 DEF Slots, Pos, RingInv, WindowInv
    <3> QED
      BY <3>1 DEF RingInv, WindowInv
  <2> QED
    BY <2>2, <2>4, <2>5, <2>6
<1>9. StreamInv'
  <2>1. filesize' = total /\ Len(wrbuf') = 0
    BY <1>1, <1>2, <1>7
  <2>2. \A k \in 1..total : Emitted(k)' = input'[k]
    <3>1. ASSUME NEW k \in 1..total PROVE Emitted(k)' = input'[k]
      <4>1. k <= Len(written')
        BY <1>2, <1>8
      <4>2. Emitted(k)' = written'[k]
        BY <4>1 DEF Emitted
      <4> QED
        BY <1>1, <1>8, <4>2
    <3> QED
      BY <3>1
  <2> QED
    BY <1>1, <1>2, <1>8, <2>1, <2>2 DEF StreamInv
<1> QED
    BY <1>5, <1>6, <1>9 DEF RingInv

(* local_close flushes wrbuf.                                              *)
LEMMA CloseInv ==
    ASSUME RingInv, LocalClose
    PROVE  RingInv'
<1>1. /\ phase \in {"body", "drained"} /\ phase' = "closed"
      /\ written' = written \o wrbuf /\ wrbuf' = <<>>
      /\ UNCHANGED <<curr, total, matched, filesize, buf, drained, input>>
    BY DEF LocalClose
<1>2. RingTypeOK /\ total \in Nat /\ filesize \in Nat /\ RingSize \in Nat
        /\ Len(written) \in Nat /\ Len(wrbuf) \in Nat
    BY RingAssumption DEF RingInv, RingTypeOK
<1>3. /\ written' \in Seq(Byte) /\ wrbuf' \in Seq(Byte) /\ Len(wrbuf') = 0
      /\ Len(written') = Len(written) + Len(wrbuf)
      /\ \A k \in 1..Len(written') : written'[k] = Emitted(k)
    BY <1>1, <1>2, FlushEmits
<1>4. WindowInv' /\ MatchInv'
    BY <1>1, RingKept
<1>5. RingTypeOK'
    BY <1>1, <1>2, <1>3, RingAssumption DEF RingTypeOK, Phases
<1>6. ImageLen' = ImageLen
    BY <1>1 DEF ImageLen
<1>7. /\ Len(written') + Len(wrbuf') = filesize
      /\ filesize <= total
      /\ \A k \in 1..filesize : Emitted(k)' = input[k]
  <2>1. /\ Len(written) + Len(wrbuf) = filesize /\ filesize <= total
        /\ \A k \in 1..filesize : Emitted(k) = input[k]
    BY DEF RingInv, StreamInv
  <2>2. ASSUME NEW k \in 1..filesize
        PROVE  Emitted(k)' = input[k]
    <3>1. k <= Len(written') /\ written'[k] = Emitted(k)
      BY <1>2, <1>3, <2>1
    <3> QED
      BY <2>1, <3>1 DEF Emitted
  <2> QED
    BY <1>2, <1>3, <2>1, <2>2
<1>8. ASSUME matched = MarkerLen, total >= RingSize
      PROVE  filesize = ImageLen
  <2>1. MarkerLen \in Nat
    BY RingAssumption DEF MarkerLen
  <2>2. phase = "drained"
    BY <1>1, <1>8, <2>1 DEF RingInv, MatchInv
  <2> QED
    BY <1>8, <2>2 DEF RingInv, StreamInv
<1>9. StreamInv'
    BY <1>1, <1>6, <1>7, <1>8 DEF StreamInv
<1> QED
    BY <1>4, <1>5, <1>9 DEF RingInv

(* The invariant is inductive and holds of every behaviour.                *)
THEOREM RingInvariance == RingSpec => []RingInv
<1>1. RingInv /\ [RingNext]_ringVars => RingInv'
  <2> SUFFICES ASSUME RingInv, [RingNext]_ringVars PROVE RingInv'
    OBVIOUS
  <2>1. ASSUME NEW ch \in Byte, RingAppend(ch) PROVE RingInv'
    BY <2>1, AppendInv
  <2>2. CASE DrainShort
    BY <2>2, DrainShortInv
  <2>3. CASE DrainByte
    BY <2>3, DrainByteInv
  <2>4. CASE DrainEnd
    BY <2>4, DrainEndInv
  <2>5. CASE LocalClose
    BY <2>5, CloseInv
  <2>6. CASE UNCHANGED ringVars
    BY <2>6 DEF ringVars, RingInv, RingTypeOK, WindowInv, MatchInv, StreamInv,
                Pos, Emitted, ImageLen, StartsLine, MarkerAt
  <2> QED
    BY <2>1, <2>2, <2>3, <2>4, <2>5, <2>6 DEF RingNext, Drain
<1> QED
    BY <1>1, RingInitInv, PTL DEF RingSpec

(* Type correctness of struct rbuffer and the write buffer.                *)
THEOREM RingTypeCorrect == RingSpec => []RingTypeOK
<1>1. RingInv => RingTypeOK
    BY DEF RingInv
<1> QED
    BY <1>1, RingInvariance, PTL

(* After local_close of an upload that filled the ring, the output file is *)
(* the firmware part, byte for byte, for every image, boundary and size.   *)
THEOREM UploadedImageExact == RingSpec => []ImageExact
<1>1. RingInv => ImageExact
  <2> SUFFICES ASSUME RingInv, phase = "closed", matched = MarkerLen,
                      total >= RingSize, EndsPart(input)
               PROVE  LET n == total - MarkerLen - 2 IN
                      /\ filesize = n
                      /\ Len(written) = n
                      /\ \A k \in 1..n : written[k] = input[k]
    BY DEF ImageExact
  <2>1. /\ total \in Nat /\ MarkerLen \in Nat /\ RingSize \in Nat
        /\ MarkerLen + 2 < RingSize /\ Len(input) = total
        /\ written \in Seq(Byte)
    BY RingAssumption DEF RingInv, RingTypeOK, WindowInv, MarkerLen
  <2>2. input[total - MarkerLen - 1] = CR
    BY <2>1 DEF EndsPart
  <2>3. filesize = total - MarkerLen - 2
    BY <2>2 DEF RingInv, StreamInv, ImageLen
  <2>4. /\ wrbuf = <<>> /\ Len(written) + Len(wrbuf) = filesize
        /\ \A k \in 1..filesize : Emitted(k) = input[k]
    BY DEF RingInv, StreamInv
  <2>5. Len(written) = filesize
    BY <2>1, <2>4
  <2> QED
    BY <2>1, <2>3, <2>4, <2>5 DEF Emitted
<1> QED
    BY <1>1, RingInvariance, PTL

(* The matcher stops at a marker, and at the first one that starts a line. *)
THEOREM MatcherIsExact == RingSpec => []MatcherExact
<1>1. RingInv => MatcherExact
  <2> SUFFICES ASSUME RingInv, phase = "drain" PROVE MarkerAt(input, total)
    BY DEF RingInv, MatchInv, MatcherExact
  <2>1. /\ matched = MarkerLen /\ matched <= total
        /\ \A j \in 1..matched : input[total - matched + j] = Marker[j]
        /\ MarkerLen \in Nat /\ total \in Nat
    BY RingAssumption DEF RingInv, MatchInv, RingTypeOK, MarkerLen
  <2> QED
    BY <2>1 DEF MarkerAt
<1> QED
    BY <1>1, RingInvariance, PTL

(* What is in the output file is a prefix of the body, at every moment.    *)
THEOREM OutputIsPrefix == RingSpec => []FileIsPrefix
<1>1. RingInv => FileIsPrefix
  <2> SUFFICES ASSUME RingInv
               PROVE  /\ Len(written) <= total
                      /\ \A k \in 1..Len(written) : written[k] = input[k]
    BY DEF FileIsPrefix
  <2>1. /\ Len(written) + Len(wrbuf) = filesize /\ filesize <= total
        /\ \A k \in 1..filesize : Emitted(k) = input[k]
    BY DEF RingInv, StreamInv
  <2>2. /\ Len(written) \in Nat /\ Len(wrbuf) \in Nat /\ total \in Nat
        /\ filesize \in Nat
    BY DEF RingInv, RingTypeOK
  <2> QED
    BY <2>1, <2>2 DEF Emitted
<1> QED
    BY <1>1, RingInvariance, PTL
===============================================================================

------------------------------ MODULE UploadRing ------------------------------
(***************************************************************************)
(* The ring buffer of target/sbin/upgrade/http_input.c: every body byte of *)
(* a firmware upload goes through it, so that the CR LF and the boundary   *)
(* marker that end the firmware part are still in the ring, and not yet in *)
(* the output file, at the moment the marker is recognised.                *)
(*                                                                         *)
(* The state is struct rbuffer plus the one-byte write buffer wrbuf of     *)
(* local_write.  written is the stream of bytes handed to write(2), input  *)
(* is a history variable: the bytes passed to ring_buffer_append so far.   *)
(***************************************************************************)
EXTENDS Integers, Sequences

CONSTANTS
    Byte,       \* the byte values that the matcher and the drain tell apart
    CR, LF,     \* '\r' and '\n'
    Marker,     \* rb->boundary: "--" followed by the multipart boundary
    RingSize,   \* RING_BUFFER_SIZE
    WrbSize     \* WRB_SIZE, the capacity of wrbuf

ASSUME RingAssumption ==
    /\ CR \in Byte /\ LF \in Byte /\ CR # LF
    /\ Marker \in Seq(Byte)
    /\ Len(Marker) >= 2
    /\ RingSize \in Nat
    /\ Len(Marker) + 2 < RingSize     \* 2 + 70 characters against 256
    /\ WrbSize \in Nat \ {0}

\* RFC 2046 boundaries hold no line break.
ASSUME MarkerAssumption ==
    \A j \in 1..Len(Marker) : Marker[j] # LF

VARIABLES
    curr,       \* rb->curr, the slot of the newest byte
    total,      \* rb->total, bytes appended
    matched,    \* rb->matched, marker bytes matched by the newest bytes
    filesize,   \* rb->filesize, bytes handed to local_write
    buf,        \* rb->buf
    wrbuf,      \* wrbuf[0 .. wrb_p-1]
    written,    \* everything passed to write(2) on the output file
    phase,      \* where the body loop of http_input stands
    drained,    \* i, the loop index of ring_buffer_drain
    input       \* history: the bytes appended

ringVars == <<curr, total, matched, filesize, buf, wrbuf, written, phase,
              drained, input>>

Slots == 0..(RingSize - 1)
MarkerLen == Len(Marker)
Phases == {"body", "drain", "drained", "closed"}

-------------------------------------------------------------------------------
(* Mutant: the test for a full buffer is missing.                          *)
LocalWriteUnbounded(b) == wrbuf' = Append(wrbuf, b) /\ UNCHANGED written

(* Mutant: the buffer is emptied without write(2).                         *)
LocalWriteDropping(b) ==
    /\ wrbuf' = IF Len(wrbuf) = WrbSize THEN <<b>> ELSE Append(wrbuf, b)
    /\ UNCHANGED written

(* local_write(fd, &b, 1): buffered; a full buffer is written out first.   *)
LocalWrite(b) ==
    IF Len(wrbuf) = WrbSize
    THEN written' = written \o wrbuf /\ wrbuf' = <<b>>
    ELSE wrbuf' = Append(wrbuf, b) /\ UNCHANGED written

(* local_write(fd, s, Len(s)) with Len(s) > 1: the buffered bytes, then s. *)
LocalWriteBlock(s) ==
    /\ written' = (written \o wrbuf) \o s
    /\ wrbuf' = <<>>

(* ring_buffer_init *)
RingInit ==
    /\ curr = 0 /\ total = 0 /\ matched = 0 /\ filesize = 0
    /\ buf = [i \in Slots |-> CR]      \* never read before it is written
    /\ wrbuf = <<>> /\ written = <<>>
    /\ phase = "body" /\ drained = 0
    /\ input = <<>>

(* Mutant: a mismatch does not restart the matcher.                        *)
MatchedAfterNoReset(ch) ==
    IF ch = Marker[matched + 1] THEN matched + 1 ELSE matched

(* The matcher of ring_buffer_append: it restarts at 0 on a mismatch and   *)
(* does not compare the mismatching byte with the first marker byte.       *)
MatchedAfter(ch) == IF ch = Marker[matched + 1] THEN matched + 1 ELSE 0

(* ring_buffer_append *)
RingAppend(ch) ==
    LET next == (curr + 1) % RingSize IN
    /\ phase = "body"
    /\ curr' = next
    /\ IF total >= RingSize
       THEN filesize' = filesize + 1 /\ LocalWrite(buf[next])
       ELSE UNCHANGED <<filesize, wrbuf, written>>
    /\ buf' = [buf EXCEPT ![next] = ch]
    /\ total' = total + 1
    /\ matched' = MatchedAfter(ch)
    /\ IF matched' = MarkerLen
       THEN phase' = "drain" /\ drained' = (next + 1) % RingSize
       ELSE UNCHANGED <<phase, drained>>
    /\ input' = Append(input, ch)

(* Mutant: the CR before the LF is taken for image data.                   *)
DrainStopAtLf == (curr + RingSize - MarkerLen) % RingSize

(* last of ring_buffer_drain: the slot of the LF before the marker, or of  *)
(* the CR before that LF.                                                  *)
DrainStop ==
    LET lf == (curr + RingSize - MarkerLen) % RingSize
        cr == (lf + RingSize - 1) % RingSize
    IN  IF buf[cr] = CR THEN cr ELSE lf

(* ring_buffer_drain when the ring never filled up: rb->total bytes        *)
(* starting at rb->buf+1 go out in one call.                               *)
DrainShort ==
    /\ phase = "drain" /\ total < RingSize
    /\ filesize' = filesize + total
    /\ LocalWriteBlock([j \in 1..total |-> buf[j]])
    /\ phase' = "drained"
    /\ UNCHANGED <<curr, total, matched, buf, drained, input>>

(* One turn of the for loop of ring_buffer_drain.                          *)
DrainByte ==
    /\ phase = "drain" /\ total >= RingSize
    /\ drained # DrainStop
    /\ filesize' = filesize + 1
    /\ LocalWrite(buf[drained])
    /\ drained' = (drained + 1) % RingSize
    /\ UNCHANGED <<curr, total, matched, buf, phase, input>>

DrainEnd ==
    /\ phase = "drain" /\ total >= RingSize
    /\ drained = DrainStop
    /\ phase' = "drained"
    /\ UNCHANGED <<curr, total, matched, filesize, buf, wrbuf, written,
                   drained, input>>

Drain == DrainShort \/ DrainByte \/ DrainEnd

(* local_close, after the drain or after a body loop that gave up.         *)
LocalClose ==
    /\ phase \in {"body", "drained"}
    /\ written' = written \o wrbuf /\ wrbuf' = <<>>
    /\ phase' = "closed"
    /\ UNCHANGED <<curr, total, matched, filesize, buf, drained, input>>

RingNext == (\E ch \in Byte : RingAppend(ch)) \/ Drain \/ LocalClose

RingSpec == RingInit /\ [][RingNext]_ringVars

-------------------------------------------------------------------------------
RingTypeOK ==
    /\ curr \in Slots /\ total \in Nat
    /\ matched \in 0..MarkerLen /\ filesize \in Nat
    /\ buf \in [Slots -> Byte]
    /\ wrbuf \in Seq(Byte) /\ Len(wrbuf) <= WrbSize
    /\ written \in Seq(Byte)
    /\ phase \in Phases /\ drained \in Slots
    /\ input \in Seq(Byte)

(* The stream ends as a multipart part ends: CR LF and the marker.         *)
EndsPart(s) ==
    LET n == Len(s) - MarkerLen IN
    /\ n >= 2 /\ s[n - 1] = CR /\ s[n] = LF
    /\ \A j \in 1..MarkerLen : s[n + j] = Marker[j]

(* Position k of s is the last byte of an occurrence of the marker.        *)
MarkerAt(s, k) ==
    /\ k >= MarkerLen
    /\ \A j \in 1..MarkerLen : s[k - MarkerLen + j] = Marker[j]

(* Position k of s is the first byte of a line.                            *)
StartsLine(s, k) == k = 1 \/ s[k - 1] = LF

(* When the file is closed after a recognised marker and the ring had      *)
(* filled up, the file holds exactly the bytes before the CR LF and the    *)
(* marker, in order, and rb->filesize is their number: nothing of the      *)
(* trailer leaks out, nothing of the image is lost in the ring or in wrbuf.*)
ImageExact ==
    phase = "closed" /\ matched = MarkerLen /\ total >= RingSize
        /\ EndsPart(input) =>
      LET n == total - MarkerLen - 2 IN
      /\ filesize = n
      /\ Len(written) = n
      /\ \A k \in 1..n : written[k] = input[k]

(* The body loop stops at the first marker that starts a line and stops   *)
(* nowhere but at a marker: the matcher, which does not back up after a    *)
(* mismatch, still finds every delimiter a client may send.                *)
MatcherExact ==
    /\ phase = "drain" => MarkerAt(input, total)
    /\ phase = "body" =>
         \A k \in 1..total :
            ~(MarkerAt(input, k) /\ StartsLine(input, k - MarkerLen + 1))

(* The output file is at every moment a prefix of what was read of the     *)
(* body, also when a part smaller than the ring is drained in one call: a  *)
(* transfer that gives up leaves no foreign bytes.                         *)
FileIsPrefix ==
    /\ Len(written) <= total
    /\ \A k \in 1..Len(written) : written[k] = input[k]

-------------------------------------------------------------------------------
(* The inductive invariant.                                                *)

(* The position in the stream of the byte that slot i holds (< 1: none).   *)
Pos(i) == IF i <= curr THEN total - curr + i ELSE total - curr + i - RingSize

(* Byte k of what went to local_write, wherever it is now.                 *)
Emitted(k) ==
    IF k <= Len(written) THEN written[k] ELSE wrbuf[k - Len(written)]

(* The number of bytes the image has, once the marker is recognised.       *)
ImageLen ==
    IF input[total - MarkerLen - 1] = CR
    THEN total - MarkerLen - 2 ELSE total - MarkerLen - 1

(* The ring is a window on the newest bytes of the stream.                 *)
WindowInv ==
    /\ Len(input) = total
    /\ total < RingSize => curr = total
    /\ \A i \in Slots : Pos(i) >= 1 => buf[i] = input[Pos(i)]

(* matched counts marker bytes at the end of the stream, and counts all of *)
(* them when they start a line.                                            *)
MatchInv ==
    /\ matched <= total
    /\ \A j \in 1..matched : input[total - matched + j] = Marker[j]
    /\ phase = "body" => matched < MarkerLen
    /\ phase \in {"drain", "drained"} => matched = MarkerLen
    /\ \A m \in 0..MarkerLen :
         /\ m <= total
         /\ StartsLine(input, total - m + 1)
         /\ \A j \in 1..m : input[total - m + j] = Marker[j]
         => m = matched
    /\ phase = "body" =>
         \A k \in 1..total :
            ~(MarkerAt(input, k) /\ StartsLine(input, k - MarkerLen + 1))

(* What was emitted is a prefix of the stream, and how long it is.         *)
StreamInv ==
    /\ phase = "body" =>
         filesize = IF total >= RingSize THEN total - RingSize ELSE 0
    /\ phase = "drain" /\ total < RingSize => filesize = 0
    /\ Len(written) + Len(wrbuf) = filesize
    /\ filesize <= total
    /\ \A k \in 1..filesize : Emitted(k) = input[k]
    /\ phase = "drain" /\ total >= RingSize =>
         /\ total - RingSize <= filesize /\ filesize <= ImageLen
         /\ Pos(drained) = filesize + 1
    /\ phase \in {"drained", "closed"} /\ matched = MarkerLen
          /\ total >= RingSize => filesize = ImageLen
    /\ phase = "closed" => wrbuf = <<>>

RingInv == RingTypeOK /\ WindowInv /\ MatchInv /\ StreamInv
===============================================================================

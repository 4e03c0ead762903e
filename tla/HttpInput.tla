------------------------------- MODULE HttpInput -------------------------------
(***************************************************************************)
(* http_input() of target/sbin/upgrade/http_input.c: one HTTP request read *)
(* from the socket inetd hands over, up to the status it returns.          *)
(*                                                                         *)
(* The client sends body and declares its length; TCP cuts it into pieces  *)
(* at will, so read(2) may return any number of bytes up to what was asked *)
(* for.  The client may close the connection behind any byte ("eof"):      *)
(* read(2) returns what was sent before and then 0; or the connection may  *)
(* be reset ("reset"), after which read(2) returns -1.                     *)
(*                                                                         *)
(* A header line of a part is one byte of the model: FwLine is a           *)
(* Content-Disposition with name="firmware" and a file name, NoNameLine    *)
(* one with an empty file name, NotFormLine one that is not form-data;     *)
(* any other byte is some other header line.                               *)
(***************************************************************************)
EXTENDS UploadRing, SequencesExt

CONSTANTS
    Bodies,         \* [bytes, image]: what clients send, and the image in it
    Faults,         \* the connection faults that can happen
    Pieces,         \* FALSE: all that read(2) asks for has always arrived,
                    \* as far as the client sends it
    InBufSize,      \* INPUT_BUFFER_SIZE
    LineMax,        \* LINE_BUFFER_LEN
    FwLine, NoNameLine, NotFormLine

ASSUME InputAssumption ==
    /\ InBufSize \in Nat \ {0} /\ LineMax \in Nat \ {0}
    /\ Faults \subseteq {"eof", "reset"} /\ Pieces \in BOOLEAN
    /\ \A b \in Bodies : b.bytes \in Seq(Byte) /\ b.image \in Seq(Byte)
    /\ {FwLine, NoNameLine, NotFormLine} \subseteq Byte \ {CR, LF}
    /\ FwLine \notin {NoNameLine, NotFormLine}

\* The boundary is taken from a header line, which ends at the CR; with its
\* dashes it has at most 72 characters, against the 256 of a line.
ASSUME BoundaryAssumption ==
    /\ \A j \in 1..Len(Marker) : Marker[j] # CR
    /\ Len(Marker) + 2 <= LineMax

(* (unsigned)-1; inbuf_p is only ever compared with it, and stays below.   *)
UINT_MAX == InBufSize + 1

Requests == {"GET", "POST", "POST no boundary or length", "other method"}

Statuses == {"none", "READY", "SHOW_INDEX", "BAD_MULTIPART",
             "CANT_OPEN_OFILE", "FW_PART_REQUIRED", "METHOD_ERR",
             "RB_INIT_ERR", "READ_ERR"}

VARIABLES
    pc,         \* where http_input stands
    request,    \* the request line and headers
    body,       \* the element of Bodies the client sends
    conn,       \* "open", or the fault that hit the connection
    sent,       \* body bytes the client sends before it closes
    pos,        \* body bytes taken from the socket by read(2)
    counter,    \* args->counter_value
    inbuf,      \* args->inbuf; bytes beyond inbufL are left from before
    inbufP,     \* args->inbuf_p
    inbufL,     \* args->inbuf_l, unsigned
    line,       \* the bytes read_line has stored
    match,      \* match == 2 in test_part_header
    status      \* the value returned

inVars == <<pc, request, body, conn, sent, pos, counter, inbuf, inbufP,
            inbufL, line, match, status>>
vars == <<ringVars, inVars>>

ContentLength == Len(body.bytes)     \* args->len

-------------------------------------------------------------------------------
(* The connection.                                                         *)

(* What read(fd, inbuf, m) may return.  In the discard loop the socket is  *)
(* non-blocking, and -1 also means that nothing has arrived yet.           *)
ReadResults(m) ==
    LET most == Min({m, sent - pos}) IN
    IF m = 0 \/ (conn = "eof" /\ pos = sent) THEN {0}
    ELSE IF conn = "reset" THEN {-1}
    ELSE {n \in 1..most : Pieces \/ n = most}
           \cup (IF pc = "discard" THEN {-1} ELSE {})

(* MIN(INPUT_BUFFER_SIZE, len - counter_value); the difference is unsigned. *)
Wanted ==
    IF counter > ContentLength THEN InBufSize
    ELSE Min({InBufSize, ContentLength - counter})

(* counter_value + 1.  Beyond the declared length only that it is beyond   *)
(* matters, so the model's counter stops there.                            *)
Counted == Min({counter + 1, ContentLength + 1})

(* inbuf after n bytes were read into its beginning.                       *)
Overlay(n) ==
    [i \in 1..InBufSize |-> IF i <= n THEN body.bytes[pos + i] ELSE inbuf[i]]

(* Mutant: inbuf_p is compared with 0 before it is reduced.                *)
FilledNoWrap ==
    IF inbufP # 0
    THEN {[buf |-> inbuf, len |-> inbufL, pos |-> pos]}
    ELSE {[buf |-> Overlay(n), len |-> n, pos |-> pos + n] :
            n \in ReadResults(Wanted) \ {-1}}

(* The refill of local_read: only when inbuf_p wraps to 0, and the -1 of a *)
(* failed read(2) becomes a huge inbuf_l.                                  *)
Filled ==
    IF inbufP % InBufSize # 0
    THEN {[buf |-> inbuf, len |-> inbufL, pos |-> pos]}
    ELSE {[buf |-> Overlay(n),
           len |-> IF n < 0 THEN UINT_MAX ELSE n,
           pos |-> pos + (IF n < 0 THEN 0 ELSE n)] :
             n \in ReadResults(Wanted)}

(* local_read(args, &ch, 1) returning 1 ...                                *)
LocalRead(ch) ==
    LET p == inbufP % InBufSize IN
    \E f \in Filled :
        /\ p < f.len
        /\ ch = f.buf[p + 1]
        /\ inbufP' = p + 1 /\ counter' = Counted
        /\ inbuf' = f.buf /\ inbufL' = f.len /\ pos' = f.pos

(* Mutant: inbuf_p is not reset when the buffer is used up.                *)
LocalReadNoneStuck ==
    \E f \in Filled :
        /\ inbufP % InBufSize >= f.len
        /\ UNCHANGED <<inbufP, counter>>
        /\ inbuf' = f.buf /\ inbufL' = f.len /\ pos' = f.pos

(* ... and returning 0: the buffer is used up, whatever is still to come.  *)
LocalReadNone ==
    \E f \in Filled :
        /\ inbufP % InBufSize >= f.len
        /\ inbufP' = 0 /\ UNCHANGED counter
        /\ inbuf' = f.buf /\ inbufL' = f.len /\ pos' = f.pos

(* The peer closes, behind a byte that http_input may not have read yet,   *)
(* or the connection breaks.  With Pieces it closes behind what was read:  *)
(* the pieces read before take it to any other byte.                       *)
ConnFault(f) ==
    /\ conn = "open" /\ pc # "done"
    /\ conn' = f
    /\ IF f = "eof"
       THEN sent' \in IF Pieces THEN {pos} ELSE pos..ContentLength
       ELSE UNCHANGED sent
    /\ UNCHANGED <<ringVars, pc, request, body, pos, counter, inbuf, inbufP,
                   inbufL, line, match, status>>

-------------------------------------------------------------------------------
(* read_line: up to LF, or LineMax bytes; the string ends at the first CR. *)

LinePcs == {"first", "disposition", "partheaders", "skipline"}

LineDone == line # <<>> /\ (Last(line) = LF \/ Len(line) = LineMax)

Text ==
    LET IsEnd(c) == c \in {CR, LF}
        end == SelectInSeq(line, IsEnd)
    IN  SubSeq(line, 1, (IF end = 0 THEN Len(line) ELSE end) - 1)

LineByte ==
    /\ pc \in LinePcs /\ ~LineDone
    /\ \E ch \in Byte : LocalRead(ch) /\ line' = Append(line, ch)
    /\ UNCHANGED <<ringVars, pc, request, body, conn, sent, match, status>>

(* Leaves pc for next, with status s; the socket state is the caller's.    *)
Goto(next, s) == pc' = next /\ status' = s /\ line' = <<>>

(* The part of the state that a control step between two reads leaves.     *)
NoRead == UNCHANGED <<ringVars, request, body, conn, sent, pos, counter,
                      inbuf, inbufP, inbufL>>
NoRing == UNCHANGED <<ringVars, request, body, conn, sent>>

-------------------------------------------------------------------------------
(* http_input up to the body.                                              *)

(* Request line and headers; they are read byte by byte from the socket,   *)
(* not through inbuf.                                                      *)
ReadRequest ==
    /\ pc = "request"
    /\ \/ conn # "open" /\ Goto("done", "READ_ERR")
       \/ request = "other method" /\ Goto("done", "METHOD_ERR")
       \/ request = "GET" /\ Goto("done", "SHOW_INDEX")
       \/ request = "POST no boundary or length"
            /\ Goto("done", "BAD_MULTIPART")
       \/ request = "POST" /\ Goto("first", "none")
    /\ NoRead /\ UNCHANGED match

(* The first line of the body.  Anything but the marker is let through.    *)
FirstLine ==
    /\ pc = "first" /\ LineDone
    /\ Goto(IF IsPrefix(Marker, Text) THEN "disposition" ELSE "open", "none")
    /\ NoRead /\ UNCHANGED match

FirstLineFails ==
    /\ pc = "first" /\ ~LineDone /\ LocalReadNone
    /\ Goto("done", "READ_ERR")
    /\ NoRing /\ UNCHANGED match

(* Mutant: the call returns without a status.                              *)
NoFirmwareNoStatus == Goto("done", "none")

(* test_part_header returned something other than 2.                       *)
NoFirmware == Goto("done", "FW_PART_REQUIRED")

(* test_part_header: the line after a boundary line.                       *)
Disposition ==
    /\ pc = "disposition" /\ LineDone
    /\ IF Text \in {<<NoNameLine>>, <<NotFormLine>>}
       THEN NoFirmware
       ELSE Goto("partheaders", "none")
    /\ match' = (Text = <<FwLine>>)
    /\ NoRead

DispositionFails ==
    /\ pc = "disposition" /\ ~LineDone /\ LocalReadNone
    /\ NoFirmware
    /\ NoRing /\ UNCHANGED match

(* The other header lines of the part, up to an empty line - or up to a    *)
(* read that fails: the loop of lines 465-470 leaves the same way.         *)
AfterPartHeaders == Goto(IF match THEN "open" ELSE "skip", "none")

(* Mutant: the header loop stops at its first line.                        *)
PartHeadersOne ==
    /\ pc = "partheaders" /\ LineDone
    /\ AfterPartHeaders
    /\ NoRead /\ UNCHANGED match

PartHeaders ==
    /\ pc = "partheaders" /\ LineDone
    /\ IF Text = <<>> THEN AfterPartHeaders ELSE Goto("partheaders", "none")
    /\ NoRead /\ UNCHANGED match

PartHeadersFail ==
    /\ pc = "partheaders" /\ ~LineDone /\ LocalReadNone
    /\ AfterPartHeaders
    /\ NoRing /\ UNCHANGED match

(* Skipping a part that is not the firmware: LF, '-', '-' in a row, then   *)
(* the rest of that line against the boundary.                             *)
SkipNext(ch) ==
    CASE pc = "skip"  -> IF ch = LF THEN "skip1" ELSE "skip"
      [] pc = "skip1" -> IF ch = Marker[1] THEN "skip2" ELSE "skip"
      [] pc = "skip2" -> IF ch = Marker[2] THEN "skipline" ELSE "skip"

Skip ==
    /\ pc \in {"skip", "skip1", "skip2"}
    /\ \/ \E ch \in Byte : LocalRead(ch) /\ Goto(SkipNext(ch), "none")
       \/ pc = "skip" /\ LocalReadNone /\ Goto("disposition", "none")
       \/ pc # "skip" /\ LocalReadNone /\ Goto("skip", "none")
    /\ NoRing /\ UNCHANGED match

SkipLine ==
    LET boundary == SubSeq(Marker, 3, MarkerLen)
        rest == SubSeq(Text, MarkerLen - 1, Len(Text))
    IN
    /\ pc = "skipline" /\ LineDone
    /\ IF ~IsPrefix(boundary, Text) THEN Goto("skip", "none")
       ELSE IF IsPrefix(SubSeq(Marker, 1, 2), rest) THEN NoFirmware
       ELSE Goto("disposition", "none")
    /\ NoRead /\ UNCHANGED match

SkipLineFails ==
    /\ pc = "skipline" /\ ~LineDone /\ LocalReadNone
    /\ NoFirmware
    /\ NoRing /\ UNCHANGED match

-------------------------------------------------------------------------------
(* http_input from the output file on.                                     *)

OpenOutput ==
    /\ pc = "open"
    /\ \/ Goto("body", "none")
       \/ Goto("done", "CANT_OPEN_OFILE")
       \/ Goto("close", "RB_INIT_ERR")
    /\ NoRead /\ UNCHANGED match

(* One turn of the body loop.                                              *)
BodyByte ==
    /\ pc = "body" /\ counter < ContentLength
    /\ \E ch \in Byte : LocalRead(ch) /\ RingAppend(ch)
    /\ pc' = IF phase' = "drain" THEN "drain" ELSE "body"
    /\ UNCHANGED <<request, body, conn, sent, line, match, status>>

(* Mutant: err starts as HTTP_INPUT_READY.                                 *)
BodyFailsReady ==
    /\ pc = "body"
    /\ \/ counter < ContentLength /\ LocalReadNone
       \/ counter >= ContentLength
            /\ UNCHANGED <<pos, counter, inbuf, inbufP, inbufL>>
    /\ Goto("close", "READY")
    /\ NoRing /\ UNCHANGED match

(* The loop ends without the marker: err is still 1, HTTP_INPUT_SHOW_INDEX,*)
(* and the answer is http_fail().                                          *)
BodyFails ==
    /\ pc = "body"
    /\ \/ counter < ContentLength /\ LocalReadNone
       \/ counter >= ContentLength
            /\ UNCHANGED <<pos, counter, inbuf, inbufP, inbufL>>
    /\ Goto("close", "SHOW_INDEX")
    /\ NoRing /\ UNCHANGED match

DrainRing ==
    /\ pc = "drain"
    /\ Drain
    /\ pc' = IF phase' = "drained" THEN "discard" ELSE "drain"
    /\ UNCHANGED <<request, body, conn, sent, pos, counter, inbuf, inbufP,
                   inbufL, line, match, status>>

(* "Drain everything left in socket": one local_read whose result nobody   *)
(* looks at.                                                               *)
Discard ==
    /\ pc = "discard" /\ counter # ContentLength
    /\ (\E ch \in Byte : LocalRead(ch)) \/ LocalReadNone
    /\ NoRing /\ UNCHANGED <<pc, line, match, status>>

Accepted ==
    /\ pc = "discard" /\ counter = ContentLength
    /\ Goto("close", "READY")
    /\ NoRead /\ UNCHANGED match

Close ==
    /\ pc = "close"
    /\ LocalClose
    /\ pc' = "done"
    /\ UNCHANGED <<request, body, conn, sent, pos, counter, inbuf, inbufP,
                   inbufL, line, match, status>>

-------------------------------------------------------------------------------
InputInit ==
    /\ RingInit
    /\ pc = "request" /\ request \in Requests /\ body \in Bodies
    /\ conn = "open" /\ sent = ContentLength /\ pos = 0 /\ counter = 0
    /\ inbuf = [i \in 1..InBufSize |-> CR]      \* bzero(&args)
    /\ inbufP = 0 /\ inbufL = 0
    /\ line = <<>> /\ match = FALSE /\ status = "none"

HttpStep ==
    \/ ReadRequest \/ LineByte \/ FirstLine \/ FirstLineFails
    \/ Disposition \/ DispositionFails \/ PartHeaders \/ PartHeadersFail
    \/ Skip \/ SkipLine \/ SkipLineFails
    \/ OpenOutput \/ BodyByte \/ BodyFails \/ DrainRing \/ Discard
    \/ Accepted \/ Close

InputNext == HttpStep \/ \E f \in Faults : ConnFault(f)

(* The process runs, and a client whose connection is up keeps sending.    *)
InputSpec == InputInit /\ [][InputNext]_vars /\ WF_vars(HttpStep)

-------------------------------------------------------------------------------
InputTypeOK ==
    /\ RingTypeOK
    /\ pc \in LinePcs \cup {"request", "skip", "skip1", "skip2", "open", "body",
                             "drain", "discard", "close", "done"}
    /\ request \in Requests /\ body \in Bodies
    /\ conn \in {"open"} \cup Faults
    /\ sent \in 0..ContentLength /\ (conn = "open" => sent = ContentLength)
    /\ pos \in 0..sent /\ counter \in 0..(ContentLength + 1)
    /\ inbuf \in [1..InBufSize -> Byte] /\ inbufP \in 0..InBufSize
    /\ inbufL \in 0..InBufSize \cup {UINT_MAX}
    /\ line \in Seq(Byte) /\ match \in BOOLEAN /\ status \in Statuses
    /\ status # "none" <=> pc \in {"close", "done"}

ReturnedReady == pc = "done" /\ status = "READY"

(* When http_input returns HTTP_INPUT_READY ("We get FW image in file      *)
(* $file", upgrade.c:265) the output file holds exactly the image the      *)
(* client put into the firmware part, and args->filesize is its size.      *)
ReadyMeansImage ==
    ReturnedReady => written = body.image /\ filesize = Len(body.image)

(* The same for a body that arrives in pieces: nothing of the image is     *)
(* lost and nothing of what follows it is added.                           *)
ReadyEndsWithImage ==
    ReturnedReady =>
        IsSuffix(body.image, written) /\ filesize = Len(written)

(* As long as the connection is up http_input comes to an end, however the *)
(* body is cut into pieces and however often the non-blocking reads of the *)
(* discard loop find nothing.                                              *)
ReturnsUnlessClosed == <>(pc = "done" \/ conn # "open")

-------------------------------------------------------------------------------
(* The body a browser sends for the form of http_index (lines 119-122),    *)
(* which has the firmware and nothing else in it.                          *)

LineBreakAt(s, k) == s[k] = CR /\ s[k + 1] = LF
MarkerFrom(s, k) == \A j \in 1..MarkerLen : s[k + j] = Marker[j]

(* The last byte of the Content-Disposition line.                          *)
DispositionEnd == MarkerLen + 5

(* The first h bytes are the marker line and the header of the firmware    *)
(* part, in lines that fit into read_line's buffer.                        *)
FormHeader(s, h) ==
    /\ DispositionEnd + 2 <= h /\ h <= Len(s)
    /\ MarkerFrom(s, 0) /\ LineBreakAt(s, MarkerLen + 1)
    /\ s[MarkerLen + 3] = FwLine /\ LineBreakAt(s, MarkerLen + 4)
    /\ s[h - 2] = LF /\ LineBreakAt(s, h - 1)
    /\ \A k \in DispositionEnd..(h - 3) :
         s[k] = LF =>
           /\ s[k + 1] \notin {CR, LF}
           /\ \E e \in (k + 2)..(k + LineMax) : e <= h - 2 /\ s[e] = LF

(* Then follow the image, long enough to fill the ring, a line break and   *)
(* the marker, which is nowhere in the header's other lines or the image.  *)
FormUploadAt(b, h) ==
    LET s == b.bytes
        end == h + Len(b.image)
    IN
    /\ FormHeader(s, h)
    /\ end + 2 + MarkerLen <= Len(s)
    /\ \A k \in 1..Len(b.image) : s[h + k] = b.image[k]
    /\ LineBreakAt(s, end + 1) /\ MarkerFrom(s, end + 2)
    /\ \A k \in DispositionEnd..(end + 1) : ~MarkerFrom(s, k)
    /\ RingSize <= Len(b.image) + 2 + MarkerLen

FormUpload(b) == \E h \in 1..Len(b.bytes) : FormUploadAt(b, h)
HeaderLen(b) == CHOOSE h \in 1..Len(b.bytes) : FormUploadAt(b, h)

(* The position of the last byte of the marker behind the image.           *)
UploadEnd(b) == HeaderLen(b) + Len(b.image) + 2 + MarkerLen

(* What the theorems assume of the clients and of the connection.          *)
FormUploads == "reset" \notin Faults /\ \A b \in Bodies : FormUpload(b)

-------------------------------------------------------------------------------
(* The inductive invariant.                                                *)

BeforeBody == LinePcs \cup {"request", "skip", "skip1", "skip2", "open"}

(* Where the ring stands at each place of http_input.                      *)
PhaseInv ==
    /\ pc \in BeforeBody => phase = "body" /\ total = 0
    /\ pc = "body" => phase = "body"
    /\ pc = "drain" => phase = "drain"
    /\ pc = "discard" => phase = "drained"
    /\ pc = "close" => phase = IF status = "READY" THEN "drained" ELSE "body"
    /\ status = "READY" /\ pc = "done" => phase = "closed"
    /\ status = "READY" => matched = MarkerLen

(* inbuf is a window on the body at counter, and what read(2) took from    *)
(* the socket is in it.                                                    *)
InWindow ==
    /\ pos = counter + (IF inbufP = 0 THEN 0 ELSE inbufL - inbufP)
    /\ inbufP > 0 =>
         /\ inbufP <= inbufL /\ inbufL <= InBufSize /\ inbufP <= counter
         /\ \A i \in 1..inbufL : inbuf[i] = body.bytes[counter - inbufP + i]
         /\ Pieces \/ inbufL = InBufSize \/ pos = sent

ReadInv == pc \in BeforeBody \cup {"body"} => InWindow

(* The line being read is the one http_input takes it for.                 *)
LineInv ==
    LET s == body.bytes
        h == HeaderLen(body)
        a == counter - Len(line)
    IN
    /\ pc \in LinePcs => \A k \in 1..Len(line) : line[k] = s[a + k]
    /\ pc = "request" => counter = 0 /\ line = <<>>
    /\ pc = "first" => a = 0 /\ Len(line) <= MarkerLen + 2
    /\ pc = "disposition" => a = MarkerLen + 2 /\ Len(line) <= 3
    /\ pc = "partheaders" =>
         /\ match
         /\ DispositionEnd <= a /\ a <= h - 2 /\ s[a] = LF /\ counter <= h
         /\ Len(line) <= LineMax
         /\ \A k \in 1..(Len(line) - 1) : line[k] # LF
    /\ pc \notin {"skip", "skip1", "skip2", "skipline"}

(* The client is gone and nothing of what it sent is left.                 *)
Silent == conn = "eof" /\ pos = sent /\ inbufP = 0

(* The ring gets a run of the body that starts behind the disposition line *)
(* and ends with the marker; unless the body comes in pieces, it starts    *)
(* with the image.                                                         *)
RunFrom(start) ==
    /\ DispositionEnd <= start /\ start <= HeaderLen(body)
    /\ \A k \in 1..total : input[k] = body.bytes[start + k]

BodyInv ==
    /\ pc \in {"open", "body"} =>
         /\ RunFrom(counter - total)
         /\ \/ Pieces \/ counter - total = HeaderLen(body)
            \/ Silent /\ total = 0
    /\ pc \in {"drain", "discard"} \/ status = "READY" =>
         /\ RunFrom(UploadEnd(body) - total)
         /\ Pieces \/ UploadEnd(body) - total = HeaderLen(body)

(* Nothing but the image is on its way into the output file.               *)
FileInv ==
    /\ Len(written) + Len(wrbuf) <= Len(body.image)
    /\ \A k \in 1..(Len(written) + Len(wrbuf)) : Emitted(k) = body.image[k]

InputInv ==
    /\ InputTypeOK /\ RingInv /\ PhaseInv /\ ReadInv /\ LineInv /\ BodyInv
    /\ Pieces \/ FileInv

-------------------------------------------------------------------------------
(* The call as main sees it: the file, the value returned, the size.       *)
AsTransfer == INSTANCE Transfer WITH
    image  <- body.image,
    out    <- written,
    result <- IF pc # "done" THEN "running"
              ELSE IF status = "READY" THEN "ready" ELSE "given up",
    size   <- IF ReturnedReady THEN filesize ELSE 0

(* http_input keeps the contract of module Transfer: only image bytes ever *)
(* get into the output file, whenever the client goes away, and READY is   *)
(* returned for nothing less than the whole image.                         *)
ImplementsTransfer == AsTransfer!TransferSpec
===============================================================================

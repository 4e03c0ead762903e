----------------------------- MODULE MCUploadRing -----------------------------
(* UploadRing with every byte stream of at most MaxInput bytes.             *)
EXTENDS UploadRing

CONSTANT MaxInput      \* bound on the length of the stream

MCMarker == <<"-", "-", "b">>

MCNext ==
    \/ total < MaxInput /\ \E ch \in Byte : RingAppend(ch)
    \/ Drain
    \/ LocalClose

MCSpec == RingInit /\ [][MCNext]_ringVars
===============================================================================

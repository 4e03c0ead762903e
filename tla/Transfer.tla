------------------------------- MODULE Transfer --------------------------------
(***************************************************************************)
(* What main() of upgrade.c relies on when it calls http_input: the output *)
(* file grows along the image and nothing else is put into it; the call    *)
(* either reports READY, with the whole image in the file and its size in  *)
(* args->filesize, or gives up with a beginning of the image in the file.  *)
(***************************************************************************)
EXTENDS Integers, Sequences, SequencesExt

VARIABLES
    image,      \* what the client put into the firmware part
    out,        \* contents of the output file
    result,     \* "running", "ready" or "given up"
    size        \* args->filesize after the return

transferVars == <<image, out, result, size>>

TransferInit == out = <<>> /\ result = "running" /\ size = 0

Grows == IsPrefix(out, out') /\ IsPrefix(out', image)

Collect == result = "running" /\ Grows /\ UNCHANGED <<image, result, size>>

Ready ==
    /\ result = "running" /\ Grows
    /\ out' = image /\ size' = Len(image)
    /\ result' = "ready"
    /\ UNCHANGED image

GiveUp ==
    /\ result = "running" /\ Grows
    /\ result' = "given up"
    /\ UNCHANGED <<image, size>>

TransferSpec ==
    TransferInit /\ [][Collect \/ Ready \/ GiveUp]_transferVars
===============================================================================

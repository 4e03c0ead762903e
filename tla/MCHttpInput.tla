----------------------------- MODULE MCHttpInput ------------------------------
(* HttpInput with bodies as browsers build them, in a small alphabet.       *)
EXTENDS HttpInput

CRLF == <<"r", "n">>
MCMarker == <<"-", "-", "b">>
Delimiter == CRLF \o MCMarker
CloseDelimiter == Delimiter \o <<"-", "-">> \o CRLF

Part(header, data) == CRLF \o <<header>> \o CRLF \o CRLF \o data

Upload(image) ==
    [bytes |-> MCMarker \o Part("F", image) \o CloseDelimiter, image |-> image]

(* With a Content-Type line among the headers of the part.                  *)
UploadTyped(image) ==
    [bytes |-> MCMarker \o CRLF \o <<"F">> \o Part("o", image) \o CloseDelimiter,
     image |-> image]

(* A text field before the firmware part.                                   *)
UploadAfterField(data, image) ==
    [bytes |-> MCMarker \o Part("o", data) \o Delimiter \o Part("F", image)
                 \o CloseDelimiter,
     image |-> image]

(* A field after the firmware part.                                         *)
UploadBeforeField(image) ==
    [bytes |-> MCMarker \o Part("F", image) \o Delimiter \o Part("o", <<"x">>)
                 \o CloseDelimiter,
     image |-> image]

(* Forms without a firmware file, and a body that is no multipart form: its *)
(* first line is dropped and the rest is taken for the image.               *)
NoFile(header) ==
    [bytes |-> MCMarker \o Part(header, <<"x">>) \o CloseDelimiter, image |-> <<>>]
Raw(image) ==
    [bytes |-> <<"x">> \o CRLF \o image \o CloseDelimiter, image |-> image]

Images == {<<a, b>> : a \in {"x", "-"}, b \in {"-", "r", "n"}}
            \cup {<<"-", "-", "x">>, <<"n", "-", "-">>, <<"-", "-", "-", "b">>}
            \cup {<<"x", "x", "r", "n", "-", "x", "b">>}

MCBodies ==
    {Upload(i) : i \in Images}
      \cup {UploadAfterField(d, <<"x", "-">>) : d \in {<<"x">>, <<"n", "-">>}}
      \cup {UploadTyped(<<"x", "n">>), UploadBeforeField(<<"x", "x">>)}
      \cup {Raw(<<"x", "-">>)}
      \cup {NoFile(h) : h \in {"o", "E", "N"}}

MCUploads == {Upload(i) : i \in Images}

(* The bodies the theorems speak of; an image with the marker inside is not *)
(* among them.                                                              *)
MCFormBodies ==
    {Upload(i) : i \in Images \ {<<"-", "-", "-", "b">>}}
      \cup {UploadTyped(<<"x", "n">>), UploadBeforeField(<<"x", "x">>)}

ASSUME MCFormAssumption == \A b \in MCFormBodies : FormUpload(b)

(* Fewer bodies for the runs in which read(2) returns any piece.            *)
MCPieceBodies ==
    {Upload(<<"x", "-">>), Upload(<<"-", "r">>),
     UploadAfterField(<<"n", "-">>, <<"x", "-">>),
     UploadBeforeField(<<"x", "x">>)}
===============================================================================

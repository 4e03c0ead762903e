------------------------------ MODULE MCConfTree -------------------------------
(* ConfTree with two instances of one name, the second with a comment in    *)
(* front, and the board's information.                                      *)
EXTENDS ConfTree

CONSTANTS
    p, b,       \* plain texts
    padded,     \* p with white space around it
    blank,      \* white space
    quoted,     \* a text with an entity in it, and
    unquoted,   \* the text it stands for
    markup,     \* a text with a tag in it
    arrow,      \* "-->" and a tag, which end a comment
    cut         \* p, a quote and something else

MCWord == {"vendor", "x", "y"}
MCName == MCWord \cup {"x y", "x/"}
MCText == {p, b, NoData, Empty, Joined, padded, blank, quoted, unquoted, markup,
           arrow, cut}

MCReadName ==
    [name \in MCName |->
       IF name = "x y" THEN "x" ELSE IF name = "x/" THEN Nil ELSE name]

Expanded == [v \in MCText |-> IF v = quoted THEN unquoted ELSE v]
Stripped ==
    [v \in MCText |->
       IF v = padded THEN p ELSE IF v = blank THEN Empty ELSE Expanded[v]]
MCRead ==
    [kind \in {"TEXT", "COMMENT", "ATTR"} |->
       IF kind # "ATTR" THEN Stripped
       ELSE [v \in MCText |-> IF v = cut THEN p ELSE Expanded[v]]]
MCBad ==
    [kind \in {"TEXT", "COMMENT", "ATTR"} |->
       IF kind = "COMMENT" THEN {arrow} ELSE {markup, arrow}]

P(name) == [name |-> name, id |-> 0]
PI(name, id) == [name |-> name, id |-> id]

MCInfoPath == <<P("vendor")>>

MCPaths ==
    {<<P("x")>>, <<P("y")>>, <<PI("x", 1)>>, <<PI("x", 2)>>, <<PI("x", 3)>>,
     <<P("y"), P("y")>>, <<P("x"), P("y")>>,
     <<PI("x", 1), P("y")>>, <<PI("x", 2), P("y")>>,
     <<>>, <<P("x y")>>, MCInfoPath, MCInfoPath \o <<P("y")>>}

Sm(path, v) == [op |-> "sm", path |-> path, attr |-> "a", value |-> v]
SmAttr(path, v) == [op |-> "smattr", path |-> path, attr |-> "a", value |-> v]

(* One key, with a text of each kind somewhere, or two keys that lie on one *)
(* path or beside each other, in either order.                              *)
Singles ==
    {Sm(<<P("x")>>, blank), Sm(<<P("y")>>, markup),
     Sm(<<PI("x", 2)>>, quoted), Sm(<<PI("x", 2)>>, arrow),
     Sm(<<PI("x", 3)>>, p), Sm(<<PI("x", 2), P("y")>>, p),
     Sm(MCInfoPath, Empty), Sm(MCInfoPath \o <<P("y")>>, p), Sm(<<>>, p),
     SmAttr(<<P("x y")>>, p), SmAttr(<<P("x/")>>, p),
     SmAttr(<<P("x")>>, cut), SmAttr(<<P("y")>>, markup),
     SmAttr(<<PI("x", 2)>>, p)}
Pairs ==
    {{Sm(<<P("x")>>, p), Sm(<<P("x"), P("y")>>, Empty)},
     {Sm(<<P("y")>>, p), Sm(<<P("y"), P("y")>>, p)},
     {Sm(<<P("y")>>, Empty), Sm(<<PI("x", 2), P("y")>>, p)},
     {Sm(<<P("x"), P("y")>>, padded), SmAttr(<<P("y")>>, quoted)}}
MCRequests ==
    {<<k>> : k \in Singles}
      \cup UNION {{<<k, l>> : k \in pair, l \in pair} \ {<<k, k>> : k \in pair} :
                   pair \in Pairs}

MCDefault ==
    <<Node(0, "ROOT", Nil, Nil, Nil),
      Node(1, "ELEMENT", "x", Nil, [a \in {"a"} |-> p]),
      Node(1, "ELEMENT", "x", Nil, Nil),
      Node(3, "COMMENT", Nil, p, Nil)>>

ASSUME MCOneValue == OneValuePerPath
===============================================================================

------------------------------- MODULE ConfTree --------------------------------
(***************************************************************************)
(* The configuration tree of httpd: lookup and creation of nodes by path   *)
(* (lib/conf.lua), their values and attributes (lib/node.lua), the         *)
(* requests that edit them (cmd.xml), and what is left of the tree when it *)
(* has been written to config.xml and read again at the next start         *)
(* (xmldump, load_file, update_board_info).                                *)
(*                                                                         *)
(* The tree is a sequence of nodes; node 1 is the root, 0 is Lua's nil and *)
(* the children of a node are the nodes that name it as parent, in the     *)
(* order of the sequence: nodes are only ever appended.                    *)
(***************************************************************************)
EXTENDS Integers, Sequences, FiniteSets, FiniteSetsExt

CONSTANTS
    Name,       \* names of elements, as far as they are read as names, and
    Word,       \* the ones of them that getNode accepts in a path
    AttrName,   \* names of attributes, in lower case
    Text,       \* texts of nodes and values of attributes.  One that would be
                \* read as further nodes or attributes is not among them
    Default,    \* the tree that load_file makes of the default config.xml
    Requests,   \* bodies of "setmany" requests: sequences of keys
                \* [op, path, attr, value], in the order pairs() gives them
    Paths,      \* paths to look at: sequences of [name, id], id 0 for none
    InfoPath,   \* one of the paths update_board_info writes to
    BoardInfo,  \* what sysctl may answer there
    NoData,     \* "__NO_DATA__"
    Nil,        \* Lua's nil
    Empty,      \* the empty string
    Read,       \* what the parser makes of a text, a comment or the value of
                \* an attribute: white space around it stripped, entities
                \* expanded, a value cut off at its first quote
    Bad,        \* and the ones with which it fails, by a tag in a text or
                \* behind a comment that ends early, or by ">" in a value
    ReadName,   \* what it makes of a name, Nil if it fails
    Joined,     \* a text made of several
    MaxNodes    \* bound on the size of the tree

VARIABLES
    tree,       \* c.tree; of a dead httpd, the tree that is in config.xml
    up          \* httpd has started

vars == <<tree, up>>

Node(parent, kind, name, text, attr) ==
    [parent |-> parent, kind |-> kind, name |-> name, text |-> text,
     attr |-> attr]

Attrs == [AttrName -> Text \cup {Nil}]
NoAttr == [a \in AttrName |-> Nil]
Nodes == [parent : Nat, kind : {"ROOT", "ELEMENT", "TEXT", "COMMENT"},
          name : Name \cup {Nil}, text : Text \cup {Nil},
          attr : Attrs \cup {Nil}]
Parts == [name : Name, id : Nat]
Keys == [op : {"sm", "smattr"}, path : Seq(Parts), attr : AttrName,
         value : Text]

(* Parents come before their children and can have some.                   *)
IsTree(t) ==
    /\ t \in Seq(Nodes) /\ Len(t) > 0
    /\ t[1].kind = "ROOT" /\ t[1].parent = 0
    /\ \A i \in 2..Len(t) :
         /\ t[i].parent \in 1..(i - 1)
         /\ t[t[i].parent].kind \in {"ROOT", "ELEMENT"}
         /\ t[i].kind # "ROOT"
         /\ t[i].text = Nil <=> t[i].kind = "ELEMENT"

ASSUME TreeAssumption ==
    /\ Nil \notin Text /\ Nil \notin Attrs
    /\ {NoData, Empty, Joined} \subseteq Text
    /\ Read \in [{"TEXT", "COMMENT", "ATTR"} -> [Text -> Text]]
    /\ Bad \in [{"TEXT", "COMMENT", "ATTR"} -> SUBSET Text]
    /\ ReadName \in [Name -> Name \cup {Nil}]
    /\ Word \subseteq Name /\ Nil \notin Name
    /\ \A name \in Word : ReadName[name] = name
    /\ IsTree(Default)
    /\ Requests \subseteq Seq(Keys)
    /\ Paths \subseteq Seq(Parts) /\ InfoPath \in Seq(Parts)
    /\ BoardInfo \subseteq Text \cup {Nil}

-------------------------------------------------------------------------------
(* lib/conf.lua *)

Kids(t, n) == {i \in DOMAIN t : t[i].parent = n}
Named(t, n, name) ==
    {i \in Kids(t, n) : t[i].kind = "ELEMENT" /\ t[i].name = name}

(* Mutant: the last of several, not the first.                             *)
GetChildLast(t, n, part) ==
    LET named == Named(t, n, part.name)
        hits == {i \in named :
                   /\ part.name \in Word
                   /\ \/ part.id = 0
                      \/ Cardinality({j \in named : j <= i}) = part.id}
    IN  IF n = 0 \/ hits = {} THEN 0 ELSE Max(hits)

(* One part of a path, in getNode.  A part that is not a word fits no node. *)
GetChild(t, n, part) ==
    LET named == Named(t, n, part.name)
        hits == {i \in named :
                   /\ part.name \in Word
                   /\ \/ part.id = 0
                      \/ Cardinality({j \in named : j <= i}) = part.id}
    IN  IF n = 0 \/ hits = {} THEN 0 ELSE Min(hits)

getNode(t, path) ==
    LET walk[i \in 0..Len(path)] ==
          IF i = 0 THEN 1 ELSE GetChild(t, walk[i - 1], path[i])
    IN  walk[Len(path)]

(* Mutant: the parent does not get the node.                               *)
attachNodeOrphan(t, parent, name) ==
    Append(t, Node(0, "ELEMENT", name, Nil, NoAttr))

attachNode(t, parent, name) ==
    Append(t, Node(parent, "ELEMENT", name, Nil, NoAttr))

(* Mutant: any element will do.                                            *)
GetOrCreateChildAnyName(s, part) ==
    LET named == {i \in Kids(s.tree, s.node) : s.tree[i].kind = "ELEMENT"}
    IN  IF named = {} \/ Cardinality(named) < part.id
          THEN [tree |-> attachNode(s.tree, s.node, part.name),
                node |-> Len(s.tree) + 1]
          ELSE [s EXCEPT !.node = Min(named)]

(* One part of a path, in getOrCreateNode, of any characters.  "id ==      *)
(* matched" compares a string with a number: with an index the walk never  *)
(* descends to a child that exists.                                        *)
GetOrCreateChild(s, part) ==
    LET named == Named(s.tree, s.node, part.name)
        matched == IF part.id = 0 THEN Min({1, Cardinality(named)})
                   ELSE Cardinality(named)
    IN  IF matched = 0 \/ matched < part.id
          THEN [tree |-> attachNode(s.tree, s.node, part.name),
                node |-> Len(s.tree) + 1]
          ELSE [s EXCEPT !.node = IF part.id = 0 THEN Min(named) ELSE @]

getOrCreateNode(t, path) ==
    LET n == getNode(t, path)
        walk[i \in 0..Len(path)] ==
          IF i = 0 THEN [tree |-> t, node |-> 1]
          ELSE GetOrCreateChild(walk[i - 1], path[i])
    IN  IF n # 0 THEN [tree |-> t, node |-> n] ELSE walk[Len(path)]

-------------------------------------------------------------------------------
(* lib/node.lua *)

(* The child whose text is the value: the first one, if it has a text.     *)
ValueChild(t, n) ==
    IF Kids(t, n) # {} /\ t[Min(Kids(t, n))].kind # "ELEMENT"
      THEN Min(Kids(t, n))
      ELSE 0

value(t, n) ==
    LET c == ValueChild(t, n) IN IF c = 0 THEN Nil ELSE t[c].text

(* Mutant: a value that is there is not replaced.                          *)
setValueAppends(t, n, v) == Append(t, Node(n, "TEXT", Nil, v, Nil))

setValue(t, n, v) ==
    LET c == ValueChild(t, n) IN
    IF c # 0 THEN [t EXCEPT ![c].text = v]
    ELSE Append(t, Node(n, "TEXT", Nil, v, Nil))

setAttr(t, n, a, v) ==
    IF t[n].attr = Nil THEN t ELSE [t EXCEPT ![n].attr[a] = v]

-------------------------------------------------------------------------------
(* cmd.xml *)

(* One key of "setmany".  Both branches print what they have set, and      *)
(* printing a nil raises an error.                                         *)
DoKey(s, key) ==
    LET r == getOrCreateNode(s.tree, key.path)
        t == IF key.op = "sm" THEN setValue(r.tree, r.node, key.value)
             ELSE setAttr(r.tree, r.node, key.attr, key.value)
        n == getNode(t, key.path)
    IN  IF ~s.ok THEN s
        ELSE [tree |-> t,
              ok |-> IF key.op = "sm" THEN value(t, r.node) # Nil
                     ELSE n # 0 /\ t[n].attr # Nil]

setmany(t, req) ==
    LET done[i \in 0..Len(req)] ==
          IF i = 0 THEN [tree |-> t, ok |-> TRUE]
          ELSE DoKey(done[i - 1], req[i])
    IN  done[Len(req)]

SetMany(req) ==
    /\ up
    /\ tree' = setmany(tree, req).tree /\ Len(tree') <= MaxNodes
    /\ UNCHANGED up

(* "set" does not create.                                                  *)
Set(key) ==
    /\ up /\ key.op = "sm" /\ getNode(tree, key.path) # 0
    /\ tree' = setValue(tree, getNode(tree, key.path), key.value)
    /\ Len(tree') <= MaxNodes
    /\ UNCHANGED up

-------------------------------------------------------------------------------
(* config.xml: xmldump writes texts and attributes as they are, between    *)
(* white space that the parser strips.                                     *)

IsText(t, i) == t[i].kind = "TEXT"
Blank(text) == Read["TEXT"][text] = Empty

(* The texts that the parser cannot tell from i: neighbours of it.         *)
Run(t, i) ==
    {j \in Kids(t, t[i].parent) :
       \A k \in Kids(t, t[i].parent) :
         (i <= k /\ k <= j) \/ (j <= k /\ k <= i) => IsText(t, k)}

(* Mutant: an element with nothing in it is not written.                   *)
KeptUnlessEmpty(t, i) ==
    IF IsText(t, i)
      THEN i = Min(Run(t, i)) /\ \E j \in Run(t, i) : ~Blank(t[j].text)
      ELSE t[i].kind = "ELEMENT" => Kids(t, i) # {}

(* The parser makes no text node of white space.                           *)
Kept(t, i) ==
    IsText(t, i) =>
      /\ i = Min(Run(t, i))
      /\ \E j \in Run(t, i) : ~Blank(t[j].text)

KeptNodes(t) == {i \in DOMAIN t : Kept(t, i)}

LoadedText(t, i) ==
    LET full == {j \in Run(t, i) : ~Blank(t[j].text)} IN
    IF t[i].kind = "COMMENT" THEN Read["COMMENT"][t[i].text]
    ELSE IF ~IsText(t, i) THEN t[i].text
    ELSE IF Cardinality(full) = 1 THEN Read["TEXT"][t[Min(full)].text]
    ELSE Joined

LoadedName(t, i) == IF t[i].name = Nil THEN Nil ELSE ReadName[t[i].name]

(* No _attr is made of no attributes.                                      *)
LoadedAttr(t, i) ==
    IF t[i].attr \in {Nil, NoAttr} THEN Nil
    ELSE [a \in AttrName |->
            IF t[i].attr[a] = Nil THEN Nil ELSE Read["ATTR"][t[i].attr[a]]]

(* The number of a node when only those of kept are left, and back.        *)
Renumbered(kept, i) == Cardinality({j \in kept : j <= i})
Original(kept, k) == CHOOSE i \in kept : Renumbered(kept, i) = k

Reloaded(t) ==
    LET kept == KeptNodes(t) IN
    [k \in 1..Cardinality(kept) |->
       LET i == Original(kept, k) IN
       Node(Renumbered(kept, t[i].parent), t[i].kind, LoadedName(t, i),
            LoadedText(t, i), LoadedAttr(t, i))]

BadText(t, i) ==
    t[i].kind \in {"TEXT", "COMMENT"} /\ t[i].text \in Bad[t[i].kind]
BadName(t, i) == t[i].kind = "ELEMENT" /\ LoadedName(t, i) = Nil
BadAttr(t, i) ==
    t[i].attr # Nil /\ \E a \in AttrName : t[i].attr[a] \in Bad["ATTR"]

(* Behind the last tag there is only white space.                          *)
BadEnd(t, i) ==
    /\ IsText(t, i) /\ t[i].parent = 1 /\ ~Blank(t[i].text)
    /\ \A k \in Kids(t, 1) : k > i => IsText(t, k)

Parsable(t) ==
    \A i \in DOMAIN t :
      ~BadText(t, i) /\ ~BadName(t, i) /\ ~BadAttr(t, i) /\ ~BadEnd(t, i)

(* Mutant: no note when sysctl has no answer.                              *)
UpdatedWithoutNote(t, info) ==
    LET r == getOrCreateNode(t, InfoPath) IN
    IF info = Nil THEN r.tree ELSE setValue(r.tree, r.node, info)

(* update_board_info: the answer of sysctl, or a note that there is none.  *)
Updated(t, info) ==
    LET r == getOrCreateNode(t, InfoPath)
        s == IF info = Nil THEN r.tree ELSE setValue(r.tree, r.node, info)
    IN  IF value(s, r.node) = Nil THEN setValue(s, r.node, NoData) ELSE s

(* The start of httpd with t in config.xml.  The new value is printed.     *)
Start(t, info) ==
    LET s == Updated(Reloaded(t), info)
        ok == Parsable(t) /\ value(s, getNode(s, InfoPath)) # Nil
    IN  /\ up' = ok
        /\ tree' = IF ok THEN s ELSE t

(* The configuration is saved and the router started again.  A restart     *)
(* without saving leads back to an earlier state of this kind.             *)
SaveAndRestart(info) == up /\ Start(tree, info)

(* The factory defaults are restored, by a request or by the button.       *)
Restore(info) == up' = TRUE /\ tree' = Updated(Default, info)

(* Between two tags there is one text: each is the first child, or comes   *)
(* after something else.                                                   *)
Separated(t) ==
    \A i \in DOMAIN t :
      LET kids == Kids(t, t[i].parent) IN
      IsText(t, i) => i = Min(kids) \/ \E k \in kids : k < i /\ ~IsText(t, k)

(* There is a value, or room for one, where update_board_info writes.      *)
HasInfo(t) == LET n == getNode(t, InfoPath) IN n # 0 /\ ValueChild(t, n) # 0
HasRoom(t) == LET n == getNode(t, InfoPath) IN n = 0 \/ Kids(t, n) = {}

(* The parser makes one text of what lies between two tags, config.xml     *)
(* says nothing of the board, and update_board_info uses no indexes.       *)
ASSUME DefaultAssumption ==
    /\ Separated(Default) /\ (HasInfo(Default) \/ HasRoom(Default))
    /\ \A j \in DOMAIN InfoPath :
         InfoPath[j].id = 0 /\ InfoPath[j].name \in Word

Init ==
    /\ \E info \in BoardInfo : tree = Updated(Default, info)
    /\ up = TRUE

Next ==
    \/ \E req \in Requests : SetMany(req)
    \/ \E req \in Requests : Len(req) = 1 /\ Set(req[1])
    \/ \E info \in BoardInfo : SaveAndRestart(info) \/ Restore(info)

Spec == Init /\ [][Next]_vars

-------------------------------------------------------------------------------
(* Whatever is set, created, saved and loaded, the tree is one.            *)
TypeOK == up \in BOOLEAN /\ IsTree(tree)

(* The requests whose paths are words without index.                       *)
PlainRequests ==
    {req \in Requests :
       \A i \in DOMAIN req : \A j \in DOMAIN req[i].path :
         req[i].path[j].id = 0 /\ req[i].path[j].name \in Word}

(* Keys come from a table, so none is there twice.  (Two keys that name    *)
(* one path are possible, "a.b" and "a..b", and are not covered.)          *)
OneValuePerPath ==
    \A req \in PlainRequests : \A i, j \in DOMAIN req :
      req[i].op = "sm" /\ req[j].op = "sm" /\ req[i].path = req[j].path =>
        req[i].value = req[j].value

(* Whatever a request creates, every path that led to a node leads to the  *)
(* same node afterwards, also by its index among nodes of the same name    *)
(* (conf.lua:102).                                                         *)
PathsStable ==
    \A req \in Requests :
      LET t == setmany(tree, req).tree IN
      \A path \in Paths :
        LET n == getNode(tree, path) IN n # 0 => getNode(t, path) = n

(* After a request without indexes that ended without an error every value *)
(* it has set is the one found there, in whatever order pairs() gave the   *)
(* keys (cmd.xml:30, 56).                                                  *)
ReadBack ==
    \A req \in PlainRequests :
      LET r == setmany(tree, req) IN
      r.ok => \A i \in DOMAIN req :
        req[i].op = "sm" =>
          value(r.tree, getNode(r.tree, req[i].path)) = req[i].value

(* A request without indexes changes no value but the ones it names, also  *)
(* when it ends with an error (cmd.xml:56, node.lua:41).                   *)
OthersUntouched ==
    \A req \in PlainRequests :
      LET t == setmany(tree, req).tree IN
      \A n \in DOMAIN tree :
        value(t, n) # value(tree, n) =>
          \E i \in DOMAIN req : getNode(tree, req[i].path) = n

(* The values that neither text nor comment nor attribute is read          *)
(* differently, and the trees whose names are read as they are.            *)
Stable ==
    {v \in Text \ {Empty} : \A kind \in DOMAIN Read : Read[kind][v] = v}
WellNamed(t) ==
    \A i \in DOMAIN t : t[i].kind = "ELEMENT" => LoadedName(t, i) = t[i].name

(* Saving a configuration that can be parsed, all of whose names are words *)
(* or at least read as they are, and reading it again keeps every path,    *)
(* every value and every attribute, except for values that are blank, have *)
(* white space around them, hold entities or, of an attribute, a quote     *)
(* (utils.lua:29, 124).                                                    *)
RestartKeeps ==
    LET loaded == Reloaded(tree) IN
    Parsable(tree) /\ WellNamed(tree) =>
      \A path \in Paths :
        LET n == getNode(tree, path)
            m == getNode(loaded, path)
        IN  /\ n = 0 <=> m = 0
            /\ n # 0 /\ value(tree, n) \in Stable \cup {Nil} =>
                 value(loaded, m) = value(tree, n)
            /\ n # 0 /\ tree[n].attr # Nil =>
                 \A a \in AttrName :
                   tree[n].attr[a] \in Stable =>
                     /\ loaded[m].attr # Nil
                     /\ loaded[m].attr[a] = tree[n].attr[a]

(* What a configuration has to hold for the start to fail.                 *)
Odd(t, i) ==
    \/ BadText(t, i) \/ BadAttr(t, i)
    \/ IsText(t, i) /\ (Blank(t[i].text) \/ t[i].parent = 1)
    \/ t[i].kind = "ELEMENT" /\ t[i].name \notin Word

(* load_file and update_board_info fail, and with them the start of httpd, *)
(* only with a configuration that has a blank text, a tag in a text or     *)
(* behind the end of a comment, ">" in an attribute, a text outside of all *)
(* elements or a name that is not a word (httpd.lua:1018, 1190).           *)
StartsUnlessOddText == ~up => \E i \in DOMAIN tree : Odd(tree, i)

(* The inductive invariant of the last two: texts stay apart, so that none *)
(* is joined with another, and a running httpd has the board's information.*)
TreeInv ==
    /\ TypeOK
    /\ Separated(tree)
    /\ up => HasInfo(tree)
    /\ StartsUnlessOddText
===============================================================================

------------------------------ MODULE MCDialogs ------------------------------
(***************************************************************************)
(* The components behind a VoiceXML dialog, side by side with those of the *)
(* Sessions: resolution of references, the document store, the compiler of *)
(* documents, subdialogs, and the dialog manager.                          *)
(* They share no state in the code, so a behaviour is one of one of them,  *)
(* which "part" names; the others stay as they began.                      *)
(***************************************************************************)
EXTENDS MCSessions, DocumentUri, SubdialogOwner, DialogManager, TLC

VARIABLES
    base, ref,
    impl, refs, lent, status, outside,
    ex_src, ex_m, ex_b, ex_x,
    dc_pc, dc_doc, dc_m, dc_b

At(path) == [scheme |-> "x", authority |-> "h", path |-> path, query |-> Absent,
             fragment |-> Absent]
\* Two spellings of one document, and two others.
StoredUris == {At(<<"", "a">>), At(<<"", "b", "..", "a">>), At(<<"", "b">>), At(<<"", "c">>)}
OneByte(uri) == 1

St == INSTANCE DocumentStore WITH
        Uris <- StoredUris, UriSize <- OneByte, capacity <- 2, max_document_bytes <- 3,
        max_cache_bytes <- 8, Sizes <- {0, 3, 4}, MaxClock <- 5, MaxCopies <- 4

ASSUME DialogsAssumption ==
    /\ St!StoreAssumption /\ OwnerAssumption
    /\ ManagerAssumption

uriVars == <<base, ref>>
storeVars == <<impl, refs, lent, status, outside>>
execVars == <<ex_src, ex_m, ex_b, ex_x>>
docVars == <<dc_pc, dc_doc, dc_m, dc_b>>
vxmlVars == <<uriVars, storeVars, ownerVars, dialogVars, execVars, docVars>>
vars == <<sessionsVars, vxmlVars>>

-----------------------------------------------------------------------------
(* Every base and reference with a short path.                             *)

MaxSegments == 2   \* bound: segments of a path
Segments == {"", "a", ".", ".."}
Rooted == {<<"">>} \cup UNION {{<<"">> \o p : p \in [1 .. n -> Segments]} : n \in 1 .. MaxSegments}
Relative == {p \in UNION {[1 .. n -> Segments] : n \in 1 .. MaxSegments} :
                p[1] # "" \/ p = <<"">>}
\* Without an authority a path cannot begin with "//": that would be one.
Plain == {p \in Rooted : Len(p) < 3 \/ p[2] # ""}
Uri(schemes, authorities, paths, queries, fragments) ==
    [scheme : schemes, authority : authorities, path : paths, query : queries,
     fragment : fragments]

Bases == Uri({"x"}, {"h", ""}, Rooted, {Absent, "q"}, {Absent})
         \cup Uri({"x"}, {Absent}, Relative \cup Plain, {Absent}, {Absent})
References == Uri({Absent}, {Absent}, Plain \cup Relative, {Absent, "r"}, {Absent, "f"})
              \cup Uri({"y", Absent}, {"g"}, {<<"">>, <<"", "..", "b">>}, {Absent}, {Absent})

-----------------------------------------------------------------------------
(* Documents: forms of at most two items under each kind of head and tail, *)
(* pairs of dialogs under each kind of document head, and menus.           *)

E(el, attrs, kids) == [el |-> el, name |-> "", attrs |-> attrs, kids |-> kids]
N(el, name, attrs, kids) == [el |-> el, name |-> name, attrs |-> attrs \cup {"name"}, kids |-> kids]

Text == E("text", {}, <<>>)
Audio(kids) == E("audio", {"src"}, kids)
Foreach(item, kids) == [el |-> "foreach", name |-> item, attrs |-> {"array", "item"}, kids |-> kids]
Mark == E("mark", {"nameexpr"}, <<>>)
Prompt(kids) == E("prompt", {}, kids)
Assign == E("assign", {}, <<>>)
Filled == E("filled", {}, <<Assign>>)
Catch == E("catch", {}, <<Assign, Assign>>)
Grammar1(src) == E("grammar", {"type", src}, <<>>)
Static == Grammar1("src")

\* The items a form is made of
PlainField == N("field", "a", {}, <<Static, Prompt(<<Text, Audio(<<Text>>)>>)>>)
FilledField == N("field", "a", {"cond"}, <<Static, Prompt(<<Audio(<<>>), Text>>), Filled, Catch>>)
LoopField == N("field", "b", {}, <<Grammar1("srcexpr"), [Prompt(<<Text, Foreach("e", <<Audio(<<Text, Text>>), Mark>>), Mark>>)
                                                         EXCEPT !.attrs = {"cond"}], Prompt(<<Text>>), Filled>>)
NestedField == N("field", "b", {}, <<Prompt(<<Foreach("e", <<Mark, Foreach("d", <<Audio(<<Text>>)>>), Audio(<<Text>>)>>)>>), Static>>)
BadField == N("field", "s", {}, <<Prompt(<<Text>>)>>)
Subdialog == N("subdialog", "s", {"src"}, <<N("param", "p", {"expr"}, <<>>), N("param", "q", {"value"}, <<>>),
                                            N("param", "r", {"expr"}, <<>>), Filled>>)
Subdialog2 == N("subdialog", "t", {"src", "cond"}, <<Catch, N("param", "p", {"expr"}, <<>>)>>)
Record == N("record", "a", {}, <<Filled>>)
Record2 == N("record", "r", {"cond"}, <<Catch>>)
Transfer == N("transfer", "x", {"dest", "type"}, <<Filled>>)
Transfer2 == N("transfer", "a", {"dest", "bridge", "cond"}, <<Catch, Filled>>)
Initial == N("initial", "i", {"expr", "cond"}, <<Prompt(<<Text, Mark>>), Catch>>)
Anonymous == E("initial", {}, <<Prompt(<<Foreach("e", <<Text>>)>>)>>)
Block == E("block", {"expr"}, <<N("var", "a", {}, <<>>), N("data", "b", {}, <<>>), N("var", "a", {}, <<>>)>>)
NamedBlock == N("block", "a", {"cond"}, <<Assign>>)
Items == {PlainField, FilledField, LoopField, NestedField, BadField, Subdialog, Subdialog2, Record, Record2,
          Transfer, Transfer2, Initial, Anonymous, Block, NamedBlock}

Script == E("script", {}, <<>>)
Var(name) == N("var", name, {"expr"}, <<>>)
Data(name, src) == N("data", name, {src}, <<>>)
Property(name) == N("property", name, {}, <<>>)
\* A form's data with a static src is accepted for version 2.0 as well.
Heads == {<<>>, <<Var("a"), Data("c", "srcexpr"), Script>>, <<Data("c", "src"), Data("d", "src")>>, <<Var("c"), Var("c")>>,
          <<Property("fetchtimeout"), Property("recordutterance"), Catch>>, <<Property("fetchtimeout"), Property("fetchtimeout")>>}
Tails == {<<>>, <<Filled>>, <<Filled, Filled>>, <<Filled, LoopField, Filled>>}

Form(head, items, tail) ==
    LET grammar == IF \E i \in 1 .. Len(items) : items[i].el = "initial" THEN <<Grammar1("srcexpr")>> ELSE <<>> IN
    E("form", {}, head \o grammar \o items \o tail)

Upto2(S) == {<<>>} \cup {<<x>> : x \in S} \cup {<<x, y>> : x, y \in S}
OneForm == {[v21 |-> v, kids |-> <<Form(h, is, t)>>] : v \in {TRUE}, h \in Heads, is \in Upto2(Items), t \in Tails}
Old == {[v21 |-> FALSE, kids |-> <<Form(h, <<x>>, <<>>)>>] : h \in Heads, x \in Items}
Many == {[v21 |-> TRUE, kids |-> <<Form(<<>>, [i \in 1 .. k |-> N("transfer", ToString(i), {"dest"}, <<>>)], <<>>)>>] : k \in 1 .. 4}

Choice(dtmf, attrs, kids) == [el |-> "choice", name |-> "", attrs |-> attrs, kids |-> kids, dtmf |-> dtmf]
Menu(attrs, kids) == E("menu", attrs, kids)
MenuChoices == {Choice(d, a, k) : d \in {0, 1, 11}, a \in {{"next"}, {"event", "approximate"}}, k \in {<<>>, <<Text>>, <<Static>>}}
Ten(last) == [i \in 1 .. 10 |-> IF i = 5 THEN last ELSE Choice(0, {"next"}, <<Text>>)]
Menus == {Menu(a, cs) : a \in {{}, {"auto"}, {"approximate"}}, cs \in Upto2(MenuChoices)}
         \cup {Menu({"auto"}, Ten(c)) : c \in MenuChoices}
         \cup {Menu({"auto"}, Append(Ten(Choice(11, {"event"}, <<>>)), Choice(0, {"next"}, <<Text>>)))}

\* Two dialogs: what follows the first form must not depend on what it held.
Second == {Form(<<Var("a"), Data("b", "src"), Script>>, <<x>>, t) : x \in Items \ {Initial, Anonymous}, t \in {<<>>, <<Filled>>}}
First == {Form(<<Var("c"), Data("d", "srcexpr")>>, <<x, LoopField>>, <<Filled>>) : x \in Items}
         \cup {Form(<<Script>>, <<x>>, <<>>) : x \in Items}
Id(n) == [n EXCEPT !.attrs = @ \cup {"id"}, !.name = "f"]
DocHeads == {<<>>, <<Var("a"), Script, Data("c", "srcexpr"), Catch>>, <<Var("a"), Data("a", "src")>>,
             <<Property("fetchtimeout"), Property("datamaxage")>>}
Pairs == {[v21 |-> TRUE, kids |-> h \o <<f, g>>] : h \in DocHeads, f \in First, g \in Second}
MenuPairs == {[v21 |-> TRUE, kids |-> <<menu, Form(<<Var("c")>>, <<FilledField>>, <<>>)>>] : menu \in Menus}
Ids == {[v21 |-> TRUE, kids |-> <<Id(Form(<<>>, <<PlainField>>, <<>>)), Id(Menu({"auto"}, <<Choice(0, {"next"}, <<Text>>)>>))>>]}

AllDocuments == OneForm \cup Old \cup Many \cup Pairs \cup MenuPairs \cup Ids

\* An initial in the second of two forms
InitialSecond == {[v21 |-> TRUE, kids |-> <<Form(<<>>, <<PlainField>>, <<>>), Form(<<>>, <<x, LoopField>>, <<>>)>>] : x \in Items}

DocFields == {"a", "b", "c", "d", "e", "s", "t"}
StructNames == {"s", "t"}
ElementNames == {"d", "e"}
DocLimit == [forms |-> 3, menus |-> 1, choices |-> 12, fields |-> 3, initials |-> 2, subdialogs |-> 2, params |-> 3,
            records |-> 2, transfers |-> 4, prompts |-> 5, segments |-> 7, foreach |-> 3, foreach_depth |-> 2,
            foreach_items |-> 2, expanded |-> 12, slots |-> 7, actions |-> 16, handlers |-> 4, data |-> 3]

Dc == INSTANCE CmetaDocument WITH
        Documents <- AllDocuments, RootFields <- DocFields, StructFields <- StructNames,
        ElementFields <- ElementNames, Limit <- DocLimit,
        pc <- dc_pc, doc <- dc_doc, m <- dc_m, b <- dc_b
Late == INSTANCE CmetaDocument WITH
        Documents <- InitialSecond, RootFields <- DocFields, StructFields <- StructNames,
        ElementFields <- ElementNames, Limit <- DocLimit,
        pc <- dc_pc, doc <- dc_doc, m <- dc_m, b <- dc_b

-----------------------------------------------------------------------------
(* Executable content.                                                     *)

El(el, name, attrs, list, kids) == [el |-> el, name |-> name, attrs |-> attrs, list |-> list, kids |-> kids]
Leaf(el, name, attrs) == El(el, name, attrs, <<>>, <<>>)
UpTo(S, n) == UNION {[1 .. k -> S] : k \in 0 .. n}
Box(kind, attrs, list, kids) == [kind |-> kind, attrs |-> attrs, list |-> list, kids |-> kids]

\* Conditionals, nested and empty ones, around declarations and exits.
VarX == Leaf("var", "x", {"name", "expr"})
VarX2 == Leaf("var", "x", {"name"})
Exit == Leaf("exit", "", {})
Else == Leaf("else", "", {})
Elseif == Leaf("elseif", "c2", {"cond"})
If(c, kids) == El("if", c, {"cond"}, <<>>, kids)
Inner == {VarX, Exit, Else, Elseif}
Ifs == {If("c1", k) : k \in UpTo(Inner, 3)}
Deep == {If("c2", <<i>>) : i \in {If("c1", <<VarX2>>), If("c1", <<If("c2", <<Exit>>), VarX>>), If("c1", <<>>)}}
Conditionals == {Box("block", {}, <<>>, k) :
    k \in {<<a, c>> : a \in Ifs \cup Deep, c \in {VarX2, Exit}} \cup {<<VarX, a>> : a \in Ifs \cup Deep}
          \cup {<<a, c, VarX>> : a \in Deep, c \in Deep}}

\* Leaves of all kinds, with and without their attributes.
Lists == {<<>>, <<"x">>, <<"x", "y">>, <<"x", "r">>, <<"x", "x">>, <<"nowhere">>}
Listed == {El(e, "", a, l, <<>>) : e \in {"clear", "exit", "return"}, a \in {{"namelist"}, {"namelist", "expr"}}, l \in Lists}
Submits == {El("submit", "", {"next"} \cup a, l, <<>>) :
    a \in {{}, {"namelist"}, {"namelist", "multipart"}, {"multipart"}, {"namelist", "fetchaudio"}}, l \in Lists}
Datas == {El("data", n, {"name"} \cup a, l, <<>>) : n \in {"x", "nowhere"},
    a \in {{}, {"src"}, {"srcexpr", "namelist"}, {"src", "srcexpr"}, {"src", "fetchaudio"}}, l \in {<<"y">>, <<"x", "y">>}}
Others == {Leaf("goto", "", a) : a \in {{}, {"next"}, {"next", "fetchaudio"}, {"next", "fetchaudio", "fragment"}}}
         \cup {Leaf("assign", n, a) : n \in {"x", "nowhere"}, a \in {{"name", "expr"}, {"name"}}}
         \cup {Leaf("var", n, {"name"}) : n \in {"x", "y", "nowhere"}}
         \cup {Leaf("return", "", {"event"}), Leaf("disconnect", "", {}), Leaf("prompt", "", {}),
               Leaf("script", "", {}), Leaf("script", "", {"src", "srcexpr"}), Leaf("clear", "", {})}
Thrown == {Leaf("throw", "", {"event"}), Leaf("throw", "", {}), Leaf("rethrow", "", {}), Leaf("reprompt", "", {})}
Simple == Listed \cup Submits \cup Datas \cup Others \cup Thrown
Neighbours == {Leaf("reprompt", "", {}), Leaf("var", "x", {"name"}), Leaf("assign", "x", {"name", "expr"}), Leaf("disconnect", "", {})}
Leaves ==
    {Box("block", a, <<>>, <<k, c>>) : a \in {{}, {"cond", "expr", "name"}}, k \in Simple, c \in Neighbours}
    \cup {Box("catch", a, <<>>, <<c, k>>) : a \in {{"event"}, {"shorthand"}, {}}, k \in Simple \cup {If("c1", <<k>>) : k \in Thrown}, c \in Neighbours}
    \cup {Box("filled", a, l, <<k>>) : a \in {{}, {"namelist"}}, k \in Simple,
              l \in {<<>>, <<"f", "t">>, <<"f", "f">>, <<"s">>, <<"none">>}}
    \cup {Box("field_filled", {}, <<>>, <<k, c>>) : k \in Simple, c \in Neighbours}

Ex == INSTANCE CmetaExecutable WITH
        Containers <- Conditionals, Conditions <- {"c1", "c2"}, RootFields <- {"x", "y"},
        FieldNames <- {"f"}, RecordNames <- {"r"}, SubdialogNames <- {"s"},
        TransferNames <- {"t"}, MaxActions <- 7, MaxNames <- 9, MaxHandlers <- 1, MaxData <- 1,
        MaxConditionalDepth <- 2, MaxSlots <- 2, MaxSubmitFields <- 2, MaxSubmitParts <- 2,
        MaxSubmitRecordings <- 1, MaxDataFields <- 1, src <- ex_src,
        m <- ex_m, b <- ex_b, x <- ex_x
Lv == INSTANCE CmetaExecutable WITH
        Containers <- Leaves, Conditions <- {"c1"}, RootFields <- {"x", "y"},
        FieldNames <- {"f"}, RecordNames <- {"r"}, SubdialogNames <- {"s"},
        TransferNames <- {"t"}, MaxActions <- 7, MaxNames <- 9, MaxHandlers <- 1, MaxData <- 1,
        MaxConditionalDepth <- 2, MaxSlots <- 2, MaxSubmitFields <- 2, MaxSubmitParts <- 2,
        MaxSubmitRecordings <- 1, MaxDataFields <- 1, src <- ex_src,
        m <- ex_m, b <- ex_b, x <- ex_x

-----------------------------------------------------------------------------
Init ==
    /\ SessionsInit
    /\ IF part = "uri" THEN base \in Bases /\ ref \in References
       ELSE base = At(<<"">>) /\ ref = At(<<"">>)
    /\ St!Init /\ OwnerInit /\ DialogInit
    /\ IF part = "conditionals" THEN Ex!Init
       ELSE IF part = "leaves" THEN Lv!Init
       ELSE ex_src = Unused /\ ex_m = Unused /\ ex_b = Unused /\ ex_x = Unused
    /\ IF part = "documents" THEN Dc!Init
       ELSE IF part = "initial_second" THEN Late!Init
       ELSE dc_pc = Unused /\ dc_doc = Unused /\ dc_m = Unused /\ dc_b = Unused

\* Two dialogs whose sessions exit at once, worked on one at a time, or one whose
\* session stops everywhere.
OnlyExits ==
    /\ \A r \in DialogRows : rows[r].session \in {"NONE", "FAILED", "EXITED"}
    /\ run.work <= 1
OneDialog == Cardinality(EverAsked) <= 1

Next ==
    \/ SessionsNext /\ UNCHANGED vxmlVars
    \/ part = "uri" /\ UNCHANGED vars
    \/ /\ part = "store" /\ St!Next
       /\ UNCHANGED <<sessionsVars, uriVars, ownerVars, dialogVars, execVars, docVars>>
    \/ /\ part = "subdialogs" /\ OwnerNext
       /\ UNCHANGED <<sessionsVars, uriVars, storeVars, dialogVars, execVars, docVars>>
    \/ /\ part \in {"dialogs", "dialogs_stops"} /\ DialogNext
       /\ part = "dialogs" => OnlyExits'
       /\ part = "dialogs_stops" => OneDialog'
       /\ UNCHANGED <<sessionsVars, uriVars, storeVars, ownerVars, execVars, docVars>>
    \/ /\ \/ part = "conditionals" /\ Ex!Next
          \/ part = "leaves" /\ Lv!Next
       /\ UNCHANGED <<sessionsVars, uriVars, storeVars, ownerVars, dialogVars, docVars>>
    \/ /\ part \in {"documents", "initial_second"} /\ Dc!Next
       /\ UNCHANGED <<sessionsVars, uriVars, storeVars, ownerVars, dialogVars, execVars>>

Spec == Init /\ [][Next]_vars

-----------------------------------------------------------------------------
(* References.                                                             *)

Resolved == resolve(base, ref)
Hierarchical(u) == u.scheme # Absent /\ (HasAuthority(u) \/ leading_slash(u.path))
Resolvable == Absolute(base) /\ Hierarchical(base)

InnerEmpty(path) == \E k \in 2 .. Len(path) - 1 : path[k] = ""
Names(path) == SelectSeq(path, LAMBDA seg : seg # "")

\* A reference "follow[s] the RFC3986 hierarchical resolution model. Dot segments
\* are removed from the path" (document_store.h, vxml_document_store_resolve).
ResolvesByRfc ==
    part = "uri" /\ Resolvable => Resolved = RfcTarget(base, ref)

\* It does so whenever no segment is empty and the path does not end in a dot
\* segment.  In every path without empty segments, and in those without "..", the
\* names at least are the RFC's; and so is the query.
ResolvesByRfcButSlashes ==
    Resolvable =>
        LET t == Target(base, ref)
            rfc == RfcTarget(base, ref)
        IN /\ ~InnerEmpty(t.path) /\ Last(t.path) \notin {".", ".."} => Resolved = rfc
           /\ ~InnerEmpty(t.path) \/ ".." \notin Range(t.path)
                => Names(Resolved.path) = Names(rfc.path)
           /\ Resolved = [rfc EXCEPT !.path = Resolved.path]

\* A URI that resolve gives out is its own normal form: the document it names is
\* found in the cache under the URI the session remembers (resolve then
\* acquire_with_policy normalise one after the other).
NormalFormStable ==
    (Resolved # NotResolved /\ Hierarchical(Target(base, ref)))
    => /\ normalize_absolute_uri(Resolved) = Resolved
       /\ Resolved.fragment = Absent
       /\ {".", ".."} \cap Range(Resolved.path) = {}

-----------------------------------------------------------------------------
(* The properties of the components, each for its own behaviours.          *)

\* A reference leads to the document that it names by the RFC, and a document is
\* cached under the URI it is asked for by (DocumentUri).
UriSound == part = "uri" => ResolvesByRfcButSlashes /\ NormalFormStable

\* The cache keeps what is held and knows it from what is not (DocumentStore).
StoreSound == part = "store" => St!StoreSound

\* Executable content is compiled to what the document says, and runs so
\* (voicexml_cmeta_program.c: the measurement, the lowering of actions).
ExecutableSound ==
    /\ part = "conditionals" => Ex!ExecutableSound
    /\ part = "leaves" => Lv!ExecutableSound

\* The tables of a compiled program are those of its document
\* (voicexml_cmeta_program.c: cmeta_measure and cmeta_build of forms and menus).
DocumentSound == part = "documents" => Dc!DocumentSound

\* The passes agree about an initial of any form: "A mixed form owns a private
\* source-order form-item table" (voicexml-initial-core.md), the second no less
\* than the first.
InitialSecondAgrees == part = "initial_second" => Late!PassesAgree

\* The host calls run_ready again and again, and a call goes through its rows.
OwnerFair ==
    /\ WF_ownerVars(part = "subdialogs" /\ run_step)
    /\ WF_ownerVars(part = "subdialogs" /\ \E work \in 1 .. 2 : run_begin(work))

\* So it does for the manager, and the sink takes an offered event in the end.
DialogFair ==
    /\ WF_dialogVars(part = "dialogs" /\ \E work \in 1 .. MaxDialogWork : dialog_run_begin(work))
    /\ WF_dialogVars(part = "dialogs" /\ RunStep)
    /\ \A r \in DialogRows : SF_dialogVars(part = "dialogs" /\ run.at = r /\ run_publish)

\* A closed owner tears down every row, committed work of the manager comes to
\* rest and its events are told (run_ready of both); the store takes the least
\* recently used document of those nobody holds (find_lru_unpinned).
DialogsProgress ==
    /\ part = "subdialogs" /\ OwnerFair => ClosedBecomesQuiescent
    /\ part = "dialogs" /\ DialogFair => WorkIsDone
    /\ [][part = "store" => St!EvictsOldest]_vars
=============================================================================

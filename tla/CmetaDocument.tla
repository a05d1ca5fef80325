---------------------------- MODULE CmetaDocument ----------------------------
(***************************************************************************)
(* The compiler of a VoiceXML document with a CMeta datamodel              *)
(* (voicexml_cmeta_program.c).  The first pass measures how many rows of   *)
(* each table the document needs, the second fills the tables (forms,      *)
(* items, prompts, scopes) from the same document, the third compiles the  *)
(* expressions and handlers into them, and a last comparison decides       *)
(* whether the program is published.                                       *)
(*                                                                         *)
(* An element is [el, name, attrs, kids].  Strings, media and policies     *)
(* are left out; the executable content of a block, catch or filled is     *)
(* one action per child (CmetaExecutable models it).  Row indices start    *)
(* at 1; 0 is NO_INDEX.                                                    *)
(***************************************************************************)
EXTENDS Integers, Sequences, FiniteSets, SequencesExt

CONSTANTS
    Documents,          \* [v21, kids]
    RootFields,         \* names of the datamodel's root fields
    StructFields,       \* the STRUCT-valued ones, targets of a subdialog
    ElementFields,      \* those with the type of a foreach element
    Limit               \* limits and compile options, by name

Ranged == {"declaration", "data", "initializer", "field", "initial", "subdialog", "record",
           "transfer", "item", "block"}
Tables == Ranged \cup {"form", "menu", "choice", "policy", "mgrammar", "param", "prompt", "segment",
                       "foreach", "fallback", "mark", "filled", "handler"}
Counters == {"expression", "location", "action"}

VARIABLES
    pc,     \* the next pass
    doc,    \* the document, which does not change
    m,      \* the measurement: [st, v21, rows, script, seg, exp]
    b       \* the builder: [st, t, n, slots, at]

vars == <<pc, doc, m, b>>

Measurement(d) == [st |-> "OK", v21 |-> d.v21, rows |-> [r \in Tables \cup Counters \cup {"scope"} |->
                                                           IF r = "scope" THEN 1 ELSE 0],
                   script |-> 0, seg |-> 0, exp |-> 0]
Builder == [st |-> "OK", t |-> [r \in Tables |-> <<>>], n |-> [c \in Counters |-> 0], slots |-> <<>>,
            at |-> [r \in {"declaration", "form", "field", "initial", "subdialog", "record", "transfer"} |-> 0]]

Ok(r) == r.st = "OK"
Fail(r, why) == IF Ok(r) THEN [r EXCEPT !.st = why] ELSE r
\* The document is refused (cmeta_program_fail in the first two passes).
Guard(r, cond) == IF cond THEN r ELSE Fail(r, "REJECTED")
\* "changed between compiler passes", "changed during lowering"
Same(r, cond) == IF cond THEN r ELSE Fail(r, "CHANGED")
\* What Step makes of the state r that the steps before it have left.
Then(r, Step(_)) == Step(r)
Each(Step(_, _), r, seq) == FoldLeft(LAMBDA acc, k : IF Ok(acc) THEN Step(acc, k) ELSE acc, r, seq)

Has(n, a) == a \in n.attrs
One(cond) == IF cond THEN 1 ELSE 0
Kids(n, els) == SelectSeq(n.kids, LAMBDA k : k.el \in els)
Catches == {"catch", "help", "noinput", "nomatch"}
Directed == {"field", "initial", "subdialog", "record", "transfer"}

Init ==
    /\ pc = "measure"
    /\ doc \in Documents
    /\ m = Measurement(doc)
    /\ b = Builder

--------------------------------------------------------------------------
(* First pass: prompts *)

\* cmeta_measure_increment, n times
cmeta_measure_increment(r, row, n) == IF Ok(r) THEN [r EXCEPT !.rows[row] = @ + n] ELSE r

\* The foreach part of cmeta_measure_prompt's header
MeasureForeach(r, n, depth) ==
    LET a == Guard(r, /\ r.v21
                      /\ depth > 1 => depth <= Limit.foreach_depth
                      /\ {"array", "item"} \subseteq n.attrs
                      /\ r.rows["foreach"] < Limit.foreach) IN
    cmeta_measure_increment(cmeta_measure_increment(a, "foreach", 1), "location", 1)

\* The prompt part of the header: a row, and an expression for cond
MeasurePromptRow(r, n) ==
    cmeta_measure_increment(
        cmeta_measure_increment(Guard(r, r.rows["prompt"] < Limit.prompts), "prompt", 1),
        "expression", One(Has(n, "cond")))

\* Segments inside an audio element, its fallback
Fallback(n) == Kids(n, {"text", "ssml"})

\* audio: a row for its fallback, if it has one
MeasureAudio(r, n) ==
    cmeta_measure_increment(
        Guard(r, Has(n, "src") /\ \A i \in 1 .. Len(n.kids) : n.kids[i].el \in {"text", "ssml", "ws"}),
        "fallback", One(Fallback(n) /= <<>>))

\* mark: a dynamic one needs an expression and a row
MeasureMark(r, n) ==
    LET a == Guard(r, (Has(n, "name") /= Has(n, "nameexpr")) /\ (Has(n, "nameexpr") => r.v21)) IN
    cmeta_measure_increment(
        cmeta_measure_increment(a, "expression", One(Has(n, "nameexpr"))), "mark", One(Has(n, "nameexpr")))

\* The segments an element adds to the prompt or foreach it stands in
Segments(k) == CASE k.el \in {"text", "ssml", "mark"} -> 1 [] k.el = "audio" -> 1 + Len(Fallback(k)) [] OTHER -> 0
RECURSIVE Direct(_)
Direct(kids) == IF kids = <<>> THEN 0 ELSE Segments(Head(kids)) + Direct(Tail(kids))

\* The bounds of cmeta_measure_prompt after its children: nested segments
\* were added to the table by the foreach they belong to, and every foreach
\* multiplies what it can expand to.
MeasureTotals(r, each, direct) ==
    LET seg == direct + r.seg
        exp == (direct + r.exp) * (IF each THEN Limit.foreach_items ELSE 1)
        a == Guard(r, /\ seg > 0
                      /\ seg > 1 => seg <= Limit.segments
                      /\ each \/ r.seg > 0 => exp <= Limit.expanded) IN
    [cmeta_measure_increment(a, "segment", direct) EXCEPT !.seg = seg, !.exp = exp]

RECURSIVE cmeta_measure_prompt(_, _, _)
\* cmeta_measure_prompt: r.seg and r.exp return the two counts
cmeta_measure_prompt(r, n, depth) ==
    LET each == n.el = "foreach"
        a == [IF each THEN MeasureForeach(r, n, depth) ELSE MeasurePromptRow(r, n) EXCEPT !.seg = 0, !.exp = 0]
        Kid(acc, k) ==
            CASE k.el = "foreach" ->
                   LET c == cmeta_measure_prompt(acc, k, IF each THEN depth + 1 ELSE 1) IN
                   [c EXCEPT !.seg = @ + acc.seg, !.exp = @ + acc.exp]
              [] k.el = "audio" -> MeasureAudio(acc, k)
              [] k.el = "mark" -> MeasureMark(acc, k)
              [] k.el \in {"text", "ssml", "ws"} -> acc
              [] OTHER -> Guard(acc, FALSE) IN
    MeasureTotals(Each(Kid, a, n.kids), each, Direct(n.kids))

--------------------------------------------------------------------------
(* First pass: menus.  A choice's name is its dtmf attribute, as a number  *)
(* for a digit; 0 none, 10 the key zero, 11 star, 12 pound.                *)

\* cmeta_decode_menu_dtmf: -1 is refused
cmeta_decode_menu_dtmf(c, auto, ordinal) ==
    CASE c.dtmf = 0 -> IF auto /\ ordinal < 9 THEN ordinal + 1 ELSE 0
      [] auto /\ c.dtmf \notin {10, 11, 12} -> -1
      [] OTHER -> c.dtmf

\* cmeta_menu_choice_accept_mode: the choice's attribute, else the menu's
cmeta_menu_choice_accept_mode(menu, c) ==
    IF Has(c, "exact") THEN "exact"
    ELSE IF Has(c, "approximate") \/ Has(menu, "approximate") THEN "approximate" ELSE "exact"

\* cmeta_menu_choice_grammar: at most one, with type and src
cmeta_menu_choice_grammar(c) ==
    LET g == Kids(c, {"grammar"}) IN
    IF Len(g) > 1 \/ \E i \in 1 .. Len(g) : ~({"type", "src"} \subseteq g[i].attrs) THEN "bad"
    ELSE IF g = <<>> THEN "none" ELSE "some"

\* cmeta_normalize_menu_choice_phrase: whether any of its text is not space
cmeta_normalize_menu_choice_phrase(c) == Kids(c, {"text"}) /= <<>>

\* cmeta_measure_menu_next: a fragment must name one dialog
cmeta_measure_menu_next(r, c) == Guard(r, ~Has(c, "emptyfragment"))

\* How many choices before the i-th have no explicit dtmf
Implicit(menu, i) == Cardinality({j \in 1 .. i - 1 : menu.kids[j].dtmf = 0})
ChoiceDtmf(menu, i) == cmeta_decode_menu_dtmf(menu.kids[i], Has(menu, "auto"), Implicit(menu, i))

\* One choice of cmeta_measure_menu
MeasureChoice(r, menu, i) ==
    LET c == menu.kids[i]
        grammar == cmeta_menu_choice_grammar(c)
        phrase == grammar = "none" /\ cmeta_normalize_menu_choice_phrase(c)
        key == ChoiceDtmf(menu, i)
        a == Guard(r, (Has(c, "event") /= Has(c, "next")) /\ grammar /= "bad")
        d == IF Has(c, "next") THEN cmeta_measure_menu_next(a, c) ELSE a
        e == cmeta_measure_increment(d, "mgrammar", One(grammar = "some"))
        f == cmeta_measure_increment(e, "policy",
                 One(phrase /\ cmeta_menu_choice_accept_mode(menu, c) = "approximate")) IN
    Guard(f, /\ key /= -1
             /\ key /= 0 \/ phrase \/ grammar = "some"
             /\ key /= 0 => \A j \in 1 .. i - 1 : ChoiceDtmf(menu, j) /= key)

\* cmeta_measure_menu
cmeta_measure_menu(r, menu) ==
    LET k == Len(menu.kids)
        a == Guard(r, /\ \A i \in 1 .. k : menu.kids[i].el = "choice"
                      /\ k \in 1 .. Limit.choices)
        c == Each(LAMBDA acc, i : MeasureChoice(acc, menu, i), a, [i \in 1 .. k |-> i])
        d == Guard(c, c.rows["menu"] < Limit.menus /\ c.rows["form"] < Limit.forms) IN
    Each(LAMBDA acc, x : cmeta_measure_increment(acc, x[1], x[2]), d,
         <<<<"menu", 1>>, <<"form", 1>>, <<"scope", 1>>, <<"choice", k>>>>)

--------------------------------------------------------------------------
(* First pass: form items *)

\* cmeta_measure_catch: a handler and its actions
cmeta_measure_catch(r, n) ==
    cmeta_measure_increment(
        cmeta_measure_increment(Guard(r, r.rows["handler"] < Limit.handlers), "handler", 1), "action", Len(n.kids))

\* cmeta_measure_filled_content
cmeta_measure_filled_content(r, n) ==
    cmeta_measure_increment(cmeta_measure_increment(r, "filled", 1), "action", Len(n.kids))

\* A grammar has a type and one of src and srcexpr; srcexpr is an expression.
Grammar(r, g) ==
    cmeta_measure_increment(
        Guard(r, /\ Has(g, "type") /\ (Has(g, "src") /= Has(g, "srcexpr"))
                 /\ Has(g, "srcexpr") => r.v21),
        "expression", One(Has(g, "srcexpr")))

\* Children of an item: prompts and catches, one filled, what Other takes
MeasureKids(r, n, allowed, Other(_, _)) ==
    LET Kid(acc, k) ==
            CASE k.el \notin allowed -> Guard(acc, FALSE)
              [] k.el = "prompt" -> cmeta_measure_prompt(acc, k, 0)
              [] k.el \in Catches -> cmeta_measure_catch(acc, k)
              [] k.el = "filled" -> cmeta_measure_filled_content(Guard(acc, Len(Kids(n, {"filled"})) = 1), k)
              [] OTHER -> Other(acc, k) IN
    Each(Kid, r, n.kids)

\* cmeta_measure_field
cmeta_measure_field(r, n) ==
    LET a == cmeta_measure_increment(Guard(r, Has(n, "name") /\ r.rows["field"] < Limit.fields), "field", 1)
        c == cmeta_measure_increment(a, "expression", One(Has(n, "cond")))
        d == MeasureKids(c, n, Catches \cup {"prompt", "filled", "grammar"}, Grammar) IN
    Guard(d, Len(Kids(n, {"grammar"})) = 1)

\* cmeta_measure_form_grammar
cmeta_measure_form_grammar(r, n) == Grammar(r, n)

\* cmeta_measure_initial
cmeta_measure_initial(r, n) ==
    LET a == MeasureKids(r, n, Catches \cup {"prompt"}, Grammar)
        c == cmeta_measure_increment(Guard(a, a.rows["initial"] < Limit.initials), "initial", 1) IN
    cmeta_measure_increment(cmeta_measure_increment(c, "item", 1),
                            "expression", Cardinality({"expr", "cond"} \cap n.attrs))

\* cmeta_measure_subdialog_param
cmeta_measure_subdialog_param(r, n) ==
    LET a == Guard(r, Has(n, "name") /\ (Has(n, "expr") /= Has(n, "value"))) IN
    cmeta_measure_increment(cmeta_measure_increment(a, "expression", One(Has(n, "expr"))), "param", 1)

\* cmeta_measure_subdialog
cmeta_measure_subdialog(r, n) ==
    LET a == Guard(r, /\ {"name", "src"} \subseteq n.attrs
                      /\ n.attrs \cap {"srcexpr", "expr"} = {}
                      /\ Len(Kids(n, {"param"})) <= Limit.params)
        c == MeasureKids(a, n, Catches \cup {"filled", "param"}, cmeta_measure_subdialog_param)
        d == cmeta_measure_increment(Guard(c, c.rows["subdialog"] < Limit.subdialogs), "subdialog", 1) IN
    cmeta_measure_increment(cmeta_measure_increment(d, "item", 1), "expression", One(Has(n, "cond")))

\* cmeta_record_bool: an absent attribute has its default
cmeta_record_bool(n, a, default) == IF Has(n, a) THEN TRUE ELSE default

\* cmeta_measure_record: modal=false and expr are deferred
cmeta_measure_record(r, n) ==
    LET a == Guard(r, Has(n, "name") /\ ~Has(n, "expr") /\ ~cmeta_record_bool(n, "modal=false", FALSE))
        c == cmeta_measure_increment(a, "expression", One(Has(n, "cond")))
        d == MeasureKids(c, n, Catches \cup {"filled"}, Grammar) IN
    cmeta_measure_increment(
        cmeta_measure_increment(Guard(d, d.rows["record"] < Limit.records), "record", 1), "item", 1)

\* cmeta_transfer_mode_attributes: type needs 2.1 and excludes bridge
cmeta_transfer_mode_attributes(v21, n) == Has(n, "type") => v21 /\ ~Has(n, "bridge")

\* cmeta_measure_transfer
cmeta_measure_transfer(r, n) ==
    LET a == Guard(r, /\ {"name", "dest"} \subseteq n.attrs
                      /\ n.attrs \cap {"expr", "destexpr", "aai", "aaiexpr"} = {}
                      /\ cmeta_transfer_mode_attributes(r.v21, n))
        c == cmeta_measure_increment(a, "expression", One(Has(n, "cond")))
        d == MeasureKids(c, n, Catches \cup {"filled"}, Grammar) IN
    cmeta_measure_increment(
        cmeta_measure_increment(Guard(d, d.rows["transfer"] < Limit.transfers), "transfer", 1), "item", 1)

\* cmeta_measure_block: its actions, and a scope of its own
cmeta_measure_block(r, n) ==
    LET a == cmeta_measure_increment(cmeta_measure_increment(r, "block", 1), "scope", 1) IN
    cmeta_measure_increment(
        cmeta_measure_increment(a, "expression", Cardinality({"cond", "expr"} \cap n.attrs)), "action", Len(n.kids))

--------------------------------------------------------------------------
(* First pass: properties, initializers, forms, the document *)

\* cmeta_measure_fetchaudio_property: whether it is one
cmeta_measure_fetchaudio_property(n) == n.name \in {"fetchaudio", "fetchaudiodelay", "fetchaudiominimum"}

\* cmeta_measure_data_fetch_property: the cache properties need 2.1
cmeta_measure_data_fetch_property(r, n) ==
    \/ n.name = "fetchtimeout"
    \/ r.v21 /\ n.name \in {"datafetchhint", "datamaxage", "datamaxstale"}

\* cmeta_measure_record_utterance_property: a form's property; the fetch
\* properties may be repeated here, the recording ones not.
cmeta_measure_record_utterance_property(r, form, i) ==
    LET n == form.kids[i] IN
    Guard(r, /\ r.v21
             /\ \/ cmeta_measure_fetchaudio_property(n)
                \/ cmeta_measure_data_fetch_property(r, n)
                \/ /\ n.name \in {"recordutterance", "recordutterancetype"}
                   /\ \A j \in 1 .. i - 1 : form.kids[j].el = "property" => form.kids[j].name /= n.name)

\* cmeta_measure_data, then the initializer
cmeta_measure_data(r, n) ==
    LET a == Guard(r, /\ Has(n, "name") /\ (Has(n, "src") /= Has(n, "srcexpr"))
                      /\ Has(n, "srcexpr") => r.v21
                      /\ r.rows["data"] < Limit.data)
        c == cmeta_measure_increment(cmeta_measure_increment(a, "data", 1), "initializer", 1) IN
    cmeta_measure_increment(c, "expression", One(Has(n, "srcexpr")))

\* cmeta_measure_script, as an initializer
cmeta_measure_script(r, n) ==
    LET a == cmeta_measure_increment(cmeta_measure_increment(r, "expression", 1), "initializer", 1) IN
    IF Ok(a) THEN [a EXCEPT !.script = @ + 1] ELSE a

\* var outside executable content
MeasureVar(r, n) ==
    LET a == cmeta_measure_increment(cmeta_measure_increment(r, "declaration", 1), "initializer", 1) IN
    cmeta_measure_increment(a, "expression", One(Has(n, "expr")))

Before(n, i, els) == \E j \in 1 .. i - 1 : n.kids[j].el \in els

\* A form's filled follows every directed item, and there is no record.
FilledPlace(form, i) ==
    /\ Before(form, i, Directed)
    /\ \A j \in i .. Len(form.kids) : form.kids[j].el \notin Directed
    /\ Kids(form, {"record"}) = <<>>

\* The i-th child of a form in cmeta_measure_form
MeasureFormKid(r, form, i) ==
    LET k == form.kids[i]
        items == Before(form, i, Directed \cup {"block", "filled"})
        a == Guard(r, /\ k.el \in {"property", "data", "script", "var", "grammar"} => ~items
                      /\ k.el \in Directed => ~Before(form, i, {"block", "filled"})
                      /\ k.el = "block" => ~Before(form, i, Directed)
                      /\ k.el = "filled" => ~Before(form, i, {"block"}) /\ FilledPlace(form, i)) IN
    CASE k.el = "property" -> cmeta_measure_record_utterance_property(a, form, i)
      [] k.el = "data" -> cmeta_measure_data(a, k)
      [] k.el = "script" -> cmeta_measure_script(a, k)
      [] k.el = "var" -> MeasureVar(a, k)
      [] k.el = "grammar" -> cmeta_measure_form_grammar(a, k)
      [] k.el \in Catches -> cmeta_measure_catch(a, k)
      [] k.el = "initial" -> cmeta_measure_initial(a, k)
      [] k.el = "subdialog" -> cmeta_measure_subdialog(a, k)
      [] k.el = "record" -> cmeta_measure_record(a, k)
      [] k.el = "transfer" -> cmeta_measure_transfer(a, k)
      [] k.el = "field" -> cmeta_measure_increment(cmeta_measure_field(a, k), "item", 1)
      [] k.el = "filled" -> cmeta_measure_filled_content(a, k)
      [] k.el = "block" -> cmeta_measure_block(a, k)
      [] OTHER -> Guard(a, FALSE)

\* cmeta_measure_form: what the form holds as a whole, then its children
cmeta_measure_form(r, form) ==
    LET initials == Kids(form, {"initial"}) /= <<>>
        grammars == Len(Kids(form, {"grammar"}))
        a == Guard(r, /\ r.rows["form"] < Limit.forms
                      /\ initials => Kids(form, {"field"}) /= <<>> /\ grammars = 1
                      /\ ~initials => grammars = 0)
        c == cmeta_measure_increment(cmeta_measure_increment(a, "form", 1), "scope", 1)
        d == Each(LAMBDA acc, i : MeasureFormKid(acc, form, i), c, [i \in 1 .. Len(form.kids) |-> i]) IN
    Guard(d, /\ initials => \A i \in 1 .. Len(form.kids) :
                   form.kids[i].el = "property" => form.kids[i].name /= "recordutterance"
             /\ Kids(form, Directed \cup {"block"}) /= <<>>)

\* The i-th child of the document in cmeta_measure_program
MeasureDocumentKid(r, d, i) ==
    LET k == d.kids[i]
        a == Guard(r, k.el \in {"form", "menu"} \/ ~Before(d, i, {"form", "menu"})) IN
    CASE k.el = "property" ->
           Guard(a, cmeta_measure_fetchaudio_property(k) \/ cmeta_measure_data_fetch_property(a, k))
      [] k.el = "data" -> cmeta_measure_data(Guard(a, a.v21), k)
      [] k.el \in Catches -> cmeta_measure_catch(a, k)
      [] k.el = "script" -> cmeta_measure_script(a, k)
      [] k.el = "var" -> MeasureVar(a, k)
      [] k.el = "menu" -> cmeta_measure_menu(a, k)
      [] k.el = "form" -> cmeta_measure_form(a, k)
      [] OTHER -> Guard(a, FALSE)

\* cmeta_measure_program
cmeta_measure_program(r, d) ==
    Then(Each(LAMBDA acc, i : MeasureDocumentKid(acc, d, i), r, [i \in 1 .. Len(d.kids) |-> i]),
         LAMBDA a : Guard(a, /\ a.rows["form"] > 0
                             /\ a.rows["declaration"] + a.rows["action"] + a.script <= Limit.actions))

Measure ==
    /\ pc = "measure"
    /\ m' = cmeta_measure_program(m, doc)
    /\ pc' = IF Ok(m') THEN "build" ELSE "done"
    /\ UNCHANGED <<doc, b>>

--------------------------------------------------------------------------
(* Second pass: tables and scopes *)

NextRow(r, table) == Len(r.t[table]) + 1

\* cmeta_allocate_rows gave each table its measured size.
cmeta_allocate_rows(table) == m.rows[table]

\* The next row of a table; a table that is full means that the passes disagree.
Add(r, table, row) ==
    IF Ok(r) /\ Len(r.t[table]) < cmeta_allocate_rows(table) THEN [r EXCEPT !.t[table] = Append(@, row)]
    ELSE Fail(r, "CHANGED")

\* cmeta_append_expression, cmeta_append_script and the location rows
Take(r, counter) ==
    IF Ok(r) /\ r.n[counter] < cmeta_allocate_rows(counter) THEN [r EXCEPT !.n[counter] = @ + 1]
    ELSE Fail(r, "CHANGED")

\* The slots every scope is allocated with
Capacity == m.rows["declaration"] + m.rows["action"] + m.rows["block"] + m.rows["initial"]
            + m.rows["record"] + 2 * m.rows["transfer"] + m.rows["foreach"] + m.rows["data"]

\* cmeta_scope_find
cmeta_scope_find(r, scope, name) == \E i \in 1 .. Len(r.slots[scope]) : r.slots[scope][i].name = name

\* max_scope_slots, then cmeta_scope_register within the allocated capacity
cmeta_scope_register(r, scope, name, type) ==
    CASE ~Ok(r) -> r
      [] Len(r.slots[scope]) >= Limit.slots -> Fail(r, "REJECTED")
      [] Len(r.slots[scope]) >= Capacity -> Fail(r, "NO_CAPACITY")
      [] OTHER -> [r EXCEPT !.slots[scope] = Append(@, [name |-> name, type |-> type])]

\* Names of compiler-made slots cannot be written in a document.
Plain(name) == <<name, 0>>
Private(kind, i) == <<kind, i>>
FieldType(name) == IF name \in ElementFields THEN "element" ELSE "field"

FormScope(f) == 1 + f
BlockScope(i) == 1 + m.rows["form"] + i

\* Whether an item of the form in this table has the name
Named(r, table, form, name) ==
    \E i \in 1 .. Len(r.t[table]) : r.t[table][i].form = form /\ r.t[table][i].name = name

\* cmeta_document_name_conflict
cmeta_document_name_conflict(name) ==
    Cardinality({i \in 1 .. Len(doc.kids) : doc.kids[i].el \in {"var", "data"} /\ doc.kids[i].name = name}) > 1

\* cmeta_register_variable
cmeta_register_variable(r, scope, n, repeat) ==
    LET known == cmeta_scope_find(r, scope, Plain(n.name))
        a == Guard(r, Has(n, "name") /\ n.name \in RootFields /\ (known => repeat)) IN
    IF known THEN a ELSE cmeta_scope_register(a, scope, Plain(n.name), FieldType(n.name))

\* cmeta_register_data_variable
cmeta_register_data_variable(r, scope, n, repeat) ==
    LET known == cmeta_scope_find(r, scope, Plain(n.name))
        a == Guard(r, n.name \in RootFields /\ (known => repeat)) IN
    IF known THEN a ELSE cmeta_scope_register(a, scope, Plain(n.name), FieldType(n.name))

\* cmeta_register_executable_variables: the var and data of a block
cmeta_register_executable_variables(r, scope, n) ==
    Each(LAMBDA acc, k : IF k.el = "data" THEN cmeta_register_data_variable(acc, scope, k, TRUE)
                         ELSE cmeta_register_variable(acc, scope, k, TRUE),
         r, Kids(n, {"var", "data"}))

\* cmeta_prompt_form_scope: through the row of the prompt's owner
cmeta_prompt_form_scope(owner) == FormScope(owner.form)

\* cmeta_register_prompt_foreach: a row, the location of the array, and a
\* slot for the item in the scope of the form.
cmeta_register_prompt_foreach(r, n, owner, parent, depth) ==
    LET scope == cmeta_prompt_form_scope(owner)
        a == Take(Add(r, "foreach", [prompt |-> owner.prompt, parent |-> parent, depth |-> depth,
                                     seg0 |-> NextRow(r, "segment"), segs |-> 0,
                                     fb0 |-> NextRow(r, "fallback"), fbs |-> 0, marks |-> 0]), "location")
        same == {i \in 1 .. Len(r.slots[scope]) : r.slots[scope][i].name = Plain(n.name)} IN
    IF same = {} THEN cmeta_scope_register(a, scope, Plain(n.name), "element")
    ELSE Guard(a, \A i \in same : r.slots[scope][i].type = "element")

\* The audio part of cmeta_compile_prompt_schema: the fallback row counts
\* from the first segment of the prompt or foreach the audio stands in.
CompileAudio(r, n, seg0) ==
    LET a == Each(LAMBDA acc, k : Add(acc, "segment", k.el), Add(r, "segment", "audio"), Fallback(n))
        at == NextRow(r, "segment") - seg0 IN
    IF Fallback(n) = <<>> THEN a
    ELSE Add(a, "fallback", [audio |-> at, first |-> at + 1, count |-> Len(Fallback(n))])

\* The mark part: the row of a dynamic mark holds its absolute segment.
CompileMark(r, n) ==
    LET a == IF Has(n, "nameexpr") THEN Add(r, "mark", [segment |-> NextRow(r, "segment"), expr |-> 0]) ELSE r IN
    Add(a, "segment", "mark")

\* The counts that close a prompt or a foreach that began in state r
CloseCounts(r, done, row) ==
    [row EXCEPT !.segs = NextRow(done, "segment") - NextRow(r, "segment"),
                !.fbs = NextRow(done, "fallback") - NextRow(r, "fallback"),
                !.marks = NextRow(done, "mark") - NextRow(r, "mark")]

RECURSIVE CompilePromptKids(_, _, _, _, _)
\* The children of a prompt (me = 0) or of the foreach me
CompilePromptKids(r, n, owner, me, depth) ==
    LET seg0 == NextRow(r, "segment")
        CompileForeach(acc, k) ==
            LET f == NextRow(acc, "foreach")
                a == cmeta_register_prompt_foreach(acc, k, owner, me, depth + 1)
                Close(c) == IF Ok(c) THEN [c EXCEPT !.t["foreach"][f] = CloseCounts(acc, c, @)] ELSE c IN
            Close(IF Ok(a) THEN CompilePromptKids(a, k, owner, f, depth + 1) ELSE a)
        Kid(acc, k) ==
            CASE k.el = "foreach" -> CompileForeach(acc, k)
              [] k.el = "audio" -> CompileAudio(acc, k, seg0)
              [] k.el = "mark" -> CompileMark(acc, k)
              [] k.el \in {"text", "ssml"} -> Add(acc, "segment", k.el)
              [] OTHER -> acc IN
    Each(Kid, r, n.kids)

\* cmeta_compile_prompt_schema for a prompt of owner = [kind, index, form]
cmeta_compile_prompt_schema(r, n, owner) ==
    LET p == NextRow(r, "prompt")
        a == Add(r, "prompt", [kind |-> owner.kind, owner |-> owner.index, cond |-> 0,
                               seg0 |-> NextRow(r, "segment"), segs |-> 0, fb0 |-> NextRow(r, "fallback"), fbs |-> 0,
                               fe0 |-> NextRow(r, "foreach"), fes |-> 0, marks |-> 0])
        Close(c) ==
            IF Ok(c) THEN [c EXCEPT !.t["prompt"][p] =
                               [CloseCounts(r, c, @) EXCEPT !.fes = NextRow(c, "foreach") - NextRow(r, "foreach")]]
            ELSE c IN
    Close(IF Ok(a) THEN CompilePromptKids(a, n, [owner EXCEPT !.prompt = p], 0, 0) ELSE a)

--------------------------------------------------------------------------
(* Second pass: menus and form items *)

\* cmeta_retain_dialog_id: ids of dialogs are unique
cmeta_retain_dialog_id(r, n) ==
    Guard(r, Has(n, "id") => \A i \in 1 .. Len(r.t["form"]) : r.t["form"][i].id /= n.name)

\* The targets and grammars of one choice in cmeta_compile_menu_schema
CompileChoice(r, menu, i, choice0) ==
    LET c == menu.kids[i]
        grammar == cmeta_menu_choice_grammar(c) = "some"
        phrase == ~grammar /\ cmeta_normalize_menu_choice_phrase(c)
        at == [choice |-> NextRow(r, "choice") - choice0]
        a == IF grammar THEN Add(r, "mgrammar", at)
             ELSE IF phrase /\ cmeta_menu_choice_accept_mode(menu, c) = "approximate" THEN Add(r, "policy", at)
             ELSE r IN
    Add(a, "choice", [dtmf |-> ChoiceDtmf(menu, i), phrase |-> phrase, event |-> Has(c, "event")])

\* cmeta_compile_menu_schema
cmeta_compile_menu_schema(r, menu, form) ==
    LET first == NextRow(r, "choice")
        k == Len(menu.kids)
        a == Each(LAMBDA acc, i : CompileChoice(acc, menu, i, first), r, [i \in 1 .. k |-> i]) IN
    Add(a, "menu", [form |-> form, choice0 |-> first, choices |-> k])

\* The row of an item's filled
ItemFilled(r, n, form, field) ==
    IF Kids(n, {"filled"}) = <<>> THEN r ELSE Add(r, "filled", [form |-> form, field |-> field])

\* Fault: the index is read after the increment.
FilledIndex_Fault(r, n) == IF Kids(n, {"filled"}) = <<>> THEN 0 ELSE NextRow(r, "filled") + 1

\* Its index, as the item keeps it
FilledIndex(r, n) == IF Kids(n, {"filled"}) = <<>> THEN 0 ELSE NextRow(r, "filled")

\* cmeta_compile_field_schema: where a field's name may not occur
cmeta_compile_field_schema(r, n, form) ==
    Guard(r, /\ ~cmeta_scope_find(r, FormScope(form), Plain(n.name))
             /\ \A t \in {"field", "record", "transfer", "subdialog"} : ~Named(r, t, form, n.name)
             /\ n.name \in RootFields)

\* The prompts of a field up to its filled: the loop of cmeta_build_schemas
\* leaves at filled.
FieldPrompts(n) ==
    LET stop == {i \in 1 .. Len(n.kids) : n.kids[i].el = "filled"} IN
    SelectSeq(IF stop = {} THEN n.kids ELSE SubSeq(n.kids, 1, CHOOSE i \in stop : TRUE), LAMBDA k : k.el = "prompt")

\* field in cmeta_build_schemas
BuildField(r, n, form) ==
    LET i == NextRow(r, "field")
        a == Add(cmeta_compile_field_schema(r, n, form), "item", [kind |-> "field", index |-> i])
        owner == [kind |-> "field", index |-> i, form |-> form, prompt |-> 0]
        prompt0 == NextRow(r, "prompt") IN
    Then(Each(LAMBDA acc, k : cmeta_compile_prompt_schema(acc, k, owner), a, FieldPrompts(n)),
         LAMBDA c : Add(ItemFilled(c, n, form, i), "field",
             [form |-> form, name |-> n.name, filled |-> FilledIndex(c, n), cond |-> 0, grammar |-> 0,
              prompt0 |-> prompt0, prompts |-> NextRow(c, "prompt") - prompt0]))

\* cmeta_register_initial_item: a Boolean slot, named or private.  The row
\* is cleared first, so that its form is the first one.
cmeta_register_initial_item(r, n, form, i) ==
    LET name == IF Has(n, "name") THEN Plain(n.name) ELSE Private("initial", i)
        a == Guard(r, /\ ~cmeta_scope_find(r, FormScope(form), name)
                      /\ Has(n, "name") => \A t \in {"field", "record", "transfer"} : ~Named(r, t, form, n.name)) IN
    cmeta_scope_register(a, FormScope(form), name, "bool")

\* initial in cmeta_build_schemas
BuildInitial(r, n, form) ==
    LET i == NextRow(r, "initial")
        row == [form |-> 1, name |-> IF Has(n, "name") THEN n.name ELSE "", expr |-> 0, cond |-> 0]
        a == cmeta_register_initial_item(r, n, form, i)
        owner == [kind |-> "initial", index |-> i, form |-> row.form, prompt |-> 0]
        prompt0 == NextRow(r, "prompt") IN
    Then(Each(LAMBDA acc, k : cmeta_compile_prompt_schema(acc, k, owner), a, Kids(n, {"prompt"})),
         LAMBDA c : Add(Add(c, "initial", [form |-> row.form, name |-> row.name, expr |-> 0, cond |-> 0,
                                           prompt0 |-> prompt0, prompts |-> NextRow(c, "prompt") - prompt0]),
                        "item", [kind |-> "initial", index |-> i]))

\* cmeta_compile_subdialog_param_schema: names are unique in the subdialog
cmeta_compile_subdialog_param_schema(r, n, subdialog) ==
    Add(Guard(r, \A i \in 1 .. Len(r.t["param"]) :
                     r.t["param"][i].subdialog = subdialog => r.t["param"][i].name /= n.name),
        "param", [subdialog |-> subdialog, name |-> n.name, typed |-> Has(n, "expr"), expr |-> 0])

\* cmeta_compile_subdialog_schema
cmeta_compile_subdialog_schema(r, n, form) ==
    LET a == Guard(r, /\ ~cmeta_scope_find(r, FormScope(form), Plain(n.name))
                      /\ \A t \in {"record", "transfer", "field", "subdialog"} : ~Named(r, t, form, n.name)
                      /\ n.name \in RootFields \cap StructFields) IN
    Each(LAMBDA acc, k : cmeta_compile_subdialog_param_schema(acc, k, NextRow(r, "subdialog")), a, Kids(n, {"param"}))

\* subdialog in cmeta_build_schemas
BuildSubdialog(r, n, form) ==
    LET i == NextRow(r, "subdialog")
        a == cmeta_compile_subdialog_schema(r, n, form) IN
    Add(Add(ItemFilled(a, n, form, 0), "subdialog",
            [form |-> form, name |-> n.name, filled |-> FilledIndex(a, n), cond |-> 0,
             param0 |-> NextRow(r, "param"), params |-> NextRow(a, "param") - NextRow(r, "param")]),
        "item", [kind |-> "subdialog", index |-> i])

\* cmeta_register_record_item: a control slot
cmeta_register_record_item(r, n, form, i) ==
    LET a == Guard(r, /\ ~cmeta_scope_find(r, FormScope(form), Plain(n.name))
                      /\ \A t \in {"field", "subdialog", "transfer", "record"} : ~Named(r, t, form, n.name)) IN
    cmeta_scope_register(a, FormScope(form), Private("record", i), "bool")

\* cmeta_compile_record_schema
cmeta_compile_record_schema(r, n, form, i) ==
    Same(cmeta_register_record_item(r, n, form, i), ~cmeta_record_bool(n, "modal=false", FALSE))

\* record in cmeta_build_schemas
BuildRecord(r, n, form) ==
    LET i == NextRow(r, "record")
        a == cmeta_compile_record_schema(r, n, form, i) IN
    Add(Add(ItemFilled(a, n, form, 0), "record",
            [form |-> form, name |-> n.name, filled |-> FilledIndex(a, n), cond |-> 0]),
        "item", [kind |-> "record", index |-> i])

\* cmeta_register_transfer_item: a result slot with the transfer's name and
\* a control slot
cmeta_register_transfer_item(r, n, form, i) ==
    LET a == Guard(r, /\ ~cmeta_scope_find(r, FormScope(form), Plain(n.name))
                      /\ \A t \in {"field", "subdialog", "record", "transfer"} : ~Named(r, t, form, n.name)) IN
    cmeta_scope_register(cmeta_scope_register(a, FormScope(form), Plain(n.name), "result"),
                         FormScope(form), Private("transfer", i), "bool")

\* cmeta_compile_transfer_schema: the version was checked when measuring
cmeta_compile_transfer_schema(r, n, form, i) ==
    Guard(cmeta_register_transfer_item(r, n, form, i), cmeta_transfer_mode_attributes(TRUE, n))

\* transfer in cmeta_build_schemas
BuildTransfer(r, n, form) ==
    LET i == NextRow(r, "transfer")
        a == cmeta_compile_transfer_schema(r, n, form, i) IN
    Add(Add(ItemFilled(a, n, form, 0), "transfer",
            [form |-> form, name |-> n.name, filled |-> FilledIndex(a, n), cond |-> 0]),
        "item", [kind |-> "transfer", index |-> i])

\* cmeta_register_form_item: a Boolean slot for a block
cmeta_register_form_item(r, n, form, i) ==
    LET name == IF Has(n, "name") THEN Plain(n.name) ELSE Private("block", i) IN
    cmeta_scope_register(Guard(r, ~cmeta_scope_find(r, FormScope(form), name)), FormScope(form), name, "bool")

\* block in cmeta_build_schemas
BuildBlock(r, n, form) ==
    LET i == NextRow(r, "block")
        a == cmeta_register_form_item(r, n, form, i) IN
    Add(cmeta_register_executable_variables(a, BlockScope(i), n), "block",
        [form |-> form, name |-> IF Has(n, "name") THEN n.name ELSE "", scope |-> BlockScope(i), cond |-> 0, expr |-> 0])

--------------------------------------------------------------------------
(* Second pass: initializers, forms, the document *)

\* Neither kind of fetch property is given twice in the document or a form.
NotRepeated(n, i) == \A j \in 1 .. i - 1 : n.kids[j].el = "property" => n.kids[j].name /= n.kids[i].name

\* cmeta_apply_fetchaudio_property
cmeta_apply_fetchaudio_property(r, n, i) ==
    IF cmeta_measure_fetchaudio_property(n.kids[i]) THEN Guard(r, NotRepeated(n, i)) ELSE r

\* cmeta_apply_data_fetch_property
cmeta_apply_data_fetch_property(r, n, i) ==
    IF n.kids[i].name \in {"fetchtimeout", "datafetchhint", "datamaxage", "datamaxstale"}
    THEN Guard(r, NotRepeated(n, i)) ELSE r

\* cmeta_compile_external_data: a document's data fills a root field no
\* other declaration names, a form's data the slot just registered.
cmeta_compile_external_data(r, n, form) ==
    Add(Guard(r, IF form = 0 THEN ~cmeta_document_name_conflict(n.name) /\ n.name \in RootFields
                 ELSE cmeta_scope_find(r, FormScope(form), Plain(n.name))),
        "data", [form |-> form, name |-> n.name, expr |-> 0])

\* data of the document or of a form in cmeta_build_schemas
BuildData(r, n, form) ==
    LET a == IF form = 0 THEN r ELSE cmeta_register_data_variable(r, FormScope(form), n, FALSE) IN
    Add(cmeta_compile_external_data(a, n, form), "initializer", [kind |-> "data", index |-> NextRow(r, "data")])

\* var of the document or of a form
BuildVar(r, n, form) ==
    LET scope == IF form = 0 THEN 1 ELSE FormScope(form) IN
    Add(Add(cmeta_register_variable(r, scope, n, FALSE), "declaration", [scope |-> scope, name |-> n.name, expr |-> 0]),
        "initializer", [kind |-> "var", index |-> NextRow(r, "declaration")])

\* cmeta_append_script_initializer: the script is compiled in this pass.
cmeta_append_script_initializer(r, n) ==
    Add(Take(r, "expression"), "initializer", [kind |-> "script", index |-> r.n["expression"] + 1])

\* cmeta_compile_form_grammar
cmeta_compile_form_grammar(r, n) == Same(r, Has(n, "src") \/ Has(n, "srcexpr"))

\* The row of a form or menu: where its ranges begin
FormHeader(r, n, menu) ==
    Add(r, "form", [id |-> IF Has(n, "id") THEN n.name ELSE "", menu |-> menu,
                    first |-> [t \in Ranged |-> NextRow(r, t)], count |-> [t \in Ranged |-> 0],
                    filled0 |-> 0, filleds |-> 0, grammar |-> 0])

\* The counts of a form, once its children are done
CloseForm(r, form) ==
    IF Ok(r) THEN [r EXCEPT !.t["form"][form].count =
                       [t \in Ranged |-> NextRow(r, t) - r.t["form"][form].first[t]]]
    ELSE r

\* filled of a form: its range begins at the first one
BuildFormFilled(r, form) ==
    LET i == NextRow(r, "filled")
        a == Add(r, "filled", [form |-> form, field |-> 0]) IN
    IF Ok(a) THEN [a EXCEPT !.t["form"][form].filled0 = IF @ = 0 THEN i ELSE @, !.t["form"][form].filleds = @ + 1]
    ELSE a

\* The i-th child of a form in cmeta_build_schemas
BuildFormKid(r, n, i, form) ==
    LET k == n.kids[i] IN
    CASE k.el = "property" -> cmeta_apply_data_fetch_property(cmeta_apply_fetchaudio_property(r, n, i), n, i)
      [] k.el = "data" -> BuildData(r, k, form)
      [] k.el = "script" -> cmeta_append_script_initializer(r, k)
      [] k.el = "var" -> BuildVar(r, k, form)
      [] k.el = "grammar" -> cmeta_compile_form_grammar(r, k)
      [] k.el = "initial" -> BuildInitial(r, k, form)
      [] k.el = "subdialog" -> BuildSubdialog(r, k, form)
      [] k.el = "record" -> BuildRecord(r, k, form)
      [] k.el = "transfer" -> BuildTransfer(r, k, form)
      [] k.el = "field" -> BuildField(r, k, form)
      [] k.el = "filled" -> BuildFormFilled(r, form)
      [] k.el = "block" -> BuildBlock(r, k, form)
      [] OTHER -> r

BuildForm(r, n) ==
    LET form == NextRow(r, "form")
        a == FormHeader(cmeta_retain_dialog_id(r, n), n, 0)
        c == Each(LAMBDA acc, i : BuildFormKid(acc, n, i, form), a, [i \in 1 .. Len(n.kids) |-> i]) IN
    CloseForm(c, form)

BuildMenu(r, n) ==
    LET form == NextRow(r, "form") IN
    cmeta_compile_menu_schema(FormHeader(cmeta_retain_dialog_id(r, n), n, NextRow(r, "menu")), n, form)

\* The children of the document in cmeta_build_schemas
BuildDocumentKid(r, i) ==
    LET k == doc.kids[i] IN
    CASE k.el = "property" -> cmeta_apply_data_fetch_property(cmeta_apply_fetchaudio_property(r, doc, i), doc, i)
      [] k.el = "data" -> BuildData(r, k, 0)
      [] k.el = "script" -> cmeta_append_script_initializer(r, k)
      [] k.el = "var" -> BuildVar(r, k, 0)
      [] k.el = "menu" -> BuildMenu(r, k)
      [] k.el = "form" -> BuildForm(r, k)
      [] OTHER -> r

\* cmeta_build_schemas: an empty scope for the document and for each form and block
cmeta_build_schemas(r) ==
    Each(LAMBDA acc, i : BuildDocumentKid(acc, i), [r EXCEPT !.slots = [s \in 1 .. m.rows["scope"] |-> <<>>]],
         [i \in 1 .. Len(doc.kids) |-> i])

Build ==
    /\ pc = "build"
    /\ b' = cmeta_build_schemas(b)
    /\ pc' = IF Ok(b') THEN "lower" ELSE "done"
    /\ UNCHANGED <<doc, m>>

--------------------------------------------------------------------------
(* Third pass: expressions and handlers *)

\* cmeta_append_expression into the row's column, if the document has it
Compile(r, present, table, i, column) ==
    LET a == Take(r, "expression") IN
    IF present /\ Ok(a) THEN [a EXCEPT !.t[table][i][column] = a.n["expression"]] ELSE IF present THEN a ELSE r

RECURSIVE TakeActions(_, _)
TakeActions(r, k) == IF k = 0 THEN r ELSE TakeActions(Take(r, "action"), k - 1)
\* cmeta_lower_catch: the handler, its owner and its actions
cmeta_lower_catch(r, n, kind, owner) ==
    TakeActions(Add(r, "handler", [kind |-> kind, owner |-> owner]), Len(n.kids))
LowerCatches(r, n, kind, owner) ==
    Each(LAMBDA acc, k : cmeta_lower_catch(acc, k, kind, owner), r, Kids(n, Catches))

\* cmeta_lower_filled_actions
cmeta_lower_filled_actions(r, n, filled) == TakeActions(Same(r, filled \in 1 .. Len(r.t["filled"])), Len(n.kids))
LowerItemFilled(r, n, filled) ==
    Each(LAMBDA acc, k : cmeta_lower_filled_actions(acc, k, filled), r, Kids(n, {"filled"}))

\* cmeta_compile_declaration_expression
cmeta_compile_declaration_expression(r, n, i) == Compile(r, Has(n, "expr"), "declaration", i, "expr")

\* cmeta_lower_external_data_request
cmeta_lower_external_data_request(r, n, i) == Compile(r, Has(n, "srcexpr"), "data", i, "expr")

Inside(first, count, first0, count0) == first >= first0 /\ first + count <= first0 + count0

RECURSIVE cmeta_lower_prompt_mark_nameexprs_recursive(_, _, _, _, _)
\* cmeta_lower_prompt_mark_nameexprs_recursive: c = [r, fe, mark] carries the
\* two cursors; range is the row of the prompt or foreach.
cmeta_lower_prompt_mark_nameexprs_recursive(c, n, p, parent, range) ==
    LET Foreach(acc, k) ==
            LET f == acc.fe
                rows == acc.r.t["foreach"]
                good == f <= Len(rows) /\ rows[f].prompt = p /\ rows[f].parent = parent /\ rows[f].segs > 0
                        /\ Inside(rows[f].seg0, rows[f].segs, range.seg0, range.segs) IN
            IF ~good THEN [acc EXCEPT !.r = Same(@, FALSE)]
            ELSE cmeta_lower_prompt_mark_nameexprs_recursive([acc EXCEPT !.fe = @ + 1], k, p, f, rows[f])
        Mark(acc, k) ==
            LET rows == acc.r.t["mark"]
                good == acc.mark <= Len(rows) /\ Inside(rows[acc.mark].segment, 1, range.seg0, range.segs)
                        /\ rows[acc.mark].expr = 0 IN
            IF ~good THEN [acc EXCEPT !.r = Same(@, FALSE)]
            ELSE [acc EXCEPT !.r = Compile(@, TRUE, "mark", acc.mark, "expr"), !.mark = @ + 1, !.count = @ + 1]
        Kid(acc, k) ==
            CASE ~Ok(acc.r) -> acc
              [] k.el = "foreach" -> Foreach(acc, k)
              [] k.el = "mark" /\ Has(k, "nameexpr") -> Mark(acc, k)
              [] OTHER -> acc IN
    FoldLeft(Kid, c, n.kids)

\* cmeta_lower_prompt_mark_nameexprs: the marks before the prompt are skipped
cmeta_lower_prompt_mark_nameexprs(r, n, p) ==
    LET row == r.t["prompt"][p]
        before == Cardinality({i \in 1 .. Len(r.t["mark"]) : r.t["mark"][i].segment < row.seg0})
        c == cmeta_lower_prompt_mark_nameexprs_recursive(
                 [r |-> r, fe |-> row.fe0, mark |-> before + 1, count |-> 0], n, p, 0, row) IN
    IF row.marks = 0 THEN r ELSE Same(c.r, c.fe = row.fe0 + row.fes /\ c.count = row.marks)

\* Prompts of a field or an initial, whose row is in the table at i
LowerPrompts(r, n, kind, i) ==
    LET row == r.t[kind][i]
        kids == Kids(n, {"prompt"})
        LowerPrompt(acc, j) ==
            LET p == row.prompt0 + j - 1
                good == j <= row.prompts /\ acc.t["prompt"][p].kind = kind /\ acc.t["prompt"][p].owner = i
                a == IF good THEN Compile(acc, Has(kids[j], "cond"), "prompt", p, "cond") ELSE Same(acc, FALSE) IN
            IF Ok(a) THEN cmeta_lower_prompt_mark_nameexprs(a, kids[j], p) ELSE a IN
    Same(Each(LowerPrompt, r, [j \in 1 .. Len(kids) |-> j]), Len(kids) = row.prompts)

\* The next row of an item table, which must belong to the form
Claim(r, table, form) ==
    LET i == r.at[table] + 1 IN
    IF i <= Len(r.t[table]) /\ r.t[table][i].form = form THEN [r EXCEPT !.at[table] = i] ELSE Same(r, FALSE)

\* initial in cmeta_lower_program
LowerInitial(r, n, form) ==
    LET a == Claim(r, "initial", form)
        i == a.at["initial"]
        c == Compile(Compile(a, Has(n, "expr"), "initial", i, "expr"), Has(n, "cond"), "initial", i, "cond") IN
    IF ~Ok(c) THEN c ELSE LowerCatches(LowerPrompts(c, n, "initial", i), n, "initial", i)

\* The params of a subdialog
LowerParams(r, n, i) ==
    LET row == r.t["subdialog"][i]
        kids == Kids(n, {"param"})
        LowerParam(acc, j) ==
            LET p == row.param0 + j - 1
                good == j <= row.params /\ acc.t["param"][p].subdialog = i /\ acc.t["param"][p].typed = Has(kids[j], "expr") IN
            IF good THEN Compile(acc, acc.t["param"][p].typed, "param", p, "expr") ELSE Same(acc, FALSE) IN
    Same(Each(LowerParam, r, [j \in 1 .. Len(kids) |-> j]), Len(kids) = row.params)

\* subdialog in cmeta_lower_program
LowerSubdialog(r, n, form) ==
    LET a == Claim(r, "subdialog", form)
        i == a.at["subdialog"]
        c == Compile(a, Has(n, "cond"), "subdialog", i, "cond") IN
    IF ~Ok(c) THEN c
    ELSE LowerItemFilled(LowerCatches(LowerParams(c, n, i), n, "subdialog", i), n, c.t["subdialog"][i].filled)

\* record in cmeta_lower_program
LowerRecord(r, n, form) ==
    LET a == Claim(r, "record", form)
        i == a.at["record"]
        c == Compile(a, Has(n, "cond"), "record", i, "cond") IN
    IF ~Ok(c) THEN c ELSE LowerItemFilled(LowerCatches(c, n, "record", i), n, c.t["record"][i].filled)

\* transfer in cmeta_lower_program
LowerTransfer(r, n, form) ==
    LET a == Claim(r, "transfer", form)
        i == a.at["transfer"]
        c == Compile(a, Has(n, "cond"), "transfer", i, "cond") IN
    IF ~Ok(c) THEN c ELSE LowerItemFilled(LowerCatches(c, n, "transfer", i), n, c.t["transfer"][i].filled)

\* field in cmeta_lower_program: condition, grammar, prompts, filled, catches
LowerField(r, n, form) ==
    LET a == Claim(r, "field", form)
        i == a.at["field"]
        g == Kids(n, {"grammar"})[1]
        c == Compile(Compile(a, Has(n, "cond"), "field", i, "cond"), Has(g, "srcexpr"), "field", i, "grammar")
        d == LowerPrompts(c, n, "field", i)
        e == IF c.t["field"][i].filled = 0 THEN d ELSE LowerItemFilled(d, n, c.t["field"][i].filled) IN
    IF ~Ok(c) THEN c ELSE LowerCatches(e, n, "field", i)

\* filled of a form: the offset-th row of its range
LowerFormFilled(r, n, i, form) ==
    LET row == r.t["form"][form]
        offset == Cardinality({j \in 1 .. i - 1 : n.kids[j].el = "filled"}) IN
    IF row.filled0 = 0 \/ offset >= row.filleds THEN Same(r, FALSE)
    ELSE cmeta_lower_filled_actions(r, n.kids[i], row.filled0 + offset)

\* cmeta_lower_block_actions
cmeta_lower_block_actions(r, n, i) ==
    TakeActions(Compile(Compile(r, Has(n, "expr"), "block", i, "expr"), Has(n, "cond"), "block", i, "cond"), Len(n.kids))

\* var and data: declarations in order; data by its offset in the range
LowerInitializer(r, n, i, first) ==
    LET k == n.kids[i]
        d == r.at["declaration"] + 1
        offset == Cardinality({j \in 1 .. i - 1 : n.kids[j].el = "data"}) IN
    CASE k.el = "var" -> cmeta_compile_declaration_expression([r EXCEPT !.at["declaration"] = d], k, d)
      [] k.el = "data" -> IF first + offset > Len(r.t["data"]) THEN Same(r, FALSE)
                          ELSE cmeta_lower_external_data_request(r, k, first + offset)
      [] OTHER -> r

\* The i-th child of a form in cmeta_lower_program
LowerFormKid(r, n, i, form) ==
    LET k == n.kids[i]
        blocks == Cardinality({j \in 1 .. i - 1 : n.kids[j].el = "block"}) IN
    CASE k.el \in {"var", "data"} -> LowerInitializer(r, n, i, r.t["form"][form].first["data"])
      [] k.el = "grammar" -> Compile(r, Has(k, "srcexpr"), "form", form, "grammar")
      [] k.el = "initial" -> LowerInitial(r, k, form)
      [] k.el = "subdialog" -> LowerSubdialog(r, k, form)
      [] k.el = "record" -> LowerRecord(r, k, form)
      [] k.el = "transfer" -> LowerTransfer(r, k, form)
      [] k.el \in Catches -> cmeta_lower_catch(r, k, "form", form)
      [] k.el = "field" -> LowerField(r, k, form)
      [] k.el = "filled" -> LowerFormFilled(r, n, i, form)
      [] k.el = "block" -> cmeta_lower_block_actions(r, k, r.t["form"][form].first["block"] + blocks)
      [] OTHER -> r

\* The i-th child of the document in cmeta_lower_program
LowerDocumentKid(r, i) ==
    LET k == doc.kids[i]
        form == r.at["form"] + 1
        a == [r EXCEPT !.at["form"] = form] IN
    CASE k.el \in {"var", "data"} -> LowerInitializer(r, doc, i, 1)
      [] k.el \in Catches -> cmeta_lower_catch(r, k, "document", 1)
      [] k.el = "menu" -> Same(a, r.t["form"][form].menu /= 0)
      [] k.el = "form" -> Each(LAMBDA acc, j : LowerFormKid(acc, k, j, form), a, [j \in 1 .. Len(k.kids) |-> j])
      [] OTHER -> r

\* cmeta_lower_program: at the end every item row was claimed
cmeta_lower_program(r) ==
    Then(Each(LAMBDA acc, i : LowerDocumentKid(acc, i), r, [i \in 1 .. Len(doc.kids) |-> i]),
         LAMBDA a : Same(a, \A t \in Directed : a.at[t] = Len(a.t[t])))

Lower ==
    /\ pc = "lower"
    /\ b' = cmeta_lower_program(b)
    /\ pc' = IF Ok(b') THEN "write" ELSE "done"
    /\ UNCHANGED <<doc, m>>

\* cmeta_write_program: the last comparison; only then is there a program.
cmeta_write_program ==
    /\ pc = "write"
    /\ b' = Same(b, /\ \A t \in Tables : Len(b.t[t]) = m.rows[t]
                    /\ \A c \in Counters : b.n[c] = m.rows[c])
    /\ pc' = "done"
    /\ UNCHANGED <<doc, m>>

Next == Measure \/ Build \/ Lower \/ cmeta_write_program
Spec == Init /\ [][Next]_vars

Published == pc = "done" /\ Ok(m) /\ Ok(b)

--------------------------------------------------------------------------
(* Properties *)

\* The statuses are those of the passes, and no lexical scope holds more
\* slots than max_scope_slots (cmeta_register_*).
TypeOK ==
    /\ pc \in {"measure", "build", "lower", "write", "done"}
    /\ m.st \in {"OK", "REJECTED"}
    /\ b.st \in {"OK", "REJECTED", "CHANGED", "NO_CAPACITY"}
    /\ \A s \in 1 .. Len(b.slots) : Len(b.slots[s]) <= Limit.slots

\* The document is the same in every pass, so no pass may find that it
\* changed: a measured document is compiled or refused for what it says.
PassesAgree == b.st /= "CHANGED"

\* The capacity computed from the measurement suffices for the slots of any
\* one scope: a scope is never full before max_scope_slots is reached.
CapacitySuffices == b.st /= "NO_CAPACITY"

\* In a program, the ranges of the forms follow one another without a gap
\* in every table and end where the table ends; what comes before the first
\* form belongs to the document.
RangesPartition ==
    Published =>
        \A t \in Ranged, f \in 1 .. Len(b.t["form"]) :
            LET row == b.t["form"][f]
                end == IF f = Len(b.t["form"]) THEN Len(b.t[t]) + 1 ELSE b.t["form"][f + 1].first[t] IN
            row.menu = 0 => /\ row.first[t] + row.count[t] = end
                            /\ \A i \in row.first[t] .. end - 1 :
                                  "form" \in DOMAIN b.t[t][i] => b.t[t][i].form = f

\* Every filled row has one owner: one item of its form, or the range of
\* the form itself, never both.
FilledOwners(i) ==
    LET form == b.t["form"][b.t["filled"][i].form]
        Items(t) == {<<t, j>> : j \in {j \in 1 .. Len(b.t[t]) :
                                          b.t[t][j].filled = i /\ b.t[t][j].form = b.t["filled"][i].form}}
        own == form.filled0 > 0 /\ i - form.filled0 \in 0 .. form.filleds - 1 IN
    UNION {Items(t) : t \in {"field", "subdialog", "record", "transfer"}}
        \cup (IF own THEN {<<"form", b.t["filled"][i].form>>} ELSE {})
FilledOwnedOnce == Published => \A i \in 1 .. Len(b.t["filled"]) : Cardinality(FilledOwners(i)) = 1

\* The items and the initializers of a form, looked up through their index
\* rows, are those of the document in document order.
RowName(row) ==
    CASE row.kind = "var" -> b.t["declaration"][row.index].name
      [] row.kind = "script" -> ""
      [] OTHER -> b.t[row.kind][row.index].name
Written(f) == SelectSeq(doc.kids, LAMBDA k : k.el \in {"form", "menu"})[f]
Follows(table, f, els) ==
    LET row == b.t["form"][f]
        kids == Kids(Written(f), els) IN
    /\ row.count[table] = Len(kids)
    /\ \A i \in 1 .. Len(kids) :
          LET at == b.t[table][row.first[table] + i - 1] IN
          /\ at.kind = kids[i].el
          /\ at.kind /= "script" => /\ at.index \in 1 .. Len(b.t[IF at.kind = "var" THEN "declaration" ELSE at.kind])
                                    /\ Has(kids[i], "name") => RowName(at) = kids[i].name
RowsFollowDocument ==
    Published => \A f \in 1 .. Len(b.t["form"]) :
        Follows("item", f, Directed) /\ Follows("initializer", f, {"var", "data", "script"})

\* Every compiled expression belongs to one place of one row, and none is
\* left over.
Columns(t) == CASE t = "field" -> {"cond", "grammar"} [] t = "form" -> {"grammar"}
                [] t \in {"initial", "block"} -> {"cond", "expr"}
                [] t \in {"subdialog", "record", "transfer", "prompt"} -> {"cond"} [] OTHER -> {"expr"}
Uses(e) ==
    LET Rows(t) == {<<t, x[1], x[2]>> : x \in {y \in (1 .. Len(b.t[t])) \X Columns(t) : b.t[t][y[1]][y[2]] = e}}
        scripts == {j \in 1 .. Len(b.t["initializer"]) :
                      b.t["initializer"][j].kind = "script" /\ b.t["initializer"][j].index = e} IN
    UNION {Rows(t) : t \in {"field", "form", "initial", "block", "subdialog", "record", "transfer", "prompt",
                            "param", "declaration", "data", "mark"}}
        \cup {<<"script", j, "">> : j \in scripts}
ExpressionsOwnedOnce == Published => \A e \in 1 .. b.n["expression"] : Cardinality(Uses(e)) = 1

\* The segments of the prompts follow one another; a foreach lies inside
\* its parent; a fallback, counted from the innermost foreach or prompt that
\* holds it, points at an audio segment followed by its text.
Holds(row, j) == j \in row.fb0 .. row.fb0 + row.fbs - 1
SegmentsConsistent ==
    Published =>
        /\ \A p \in 1 .. Len(b.t["prompt"]) :
              LET end == IF p = Len(b.t["prompt"]) THEN Len(b.t["segment"]) + 1 ELSE b.t["prompt"][p + 1].seg0 IN
              b.t["prompt"][p].seg0 + b.t["prompt"][p].segs = end
        /\ \A f \in 1 .. Len(b.t["foreach"]) :
              LET row == b.t["foreach"][f]
                  up == IF row.parent = 0 THEN b.t["prompt"][row.prompt] ELSE b.t["foreach"][row.parent] IN
              Inside(row.seg0, row.segs, up.seg0, up.segs) /\ Inside(row.fb0, row.fbs, up.fb0, up.fbs)
        /\ \A j \in 1 .. Len(b.t["fallback"]) :
              LET each == {f \in 1 .. Len(b.t["foreach"]) : Holds(b.t["foreach"][f], j)}
                  p == CHOOSE p \in 1 .. Len(b.t["prompt"]) : Holds(b.t["prompt"][p], j)
                  base == IF each = {} THEN b.t["prompt"][p].seg0
                          ELSE b.t["foreach"][CHOOSE f \in each : \A g \in each : g <= f].seg0
                  row == b.t["fallback"][j] IN
              /\ base + row.audio \in 1 .. Len(b.t["segment"])
              /\ b.t["segment"][base + row.audio] = "audio"
              /\ \A i \in 0 .. row.count - 1 : b.t["segment"][base + row.first + i] \in {"text", "ssml"}

\* In a menu no key selects two choices, and a key assigned by the compiler
\* is one of the digits 1 to 9.
MenuKeys ==
    Published => \A i \in 1 .. Len(b.t["menu"]) :
        LET row == b.t["menu"][i]
            keys == [j \in 1 .. row.choices |-> b.t["choice"][row.choice0 + j - 1].dtmf]
            kids == Written(row.form).kids IN
        /\ \A j, k \in DOMAIN keys : keys[j] = keys[k] /\ keys[j] /= 0 => j = k
        /\ \A j \in DOMAIN keys : kids[j].dtmf = 0 => keys[j] \in 0 .. 9

\* voicexml-cmeta-design.md: a collision between any form item and form
\* variable fails admission.  No two items of a form have one name, and no
\* slot of the form's scope has the name of an item it does not control.
ItemNames(f) ==
    LET row == b.t["form"][f]
        In(t) == {<<t, i>> : i \in {i \in row.first[t] .. row.first[t] + row.count[t] - 1 : b.t[t][i].name /= ""}} IN
    UNION {In(t) : t \in Directed \cup {"block"}}
NamesUnique ==
    Published => \A f \in 1 .. Len(b.t["form"]) :
        /\ \A x, y \in ItemNames(f) : b.t[x[1]][x[2]].name = b.t[y[1]][y[2]].name => x = y
        /\ \A x \in ItemNames(f) :
              x[1] \in {"field", "subdialog", "record"} => ~cmeta_scope_find(b, FormScope(f), Plain(b.t[x[1]][x[2]].name))

\* The tables of a program are those of its document: the passes agree, every
\* row has one owner, and ranges, names and keys are as written (above).
DocumentSound ==
    /\ TypeOK /\ PassesAgree /\ CapacitySuffices /\ RangesPartition /\ FilledOwnedOnce
    /\ RowsFollowDocument /\ ExpressionsOwnedOnce /\ SegmentsConsistent /\ MenuKeys /\ NamesUnique
=============================================================================

--------------------------- MODULE CmetaExecutable ---------------------------
(***************************************************************************)
(* Executable content of a VoiceXML document with a CMeta datamodel: the   *)
(* first compiler pass measures the rows a container needs, the second     *)
(* lowers its element tree into the flat action and branch tables that     *)
(* were allocated from that measurement (voicexml_cmeta_program.c), and    *)
(* the Session runs the tables with a bounded stack of frames              *)
(* (voicexml_cmeta_session.c).                                             *)
(*                                                                         *)
(* An element is [el, name, attrs, list, kids]; a name, whatever its       *)
(* bytes, costs one unit of string storage.  Entities, types and fetch     *)
(* policies are left out: they do not decide how many rows there are.      *)
(***************************************************************************)
EXTENDS Integers, Sequences, FiniteSets, SequencesExt

CONSTANTS
    Containers,         \* [kind, attrs, list, kids] to compile
    Conditions,         \* names of conditions; each run fixes their values
    RootFields,         \* fields of the datamodel's root, the names a var may have
    FieldNames, RecordNames, SubdialogNames, TransferNames, \* items of the form
    MaxActions, MaxNames, MaxHandlers, MaxData,             \* limits
    MaxConditionalDepth, MaxSlots,
    MaxSubmitFields, MaxSubmitParts, MaxSubmitRecordings, MaxDataFields

Rows == {"action", "branch", "expression", "location", "exit", "submit", "data", "name",
         "handler", "filled", "target", "block"}

VARIABLES
    src,    \* the container and the values of the conditions
    m,      \* the measurement: [st, rows]
    b,      \* the builder
    x       \* the Session: [pc, frames, trace, declared]

vars == <<src, m, b, x>>

Measurement == [st |-> "OK", rows |-> [r \in Rows |-> 0]]
Builder == [st |-> "OK", used |-> [r \in Rows \cup {"transfer_target"} |-> 0],
            actions |-> <<>>, branches |-> <<>>, slots |-> {}]
Session == [pc |-> "compile", frames |-> <<>>, trace |-> <<>>, declared |-> {}]

Ok(r) == r.st = "OK"
\* cmeta_program_fail: the document is refused, or (in the second pass) the
\* rows do not agree with the measurement.
Reject(r) == [r EXCEPT !.st = "REJECTED"]
Changed(r) == [r EXCEPT !.st = "CHANGED"]
Guard(r, cond) == IF Ok(r) /\ ~cond THEN Reject(r) ELSE r
Has(n, a) == a \in n.attrs

Terminals == {"exit", "return", "disconnect"}
HandlerOnly == {"throw", "rethrow", "reprompt"}
Executables == {"var", "assign", "clear", "if", "goto", "submit", "data", "script"} \cup Terminals \cup HandlerOnly

TypeOK ==
    /\ m.st \in {"OK", "REJECTED"} /\ b.st \in {"OK", "REJECTED", "CHANGED"}
    /\ m.rows \in [Rows -> Nat]
    /\ \A i \in 1 .. Len(b.actions) : b.actions[i].next \in 0 .. Len(b.actions) + 1
    /\ \A i \in 1 .. Len(b.branches) : b.branches[i].cond \in Conditions \cup {""}
    /\ x.pc \in {"compile", "lower", "run", "done", "refused", "limit", "invalid"}
    /\ x.declared \subseteq RootFields

Init ==
    /\ src \in [doc : Containers, cond : [Conditions -> BOOLEAN]]
    /\ m = Measurement /\ b = Builder /\ x = Session

--------------------------------------------------------------------------
(* First pass: measure *)

\* cmeta_measure_increment, n times
cmeta_measure_increment(r, row, n) == IF Ok(r) THEN [r EXCEPT !.rows[row] = @ + n] ELSE r

\* The attributes an element may have; "multipart" and "fragment" stand for
\* the values of enctype and next.
Allowed(el) ==
    CASE el = "script" -> {"src", "srcexpr"}
      [] el = "data" -> {"name", "src", "srcexpr", "namelist", "fetchaudio"}
      [] el \in {"var", "assign"} -> {"name", "expr"}
      [] el = "clear" -> {"namelist"}
      [] el = "goto" -> {"next", "fetchaudio", "fragment"}
      [] el = "submit" -> {"next", "namelist", "fetchaudio", "multipart"}
      [] el = "if" -> {"cond"}
      [] el = "throw" -> {"event"}
      [] el = "exit" -> {"expr", "namelist"}
      [] el = "return" -> {"event", "namelist"}
      [] OTHER -> {}

\* cmeta_validate_attributes and cmeta_validate_empty_element
cmeta_validate_element(r, n) == Guard(r, n.attrs \subseteq Allowed(n.el) /\ (n.el /= "if" => n.kids = <<>>))

\* cmeta_measure_name
cmeta_measure_name(r, present) ==
    IF ~present THEN r ELSE Guard(cmeta_measure_increment(r, "name", 1), r.rows["name"] < MaxNames)

\* cmeta_measure_namelist: a location and a name for each token
cmeta_measure_namelist(r, list) ==
    LET t == cmeta_measure_increment(cmeta_measure_increment(r, "location", Len(list)), "name", Len(list)) IN
    Guard(t, t.rows["name"] <= MaxNames)

\* cmeta_measure_script, inside executable content
cmeta_measure_script(r, n) ==
    cmeta_measure_increment(Guard(r, ~(Has(n, "src") /\ Has(n, "srcexpr"))), "expression", 1)

\* cmeta_measure_data
cmeta_measure_data(r, n) ==
    LET a == Guard(r, Has(n, "name") /\ (Has(n, "src") /= Has(n, "srcexpr")) /\ r.rows["data"] < MaxData)
        c == cmeta_measure_name(cmeta_measure_increment(a, "data", 1), TRUE)
        d == IF Has(n, "src") THEN cmeta_measure_name(c, TRUE) ELSE cmeta_measure_increment(c, "expression", 1)
        e == IF Has(n, "namelist") THEN Guard(cmeta_measure_namelist(d, n.list), Len(n.list) <= MaxDataFields)
             ELSE d IN
    cmeta_measure_name(e, Has(n, "fetchaudio"))

\* The submit part of cmeta_measure_executable
MeasureSubmit(r, n) ==
    LET multi == Has(n, "multipart")
        a == cmeta_measure_name(cmeta_measure_name(Guard(r, Has(n, "next")), TRUE), Has(n, "fetchaudio"))
        c == IF Has(n, "namelist")
             THEN Guard(cmeta_measure_namelist(a, n.list),
                        Len(n.list) <= IF multi THEN MaxSubmitParts ELSE MaxSubmitFields)
             ELSE Guard(a, ~multi) IN
    cmeta_measure_increment(c, "submit", 1)

\* What else an element needs before it counts as an action
MeasureAttributes(r, n) ==
    CASE n.el = "script" -> cmeta_measure_script(r, n)
      [] n.el = "data" -> cmeta_measure_data(r, n)
      [] n.el = "submit" -> MeasureSubmit(r, n)
      [] n.el = "goto" -> cmeta_measure_name(cmeta_measure_name(Guard(r, Has(n, "next")), TRUE), Has(n, "fetchaudio"))
      [] n.el = "throw" -> cmeta_measure_name(Guard(r, Has(n, "event")), TRUE)
      [] n.el = "return" -> cmeta_measure_name(Guard(r, Has(n, "event") /= Has(n, "namelist")), Has(n, "event"))
      [] n.el \in {"var", "assign"} -> cmeta_measure_name(r, Has(n, "name"))
      [] OTHER -> r

\* The action itself, its expression, its locations and its terminal row.
MeasureAction(r, n) ==
    LET a == Guard(cmeta_measure_increment(r, "action", 1), r.rows["action"] < MaxActions)
        c == cmeta_measure_increment(a, "expression", IF Has(n, "expr") THEN 1 ELSE 0)
        d == cmeta_measure_increment(c, "location", IF n.el = "assign" THEN 1 ELSE 0)
        e == cmeta_measure_increment(d, "exit", IF n.el \in Terminals THEN 1 ELSE 0) IN
    IF n.el \in {"clear", "exit", "return", "disconnect"} /\ Has(n, "namelist") THEN cmeta_measure_namelist(e, n.list) ELSE e

RECURSIVE cmeta_measure_conditional(_, _, _)

\* cmeta_measure_executable
cmeta_measure_executable(r, n, handler) ==
    LET a == Guard(r, n.el \in Executables /\ (n.el \in HandlerOnly => handler))
        Inside(c) == IF Ok(c) /\ n.el = "if" THEN cmeta_measure_conditional(c, n, handler) ELSE c IN
    IF ~Ok(a) THEN a ELSE Inside(MeasureAction(MeasureAttributes(cmeta_validate_element(a, n), n), n))

\* A row for elseif and for else.
BranchRows(el) == IF el \in {"elseif", "else"} THEN 1 ELSE 0

\* cmeta_measure_conditional
cmeta_measure_conditional(r, n, handler) ==
    LET Kid(acc, i) ==
            LET k == n.kids[i]
                late == \E j \in 1 .. i - 1 : n.kids[j].el = "else" IN
            IF k.el \in {"elseif", "else"}
            THEN cmeta_measure_increment(
                     cmeta_measure_increment(Guard(acc, ~late /\ (k.el = "elseif" => Has(k, "cond"))),
                                             "branch", BranchRows(k.el)),
                     "expression", IF k.el = "elseif" THEN 1 ELSE 0)
            ELSE IF Ok(acc) THEN cmeta_measure_executable(acc, k, handler) ELSE acc
        first == cmeta_measure_increment(
                     cmeta_measure_increment(Guard(r, Has(n, "cond")), "branch", 1), "expression", 1) IN
    FoldLeft(Kid, first, [i \in 1 .. Len(n.kids) |-> i])

MeasureAll(r, kids, handler) ==
    FoldLeft(LAMBDA acc, k : IF Ok(acc) THEN cmeta_measure_executable(acc, k, handler) ELSE acc, r, kids)

RECURSIVE Flat(_)
\* The elements of a tree in document order, through if elements.
Flat(kids) ==
    FoldLeft(LAMBDA acc, k : acc \o <<k>> \o (IF k.el = "if" THEN Flat(k.kids) ELSE <<>>), <<>>, kids)

\* cmeta_tree_contains_var
cmeta_tree_contains_var(kids) == \E k \in Range(Flat(kids)) : k.el \in {"var", "data"}

\* cmeta_prior_var_in_tree
cmeta_prior_var_in_tree(kids, i) ==
    \E j \in 1 .. i - 1 : Flat(kids)[j].el = "var" /\ Flat(kids)[j].name = Flat(kids)[i].name

\* cmeta_measure_repeated_vars: a var that an earlier one has declared is an
\* assignment and needs a location.
cmeta_measure_repeated_vars(r, kids) ==
    LET again == {i \in 1 .. Len(Flat(kids)) : Flat(kids)[i].el = "var" /\ Has(Flat(kids)[i], "name")
                                                 /\ cmeta_prior_var_in_tree(kids, i)} IN
    cmeta_measure_increment(r, "location", Cardinality(again))

\* cmeta_measure_block
cmeta_measure_block(r, d) ==
    LET a == cmeta_measure_increment(cmeta_measure_name(r, Has(d, "name")), "block", 1)
        c == cmeta_measure_increment(a, "expression", Cardinality({"cond", "expr"} \cap d.attrs)) IN
    cmeta_measure_repeated_vars(MeasureAll(c, d.kids, FALSE), d.kids)

\* cmeta_measure_catch: catch, help, noinput, nomatch
cmeta_measure_catch(r, d) ==
    LET a == cmeta_measure_name(Guard(r, Has(d, "event") \/ Has(d, "shorthand")), TRUE)
        c == cmeta_measure_increment(Guard(a, a.rows["handler"] < MaxHandlers), "handler", 1) IN
    MeasureAll(Guard(c, ~cmeta_tree_contains_var(d.kids)), d.kids, TRUE)

\* cmeta_measure_filled_targets: default_count when there is no namelist
cmeta_measure_filled_targets(r, d) ==
    LET n == IF Has(d, "namelist") THEN Len(d.list)
             ELSE Cardinality(FieldNames) + Cardinality(SubdialogNames) + Cardinality(TransferNames) IN
    cmeta_measure_increment(Guard(r, n > 0), "target", n)

\* cmeta_measure_filled_content
cmeta_measure_filled_content(r, d) ==
    LET a == cmeta_measure_increment(r, "filled", 1)
        c == IF d.kind = "filled" THEN cmeta_measure_filled_targets(a, d) ELSE a IN
    MeasureAll(Guard(c, ~cmeta_tree_contains_var(d.kids)), d.kids, FALSE)

Measure ==
    LET d == src.doc IN
    /\ x.pc = "compile"
    /\ m' = CASE d.kind = "block" -> cmeta_measure_block(m, d)
              [] d.kind = "catch" -> cmeta_measure_catch(m, d)
              [] d.kind \in {"filled", "field_filled"} -> cmeta_measure_filled_content(m, d)
    /\ x' = [x EXCEPT !.pc = IF Ok(m') THEN "lower" ELSE "refused"]
    /\ UNCHANGED <<src, b>>

--------------------------------------------------------------------------
(* Second pass: the rows are now an array of the measured size *)

Take(r, row, n) ==
    IF ~Ok(r) THEN r
    ELSE IF r.used[row] + n > m.rows[row] THEN Changed(r) ELSE [r EXCEPT !.used[row] = @ + n]

\* cmeta_retain_view and cmeta_retain_decoded_view
cmeta_retain_view(r) == Take(r, "name", 1)

\* cmeta_append_expression
cmeta_append_expression(r) == Take(r, "expression", 1)

\* cmeta_append_script
cmeta_append_script(r) == Take(r, "expression", 1)

\* cmeta_append_location_view: the name must resolve in a scope or the root.
cmeta_append_location_view(r, name) ==
    LET a == cmeta_retain_view(Take(r, "location", 1)) IN
    IF Ok(a) /\ name \notin a.slots \cup RootFields THEN Reject(a) ELSE a

\* cmeta_lower_namelist
cmeta_lower_namelist(r, list) ==
    Guard(FoldLeft(LAMBDA acc, n : IF Ok(acc) THEN cmeta_append_location_view(acc, n) ELSE acc, r, list),
          Len(list) > 0)

Distinct(list) == \A i, j \in 1 .. Len(list) : list[i] = list[j] => i = j

\* cmeta_append_submit_recording_location
cmeta_append_submit_recording_location(r) == cmeta_retain_view(Take(r, "location", 1))

\* cmeta_lower_submit_namelist: recordings only in a multipart submit, which
\* needs at least one.
cmeta_lower_submit_namelist(r, list, multi) ==
    LET recs == {i \in 1 .. Len(list) : list[i] \in RecordNames}
        One(acc, n) == IF ~Ok(acc) THEN acc
                       ELSE IF n \in RecordNames
                            THEN (IF multi THEN cmeta_append_submit_recording_location(acc) ELSE Reject(acc))
                            ELSE cmeta_append_location_view(acc, n) IN
    Guard(FoldLeft(One, Guard(r, Distinct(list)), list),
          /\ Len(list) > 0 /\ Cardinality(recs) <= MaxSubmitRecordings
          /\ Len(list) - Cardinality(recs) <= MaxSubmitFields
          /\ multi => Len(list) <= MaxSubmitParts /\ recs /= {})

\* cmeta_lower_data_namelist
cmeta_lower_data_namelist(r, list) ==
    Guard(cmeta_lower_namelist(Guard(r, Distinct(list)), list), Len(list) <= MaxDataFields)

\* cmeta_compile_external_data: the name, the URI and fetchaudio are retained.
cmeta_compile_external_data(r, n) ==
    LET a == cmeta_retain_view(Take(r, "data", 1))
        c == IF Has(n, "src") THEN cmeta_retain_view(a) ELSE a IN
    IF Has(n, "fetchaudio") THEN cmeta_retain_view(c) ELSE c

\* cmeta_lower_external_data_request
cmeta_lower_external_data_request(r, n) ==
    LET a == IF Has(n, "srcexpr") THEN cmeta_append_expression(r) ELSE r IN
    IF Has(n, "namelist") THEN cmeta_lower_data_namelist(a, n.list) ELSE a

\* cmeta_register_variable and cmeta_register_data_variable, for all of a
\* container (cmeta_register_executable_variables)
cmeta_register_executable_variables(r, kids) ==
    LET names == {k.name : k \in {k \in Range(Flat(kids)) : k.el \in {"var", "data"}}} IN
    [Guard(r, names \subseteq RootFields /\ Cardinality(names) <= MaxSlots) EXCEPT !.slots = names \cap RootFields]

\* cmeta_prior_var_action: from the first action of the container
cmeta_prior_var_action(r, first, name) ==
    \E i \in first .. Len(r.actions) : r.actions[i].kind = "var" /\ r.actions[i].name = name

\* The rows of a simple action other than its action row
LowerAttributes(r, n, first) ==
    LET e == IF Has(n, "expr") THEN cmeta_append_expression(r) ELSE r IN
    CASE n.el = "script" -> cmeta_append_script(r)
      [] n.el = "data" -> cmeta_lower_external_data_request(cmeta_compile_external_data(r, n), n)
      [] n.el = "var" -> IF cmeta_prior_var_action(r, first, n.name)
                         THEN (LET l == cmeta_append_location_view(r, n.name) IN
                               IF Has(n, "expr") THEN cmeta_append_expression(l) ELSE l)
                         ELSE e
      [] n.el = "assign" -> cmeta_append_expression(cmeta_append_location_view(Guard(r, Has(n, "expr")), n.name))
      [] n.el = "clear" -> IF Has(n, "namelist") THEN cmeta_lower_namelist(r, n.list) ELSE r
      [] n.el = "goto" -> LET g == cmeta_retain_view(r) IN
                          IF Has(n, "fetchaudio") /\ ~Has(n, "fragment") THEN cmeta_retain_view(g) ELSE g
      [] n.el = "submit" -> LET g == cmeta_retain_view(r)
                                f == IF Has(n, "fetchaudio") THEN cmeta_retain_view(g) ELSE g IN
                            IF Has(n, "namelist") THEN cmeta_lower_submit_namelist(f, n.list, Has(n, "multipart")) ELSE f
      [] n.el = "exit" -> LET g == Guard(e, ~(Has(n, "expr") /\ Has(n, "namelist"))) IN
                          Take(IF Ok(g) /\ Has(n, "namelist") THEN cmeta_lower_namelist(g, n.list) ELSE g, "exit", 1)
      [] n.el = "return" -> Take(IF Has(n, "event") THEN cmeta_retain_view(r) ELSE cmeta_lower_namelist(r, n.list), "exit", 1)
      [] n.el = "disconnect" -> Take(r, "exit", 1)
      [] n.el = "throw" -> cmeta_retain_view(r)
      [] OTHER -> r

Kind(r, n, first) == IF n.el = "var" /\ cmeta_prior_var_action(r, first, n.name) THEN "assign" ELSE n.el
Row(r, n, first) == [kind |-> Kind(r, n, first), name |-> n.name, declares |-> n.el = "var", next |-> 0,
                     first_branch |-> 0, branch_count |-> 0]

\* cmeta_lower_simple_action
cmeta_lower_simple_action(r, n, first) ==
    LET row == Row(r, n, first)
        Close(a) == IF ~Ok(a) THEN a
                    ELSE [a EXCEPT !.actions = Append(@, [row EXCEPT !.next = Len(a.actions) + 2])] IN
    Close(LowerAttributes(Take(r, "action", 1), n, first))

RECURSIVE cmeta_lower_conditional(_, _, _, _)

\* cmeta_lower_executable
cmeta_lower_executable(r, n, first, depth) ==
    IF n.el = "if" THEN cmeta_lower_conditional(r, n, first, depth + 1)
    ELSE cmeta_lower_simple_action(r, n, first)

\* The end of the last branch and the action behind the if.
CloseConditional(r, at, off) ==
    [r EXCEPT !.branches[off].end = Len(r.actions) + 1, !.actions[at].next = Len(r.actions) + 1]

\* elseif or else: ends a branch and begins the next one.
NextBranch(r, n, off) ==
    [r EXCEPT !.branches[off].end = Len(r.actions) + 1,
              !.branches[off + 1].first = Len(r.actions) + 1,
              !.branches[off + 1].cond = IF n.el = "elseif" THEN n.name ELSE ""]

\* max_conditional_depth
depth_allowed(depth) == depth <= MaxConditionalDepth

\* cmeta_lower_conditional: all branch rows at once, then the children.
cmeta_lower_conditional(r, n, first, depth) ==
    LET count == 1 + Cardinality({i \in 1 .. Len(n.kids) : n.kids[i].el \in {"elseif", "else"}})
        a == Take(Take(Guard(r, depth_allowed(depth)), "action", 1), "branch", count)
        at == Len(r.actions) + 1
        base == Len(r.branches)
        open == [a EXCEPT !.actions = Append(@, [Row(r, n, first) EXCEPT !.first_branch = base + 1,
                                                                         !.branch_count = count]),
                          !.branches = @ \o [i \in 1 .. count |->
                              [cond |-> IF i = 1 THEN n.name ELSE "unset", first |-> at + 1, end |-> at + 1]]]
        Off(i) == base + 1 + Cardinality({j \in 1 .. i - 1 : n.kids[j].el \in {"elseif", "else"}})
        Kid(acc, i) ==
            LET k == n.kids[i] IN
            IF ~Ok(acc) THEN acc
            ELSE IF k.el \in {"elseif", "else"}
                 THEN (LET t == NextBranch(acc, k, Off(i)) IN
                       IF k.el = "elseif" THEN cmeta_append_expression(t) ELSE t)
                 ELSE cmeta_lower_executable(acc, k, first, depth)
        Close(done) == IF ~Ok(done) THEN done ELSE CloseConditional(done, at, Off(Len(n.kids) + 1)) IN
    IF ~Ok(a) THEN a
    ELSE Close(FoldLeft(Kid, cmeta_append_expression(open), [i \in 1 .. Len(n.kids) |-> i]))

LowerAll(r, kids) ==
    FoldLeft(LAMBDA acc, k : IF Ok(acc) THEN cmeta_lower_executable(acc, k, 1, 0) ELSE acc, r, kids)

\* cmeta_lower_block_actions
cmeta_lower_block_actions(r, d) ==
    LET a == IF Has(d, "expr") THEN cmeta_append_expression(r) ELSE r IN
    LowerAll(IF Has(d, "cond") THEN cmeta_append_expression(a) ELSE a, d.kids)

\* cmeta_lower_catch
cmeta_lower_catch(r, d) == LowerAll(cmeta_retain_view(Take(r, "handler", 1)), d.kids)

\* cmeta_append_filled_target and cmeta_append_filled_transfer_target: both
\* tables have room for every target.
cmeta_append_filled_target(r, name) ==
    LET row == IF name \in TransferNames THEN "transfer_target" ELSE "target" IN
    IF r.used[row] >= m.rows["target"] THEN Changed(r) ELSE [r EXCEPT !.used[row] = @ + 1]

\* cmeta_lower_filled_targets
cmeta_lower_filled_targets(r, d) ==
    LET known == FieldNames \cup SubdialogNames \cup TransferNames
        list == IF Has(d, "namelist") THEN d.list ELSE SetToSeq(known) IN
    Guard(FoldLeft(LAMBDA acc, n : IF Ok(acc) THEN cmeta_append_filled_target(acc, n) ELSE acc,
                   Guard(r, Range(list) \subseteq known /\ Distinct(list)), list),
          list /= <<>>)

\* cmeta_lower_filled_actions
cmeta_lower_filled_actions(r, d) ==
    LET a == Take(r, "filled", 1) IN
    LowerAll(IF d.kind = "filled" /\ Ok(a) THEN cmeta_lower_filled_targets(a, d) ELSE a, d.kids)

Lower ==
    LET d == src.doc
        s == cmeta_register_executable_variables(b, d.kids) IN
    /\ x.pc = "lower"
    /\ b' = IF ~Ok(s) THEN s
            ELSE CASE d.kind = "block" -> cmeta_lower_block_actions(
                          [Take(s, "block", 1) EXCEPT !.used["name"] = IF Has(d, "name") THEN 1 ELSE 0], d)
                   [] d.kind = "catch" -> cmeta_lower_catch(s, d)
                   [] d.kind \in {"filled", "field_filled"} -> cmeta_lower_filled_actions(s, d)
    /\ x' = IF Ok(b') THEN [x EXCEPT !.pc = "run", !.frames = << [next |-> 1, end |-> Len(b'.actions) + 1] >>]
            ELSE [x EXCEPT !.pc = "refused"]
    /\ UNCHANGED <<src, m>>

--------------------------------------------------------------------------
(* The Session runs the rows *)

Holds(cond) == cond = "" \/ src.cond[cond]
Stops == Terminals \cup {"throw", "rethrow", "goto", "submit"}

\* select_if_branch: the first branch whose condition holds; 0 is none.
select_if_branch(a) ==
    LET on == {i \in a.first_branch .. a.first_branch + a.branch_count - 1 : Holds(b.branches[i].cond)} IN
    IF on = {} THEN 0 ELSE CHOOSE i \in on : \A j \in on : i <= j

\* The checks that select_if_branch and execute_action_range make first.
Sound(i, a, f) ==
    /\ a.next > i /\ a.next <= f.end
    /\ a.kind = "if" => \A k \in a.first_branch .. a.first_branch + a.branch_count - 1 :
           /\ i + 1 <= b.branches[k].first /\ b.branches[k].first <= b.branches[k].end
           /\ b.branches[k].end <= a.next

FrameCapacity == MaxConditionalDepth + 1

\* Fault: an assignment made from a var leaves its slot undeclared.
Declares_Fault(a) == a.kind = "var"

\* execute_var, and execute_assign with a scope
Declares(a) == a.declares

\* execute_action_range, one turn of its loop
Run ==
    LET f == Last(x.frames)
        up == Front(x.frames)
        a == b.actions[f.next]
        here == Append(up, [f EXCEPT !.next = a.next])
        br == select_if_branch(a)
        y == [x EXCEPT !.trace = Append(@, <<a.kind, a.name>>), !.frames = here,
                       !.declared = IF Declares(a) THEN @ \cup {a.name} ELSE @] IN
    /\ x.pc = "run" /\ x.frames /= <<>>
    /\ x' = IF f.next = f.end THEN [x EXCEPT !.frames = up]
            ELSE IF f.next > f.end \/ f.next > Len(b.actions) \/ ~Sound(f.next, a, f) THEN [x EXCEPT !.pc = "invalid"]
            ELSE IF a.kind \in Stops THEN [y EXCEPT !.frames = <<>>]
            ELSE IF a.kind /= "if" THEN y
            ELSE IF br = 0 \/ b.branches[br].first = b.branches[br].end THEN [x EXCEPT !.frames = here]
            ELSE IF Len(here) >= FrameCapacity THEN [x EXCEPT !.pc = "limit"]
            ELSE [x EXCEPT !.frames = Append(here, [next |-> b.branches[br].first, end |-> b.branches[br].end])]
    /\ UNCHANGED <<src, m, b>>

Finish ==
    /\ x.pc = "run" /\ x.frames = <<>>
    /\ x' = [x EXCEPT !.pc = "done"]
    /\ UNCHANGED <<src, m, b>>

Next == Measure \/ Lower \/ Run \/ Finish

Spec == Init /\ [][Next]_vars

--------------------------------------------------------------------------
(* Properties *)

\* The part of an if that runs: the first branch whose condition holds.
Chosen(n) ==
    LET marks == {0} \cup {i \in 1 .. Len(n.kids) : n.kids[i].el \in {"elseif", "else"}}
        On(i) == IF i = 0 THEN src.cond[n.name] ELSE n.kids[i].el = "else" \/ src.cond[n.kids[i].name]
        on == {i \in marks : On(i)}
        at == CHOOSE i \in on : \A j \in on : i <= j
        to == {i \in marks : i > at} IN
    IF on = {} THEN <<>>
    ELSE SubSeq(n.kids, at + 1, IF to = {} THEN Len(n.kids) ELSE (CHOOSE i \in to : \A j \in to : i <= j) - 1)

RECURSIVE AsWritten(_)
\* The elements that run, in order, according to the document: the first
\* that leaves the container is the last.
AsWritten(kids) ==
    LET One(acc, k) ==
            IF acc.stop THEN acc
            ELSE IF k.el = "if" THEN (LET r == AsWritten(Chosen(k)) IN [stop |-> r.stop, run |-> acc.run \o r.run])
            ELSE [stop |-> k.el \in Stops, run |-> Append(acc.run, k)] IN
    FoldLeft(One, [stop |-> FALSE, run |-> <<>>], kids)

\* The two passes agree: whatever the first admits, the second finds rows
\* for, and uses every one of them (strings may be left over).
PassesAgree ==
    /\ b.st /= "CHANGED"
    /\ x.pc \in {"run", "done"} =>
           /\ \A r \in Rows \ {"name", "target", "submit"} : b.used[r] = m.rows[r]
           /\ b.used["name"] <= m.rows["name"]
           /\ b.used["target"] + b.used["transfer_target"] = m.rows["target"]

\* The Session never meets a row it has to refuse, nor needs a frame more
\* than it has: a container nested too deeply was refused when compiled.
RowsAreSound == x.pc \notin {"invalid", "limit"}

\* What runs is what the document says, for all values of the conditions.
RunsAsWritten ==
    x.pc = "done" =>
        LET w == AsWritten(src.doc.kids).run IN
        /\ Len(w) = Len(x.trace)
        /\ \A i \in 1 .. Len(w) : x.trace[i][2] = w[i].name /\ x.trace[i][1] \in {w[i].el, "assign"}

\* A var element that has run has declared its variable, also when an
\* earlier one with the same name was in a branch that did not run; and the
\* first in the document is the only VAR row of its name.
DeclaredWhenRun ==
    /\ x.pc = "done" => x.declared = {k.name : k \in {k \in Range(AsWritten(src.doc.kids).run) : k.el = "var"}}
    /\ \A i, j \in 1 .. Len(b.actions) : b.actions[i].kind = "var" /\ b.actions[j].kind = "var"
                                         /\ b.actions[i].name = b.actions[j].name => i = j

\* Executable content is compiled to what the document says, and runs so
\* (above).
ExecutableSound == TypeOK /\ PassesAgree /\ RowsAreSound /\ RunsAsWritten /\ DeclaredWhenRun
==============================================================================

---------------------------- MODULE DocumentUri ----------------------------
(***************************************************************************)
(* The URIs of the VoiceXML document store (voicexml_document_store.c):    *)
(* resolving a reference against the document it stands in, and the        *)
(* normal form under which documents are cached.                           *)
(*                                                                         *)
(* A URI is kept as the parts parse_absolute_uri finds.  A path is the     *)
(* sequence of its segments, cut at every '/': "/a/" is <<"", "a", "">>    *)
(* and the empty path is <<"">>.  A reference has the same parts, each of  *)
(* which may be missing; its fragment is cut off by resolve and kept.      *)
(***************************************************************************)
EXTENDS Integers, SequencesExt

CONSTANT Absent   \* no scheme, authority, query or fragment

HasAuthority(u) == u.authority # Absent
leading_slash(path) == Len(path) > 1 /\ path[1] = ""
trailing_slash(path) == Len(path) > 1 /\ Last(path) = ""

(* parse_absolute_uri: a scheme, no fragment, and no empty authority.      *)
Absolute(u) == u.scheme # Absent /\ u.fragment = Absent /\ u.authority # ""

-----------------------------------------------------------------------------
(* normalize_absolute_uri.  The segments written so far form a stack;      *)
(* ".." takes the last one back, and stands for itself where the path is   *)
(* relative and nothing is left to take.                                   *)

\* Fault: "." is kept like any other segment.
Step_Drop(lead, stack, seg) ==
    CASE seg = "" -> stack
      [] seg = ".." /\ stack # <<>> -> Front(stack)
      [] seg = ".." /\ stack = <<>> -> IF lead THEN stack ELSE <<"..">>
      [] OTHER -> Append(stack, seg)

Step(lead, stack, seg) ==
    CASE seg \in {"", "."} -> stack
      [] seg = ".." /\ stack # <<>> -> Front(stack)
      [] seg = ".." /\ stack = <<>> -> IF lead THEN stack ELSE <<"..">>
      [] OTHER -> Append(stack, seg)

(* Each segment is preceded by a '/', whatever the path began with.        *)
normal_path(path) ==
    LET lead == leading_slash(path)
        segs == IF lead THEN Tail(path) ELSE path
        kept == FoldLeft(LAMBDA stack, seg : Step(lead, stack, seg), <<>>, segs)
    IN CASE kept # <<>> -> <<"">> \o kept \o (IF trailing_slash(path) THEN <<"">> ELSE <<>>)
         [] kept = <<>> /\ (lead \/ trailing_slash(path)) -> <<"", "">>
         [] OTHER -> <<"">>

normalize_absolute_uri(u) == [u EXCEPT !.path = normal_path(u.path)]

-----------------------------------------------------------------------------
(* build_resolved_candidate and resolve.                                   *)

WithoutFragment(ref) == [ref EXCEPT !.fragment = Absent]

(* The path up to its last '/', which an authority without a path gets.    *)
DirectoryOf(u) ==
    IF HasAuthority(u) /\ u.path = <<"">> THEN <<"">>
    ELSE SubSeq(u.path, 1, Len(u.path) - 1)

EmptyReference(ref) ==
    /\ ref.scheme = Absent /\ ref.authority = Absent
    /\ ref.path = <<"">> /\ ref.query = Absent

build_resolved_candidate(base, ref) ==
    CASE EmptyReference(ref) -> base
      [] ref.scheme # Absent -> ref
      [] ref.scheme = Absent /\ ref.authority # Absent -> [ref EXCEPT !.scheme = base.scheme]
      [] OTHER ->
           CASE ref.path = <<"">> -> [base EXCEPT !.query = ref.query]
             [] leading_slash(ref.path) -> [base EXCEPT !.path = ref.path, !.query = ref.query]
             [] OTHER -> [base EXCEPT !.path = DirectoryOf(base) \o ref.path, !.query = ref.query]

NotResolved == [scheme |-> Absent]

(* The document a reference names, or NotResolved.  Its fragment goes to   *)
(* the caller and never into the document's URI.                           *)
resolve(base, ref) ==
    LET candidate == build_resolved_candidate(base, WithoutFragment(ref))
    IN IF Absolute(base) /\ Absolute(candidate) THEN normalize_absolute_uri(candidate)
       ELSE NotResolved
-----------------------------------------------------------------------------
(* What RFC 3986 makes of a reference (5.2), for comparison.  Empty        *)
(* segments are segments; a path that ends in "." or ".." ends in a '/'.   *)

RemoveDots(path) ==
    LET segs == Tail(path)
        kept == FoldLeft(LAMBDA out, seg : CASE seg = "." -> out
                                             [] seg = ".." /\ out = <<>> -> out
                                             [] seg = ".." /\ out # <<>> -> Front(out)
                                             [] OTHER -> Append(out, seg), <<>>, segs)
    IN <<"">> \o kept \o (IF segs # <<>> /\ Last(segs) \in {".", ".."} THEN <<"">> ELSE <<>>)

(* The base's path without its last segment, then the reference's.         *)
Merge(base, path) ==
    (IF HasAuthority(base) /\ base.path = <<"">> THEN <<"">> ELSE Front(base.path)) \o path

(* The target before its dot segments are removed.                         *)
Target(base, ref) ==
    [scheme    |-> IF ref.scheme # Absent THEN ref.scheme ELSE base.scheme,
     authority |-> IF ref.scheme # Absent \/ HasAuthority(ref) THEN ref.authority
                   ELSE base.authority,
     path      |-> IF ref.scheme # Absent \/ HasAuthority(ref) \/ leading_slash(ref.path)
                   THEN ref.path
                   ELSE IF ref.path = <<"">> THEN base.path ELSE Merge(base, ref.path),
     query     |-> IF ref.scheme = Absent /\ ~HasAuthority(ref) /\ ref.path = <<"">>
                      /\ ref.query = Absent
                   THEN base.query ELSE ref.query,
     fragment  |-> Absent]

RfcTarget(base, ref) ==
    LET t == Target(base, ref) IN [t EXCEPT !.path = RemoveDots(t.path)]
=============================================================================

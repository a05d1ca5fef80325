--------------------------- MODULE SubmitResource ---------------------------
(***************************************************************************)
(* What a VoiceXML document sends out and reads in through a provider:     *)
(* submit as a form or as a multipart body (voicexml_submit_resource.c)    *)
(* and external scripts (voicexml_script_resource.c).  A request is        *)
(* checked, sized and written, the provider is called once, and its lease  *)
(* is handed to the caller or given back.                                  *)
(*                                                                         *)
(* Bytes are those of ChttpCodec, whose decoder is the receiver of forms.  *)
(* A line end, a fixed text of a header and a boundary are one byte each;  *)
(* the candidate boundary of attempt k is Boundary(k).                     *)
(***************************************************************************)
EXTENDS Integers, SequencesExt

CONSTANTS
    max_uri_bytes, max_body_bytes, max_header_bytes, max_segments, max_parts,
    max_response_bytes,
    MaxAttempts,   \* candidates for a boundary (16 in the code)
    Requests       \* the requests to execute

SubmitAssumption ==
    \A n \in {max_uri_bytes, max_body_bytes, max_header_bytes, max_segments,
              max_parts, max_response_bytes, MaxAttempts} : n \in Nat \ {0}

VARIABLES
    request,    \* the request being executed
    call,       \* where the call is, what it has written and its status
    provider,   \* external: calls it got, and leases it has given out
    response    \* what the caller holds

vars == <<request, call, provider, response>>

Form == INSTANCE ChttpCodec WITH
    max_event_name_bytes <- 9, max_form_entry_count <- 9, max_form_name_bytes <- 9,
    max_form_value_bytes <- 9, max_encoded_body_bytes <- 99, Requests <- {},
    Bodies <- {}, body <- call, form <- response

NewLine == 9
Dash == 10
Quote == 11
Backslash == 12
Disposition == 13    \* Content-Disposition: form-data; name="
Filename == 14       \* "; filename="
ContentType == 15    \* "\r\nContent-Type:
Question == 16
Boundary(k) == 20 + k

NoResponse == [lease |-> FALSE, size |-> 0, media |-> FALSE]
Concat(ss) == FlattenSeq(ss)

-----------------------------------------------------------------------------
(* Forms.                                                                  *)

encode_component(s) ==
    Concat([i \in 1 .. Len(s) |->
              IF s[i] = Form!Space THEN <<Form!Plus>>
              ELSE IF s[i] \in Form!Unreserved THEN <<s[i]>>
              ELSE <<Form!Pct, Form!Hex[(s[i] \div 3) + 1], Form!Hex[(s[i] % 3) + 1]>>])

encoded_component_size(s) ==
    FoldLeft(LAMBDA n, c : n + (IF c = Form!Space \/ c \in Form!Unreserved THEN 1 ELSE 3), 0, s)

Duplicate(fields, k) == \E j \in 1 .. k - 1 : fields[j].name = fields[k].name

FormSize(fields) ==
    FoldLeft(LAMBDA n, f : n + encoded_component_size(f.name) + 1
                             + encoded_component_size(f.value),
             IF fields = <<>> THEN 0 ELSE Len(fields) - 1, fields)

validate_fields(fields) ==
    IF \E k \in 1 .. Len(fields) : fields[k].name = <<>> \/ Duplicate(fields, k)
      THEN "INVALID_ARGUMENT"
    ELSE IF FormSize(fields) > max_body_bytes THEN "LIMIT_EXCEEDED" ELSE "OK"

encode_fields(fields) ==
    Concat([k \in 1 .. Len(fields) |->
              (IF k = 1 THEN <<>> ELSE <<Form!Amp>>)
                \o encode_component(fields[k].name) \o <<Form!Eq>>
                \o encode_component(fields[k].value)])

UriFits(uri, n) == Len(uri) <= max_uri_bytes - 1 /\ n <= max_uri_bytes - Len(uri) - 1

\* A form goes into the URI of a GET and into the body of a POST.
execute_form(r) ==
    LET checked == validate_fields(r.fields)
        encoded == encode_fields(r.fields)
        get == r.method = "GET"
        extended == r.uri \o <<IF Question \in Range(r.uri) THEN Form!Amp ELSE Question>>
                          \o encoded
    IN IF ~get /\ r.multipart_type THEN [status |-> "UNSUPPORTED_ENCODING"]
       ELSE IF checked # "OK" THEN [status |-> checked]
       ELSE IF get /\ encoded # <<>> /\ ~UriFits(r.uri, Len(encoded))
         THEN [status |-> "LIMIT_EXCEEDED"]
       ELSE [status |-> "OK", uri |-> IF get /\ encoded # <<>> THEN extended ELSE r.uri,
             body |-> IF get THEN <<>> ELSE encoded]

-----------------------------------------------------------------------------
(* Multipart bodies.                                                       *)

header_bytes_valid(s) == s # <<>> /\ NewLine \notin Range(s)

quoted_size(s) == FoldLeft(LAMBDA n, c : n + (IF c \in {Quote, Backslash} THEN 2 ELSE 1), 0, s)

Quoted(c) == IF c \in {Quote, Backslash} THEN <<Backslash, c>> ELSE <<c>>

write_quoted(s) == Concat([i \in 1 .. Len(s) |-> Quoted(s[i])])

\* The parts in the order asked for; without one, the fields and then the
\* recordings.  A part is [kind, index].
Parts(r) ==
    IF r.parts # <<>> THEN r.parts
    ELSE [k \in 1 .. Len(r.fields) |-> [kind |-> "TEXT", index |-> k]]
           \o [k \in 1 .. Len(r.recordings) |-> [kind |-> "RECORDING", index |-> k]]

PartOf(r, p) == IF p.kind = "TEXT" THEN r.fields[p.index] ELSE r.recordings[p.index]

order_valid(r) ==
    r.parts = <<>>
    \/ /\ Len(r.parts) = Len(r.fields) + Len(r.recordings)
       /\ \A k \in 1 .. Len(r.parts) :
             r.parts[k].index <= Len(IF r.parts[k].kind = "TEXT" THEN r.fields ELSE r.recordings)
       /\ \A j, k \in 1 .. Len(r.parts) : j < k =>
             /\ r.parts[j] # r.parts[k]
             /\ PartOf(r, r.parts[j]).name # PartOf(r, r.parts[k]).name

part_valid(f, kind) ==
    /\ header_bytes_valid(f.name) /\ Len(f.value) <= max_body_bytes
    /\ kind = "RECORDING" => f.value # <<>>

\* What a header takes without the boundary; recordings have the name of a file
\* and a media type of one byte each.
HeaderSize(f, kind, first) ==
    (IF first THEN 0 ELSE 1) + quoted_size(f.name) + (IF kind = "TEXT" THEN 6 ELSE 9)

\* Fault: recordings are not searched for the boundary.
boundary_conflicts_Fields(r, b) ==
    \E k \in 1 .. Len(r.fields) : b \in Range(r.fields[k].value)

boundary_conflicts(r, b) ==
    \/ \E k \in 1 .. Len(r.fields) : b \in Range(r.fields[k].value)
    \/ \E k \in 1 .. Len(r.recordings) : b \in Range(r.recordings[k].value)

SumOver(n, f(_)) == FoldLeft(LAMBDA acc, k : acc + f(k), 0, [k \in 1 .. n |-> k])

\* The sizes of everything, and the first boundary that no content has.
multipart_validate(r) ==
    LET parts == Parts(r)
        n == Len(parts)
        f(k) == PartOf(r, parts[k])
        header(k) == HeaderSize(f(k), parts[k].kind, k = 1) + 1
        filled(k) == IF f(k).value = <<>> THEN 1 ELSE 2
        size(k) == Len(f(k).value)
        metadata == SumOver(n, header) + 5
        segments == SumOver(n, filled) + 1
        free == {k \in 1 .. MaxAttempts : ~boundary_conflicts(r, Boundary(k))}
    IN IF r.recordings = <<>> THEN [status |-> "INVALID_ARGUMENT"]
       ELSE IF Len(r.fields) + Len(r.recordings) > max_parts THEN [status |-> "LIMIT_EXCEEDED"]
       ELSE IF ~order_valid(r) THEN [status |-> "INVALID_ARGUMENT"]
       ELSE IF \/ \E k \in 1 .. n : ~part_valid(f(k), parts[k].kind)
               \/ \E j, k \in 1 .. n : j < k /\ f(j).name = f(k).name
               \/ free = {}
         THEN [status |-> "INVALID_ARGUMENT"]
       ELSE IF \/ metadata + 2 > max_header_bytes \/ segments > max_segments
               \/ metadata + SumOver(n, size) > max_body_bytes
         THEN [status |-> "LIMIT_EXCEEDED"]
       ELSE [status |-> "OK", metadata |-> metadata, segments |-> segments,
             size |-> metadata + SumOver(n, size),
             boundary |-> Boundary(CHOOSE k \in free : \A j \in free : k <= j)]

\* The header and, when there is one, the content of a part.
build_part(r, p, first, boundary) ==
    LET f == PartOf(r, p)
        header == (IF first THEN <<>> ELSE <<NewLine>>) \o <<Dash, boundary, NewLine, Disposition>>
                    \o write_quoted(f.name)
                    \o (IF p.kind = "TEXT" THEN <<Quote>> ELSE <<Filename, 1, ContentType, 2>>)
                    \o <<NewLine, NewLine>>
    IN [header |-> header, segments |-> IF f.value = <<>> THEN <<header>> ELSE <<header, f.value>>]

\* The segments of the body; a disagreement with the sizes is noticed here.
multipart_build(r, v) ==
    LET parts == Parts(r)
        part(k) == build_part(r, parts[k], k = 1, v.boundary)
        trailer == <<NewLine, Dash, v.boundary, Dash, NewLine>>
        segments == Concat([k \in 1 .. Len(parts) |-> part(k).segments]) \o <<trailer>>
        header(k) == Len(part(k).header)
    IN IF SumOver(Len(parts), header) + 5 # v.metadata \/ Len(segments) > v.segments
         THEN [status |-> "INCONSISTENT"]
         ELSE [status |-> "OK", uri |-> r.uri, body |-> Concat(segments),
               boundary |-> v.boundary, size |-> v.size]

execute_multipart(r) ==
    LET v == multipart_validate(r)
    IN IF v.status # "OK" THEN [status |-> v.status] ELSE multipart_build(r, v)

-----------------------------------------------------------------------------
(* The call.                                                               *)

Idle == [pc |-> "idle", status |-> "none"]

Init ==
    /\ request \in Requests
    /\ call = Idle
    /\ provider = [calls |-> 0, leases |-> 0]
    /\ response = NoResponse

Written(r) ==
    CASE r.kind = "form" -> execute_form(r)
      [] r.kind = "multipart" -> execute_multipart(r)
      [] OTHER -> [status |-> IF r.charset THEN "OK" ELSE "UNSUPPORTED_CHARSET",
                   uri |-> r.uri, body |-> <<>>]

\* The request is checked and written; then its target may not resolve, there may
\* be no storage, or the provider may not know about timeouts.
execute_begin(refused) ==
    LET w == Written(request)
    IN /\ call.pc = "idle" /\ call.status = "none"
       /\ call' = IF w.status # "OK" THEN [pc |-> "done", status |-> w.status]
                  ELSE IF refused # "no" THEN [pc |-> "done", status |-> refused]
                  ELSE w @@ [pc |-> "provider"]
       /\ UNCHANGED <<request, provider, response>>

Replies == [lease : BOOLEAN, size : 0 .. max_response_bytes + 1, media : BOOLEAN]

\* There is exactly one attempt: the request may have been processed.
MayRepeat(status) == FALSE

Acceptable(r, reply) ==
    reply.lease /\ reply.size <= max_response_bytes /\ (r.kind = "script" \/ reply.media)

\* How many leases are still out after close_if_live.
close_if_live(reply) == 0

\* A provider may fail and still have given out a lease.
provider_returns(status, reply) ==
    /\ call.pc = "provider"
    /\ LET ok == status = "OK" /\ Acceptable(request, reply)
       IN /\ provider' = [calls |-> provider.calls + 1,
                          leases |-> provider.leases +
                            (IF ok THEN 1 ELSE close_if_live(reply))]
          /\ call' = IF MayRepeat(status) THEN call
                     ELSE [call EXCEPT !.pc = "done",
                             !.status = IF status # "OK" THEN status
                                        ELSE IF ok THEN "OK"
                                        ELSE IF reply.size > max_response_bytes
                                          THEN "LIMIT_EXCEEDED" ELSE "INVALID_RESPONSE"]
          /\ response' = IF ok THEN reply ELSE NoResponse
    /\ UNCHANGED request

resource_close ==
    /\ call.pc = "done" /\ response.lease
    /\ provider' = [provider EXCEPT !.leases = @ - 1]
    /\ response' = NoResponse
    /\ UNCHANGED <<request, call>>

Next ==
    \/ \E refused \in {"no", "INVALID_URI", "UNSUPPORTED_POLICY", "ALLOCATION_FAILED"} :
            execute_begin(refused)
    \/ \E status \in {"OK", "POSSIBLY_PROCESSED"}, reply \in Replies :
            provider_returns(status, reply)
    \/ resource_close

Spec == Init /\ [][Next]_vars

-----------------------------------------------------------------------------
(* What has to hold.                                                       *)

OnTheWire == call.pc = "provider"
Decoded(bytes) ==
    LET fields == Form!Split(bytes)
        cut(f) == CHOOSE i \in 1 .. Len(f) : f[i] = Form!Eq /\ Form!Eq \notin Range(SubSeq(f, 1, i - 1))
    IN [k \in 1 .. Len(fields) |->
          [name |-> Form!decode_component(SubSeq(fields[k], 1, cut(fields[k]) - 1)).text,
           value |-> Form!decode_component(SubSeq(fields[k], cut(fields[k]) + 1, Len(fields[k]))).text]]

\* A receiver of a form, in the body or behind the URI, reads the fields that
\* were submitted, each name once, and the URI respects its limit.
FormReadable ==
    OnTheWire /\ request.kind = "form" =>
        LET bytes == IF request.method = "GET"
                       THEN SubSeq(call.uri, Len(request.uri) + 2, Len(call.uri)) ELSE call.body
        IN /\ Decoded(bytes) = request.fields
           /\ \A j, k \in 1 .. Len(request.fields) :
                 j # k => request.fields[j].name # request.fields[k].name

\* A URI that carries a form stays within the limit its storage was made for.
UriWithinLimit == OnTheWire /\ Len(request.uri) <= max_uri_bytes => Len(call.uri) <= max_uri_bytes

Unquoted(s) ==
    FoldLeft(LAMBDA d, c : IF c = Backslash /\ ~d.escaped THEN [d EXCEPT !.escaped = TRUE]
                           ELSE [text |-> Append(d.text, c), escaped |-> FALSE],
             [text |-> <<>>, escaped |-> FALSE], s).text

\* What a receiver makes of a multipart body: delimiters are boundaries after
\* a dash at the start of a line, headers end with an empty line, names end
\* with a quote that no backslash precedes.
Received(body, b) ==
    LET starts == SetToSortSeq({i \in 1 .. Len(body) - 1 :
                      body[i] = Dash /\ body[i + 1] = b /\ (i = 1 \/ body[i - 1] = NewLine)}, <)
        chunk(k) == SubSeq(body, starts[k] + 3, starts[k + 1] - 2)
        ends(c) == {i \in 1 .. Len(c) - 1 : c[i] = NewLine /\ c[i + 1] = NewLine}
        end(c) == CHOOSE i \in ends(c) : \A j \in ends(c) : i <= j
        bare(c, i) == Cardinality({j \in 2 .. i - 1 :
                         \A m \in j .. i - 1 : c[m] = Backslash}) % 2 = 0
        stops(c) == {i \in 2 .. Len(c) : c[i] = Filename \/ (c[i] = Quote /\ bare(c, i))}
        stop(c) == CHOOSE i \in stops(c) : \A j \in stops(c) : i <= j
    IN [k \in 1 .. Len(starts) - 1 |->
          IF stops(chunk(k)) = {} \/ ends(chunk(k)) = {} THEN [malformed |-> TRUE]
          ELSE [name |-> Unquoted(SubSeq(chunk(k), 2, stop(chunk(k)) - 1)),
                value |-> SubSeq(chunk(k), end(chunk(k)) + 2, Len(chunk(k)))]]

\* A receiver of a multipart body finds exactly the parts that were submitted,
\* in the order asked for, whatever their names and contents are.
MultipartReadable ==
    OnTheWire /\ request.kind = "multipart" =>
        LET got == Received(call.body, call.boundary)
            parts == Parts(request)
        IN /\ Len(got) = Len(request.fields) + Len(request.recordings)
           /\ \A k \in 1 .. Len(got) :
                 LET f == PartOf(request, parts[k])
                 IN got[k] = [name |-> f.name, value |-> f.value]

\* The sizes computed before anything is written are exact: building never
\* finds a disagreement, and the announced length is the length of the body.
SizesAgree ==
    /\ call.status # "INCONSISTENT"
    /\ OnTheWire /\ request.kind = "multipart" => Len(call.body) = call.size

\* A request leaves at most once, and never when an error was found before.
OneAttempt ==
    provider.calls <= (IF call.pc = "done" /\ "uri" \in DOMAIN call THEN 1 ELSE 0)

\* Every lease of the provider is the caller's to close, or closed already.
LeasesBalanced == provider.leases = IF response.lease THEN 1 ELSE 0

\* What leaves is what was submitted, in the size announced, once; and what the
\* provider lends is given back once.
SubmitSound ==
    /\ FormReadable /\ MultipartReadable
    /\ UriWithinLimit /\ SizesAgree
    /\ OneAttempt /\ LeasesBalanced
=============================================================================

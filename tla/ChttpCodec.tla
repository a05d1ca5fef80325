------------------------------ MODULE ChttpCodec ------------------------------
(***************************************************************************)
(* The form codec of the BasicHTTP Event processor                         *)
(* (chttp_event_io_codec.c): how a send becomes a form body, how a form    *)
(* body becomes an Event and its entries, and the limits both obey.        *)
(*                                                                         *)
(* A byte has two digits to the base 3 (16 in the code).  The alphabet has *)
(* NUL, the four characters with a meaning in a form, the space and three  *)
(* letters, which are also the digits.  All bytes are valid UTF-8.  The    *)
(* text of scalars that are not strings is left out.                       *)
(***************************************************************************)
EXTENDS Integers, SequencesExt

CONSTANTS
    max_event_name_bytes, max_form_entry_count, max_form_name_bytes,
    max_form_value_bytes, max_encoded_body_bytes,
    Requests,   \* the sends to encode
    Bodies      \* the bodies to decode

CodecAssumption ==
    /\ max_event_name_bytes \in Nat \ {0} /\ max_form_entry_count \in Nat \ {0}
    /\ max_form_name_bytes \in Nat \ {0} /\ max_form_value_bytes \in Nat \ {0}
    /\ max_encoded_body_bytes \in Nat \ {0}

Nul == 0
Amp == 3
Eq == 4
Pct == 5
Plus == 6
Space == 7
Hex == <<8, 1, 2>>       \* the characters of the digits 0, 1 and 2
Unreserved == {1, 2, 8}
Byte == 0 .. 8

ReservedName == <<1, 2>>   \* _scxmleventname
DefaultEvent == <<8, 8>>   \* HTTP.POST

VARIABLES
    request,   \* the send to encode, [event, entries]
    body,      \* the body, [status, bytes, required]
    form       \* the decoded body, [status, event, entries, text_used]

vars == <<request, body, form>>

NoRequest == [event |-> <<>>, entries |-> <<>>]
NotDone == [status |-> "none"]

-----------------------------------------------------------------------------
(* Encoding.                                                               *)

utf8_valid(s) == Nul \notin Range(s)

Encoding(c) ==
    IF c \in Unreserved THEN <<c>>
    ELSE IF c = Space THEN <<Plus>> ELSE <<Pct, Hex[(c \div 3) + 1], Hex[(c % 3) + 1]>>

form_encode(s) == FlattenSeq([i \in 1 .. Len(s) |-> Encoding(s[i])])

Width(c) == IF c \in Unreserved \cup {Space} THEN 1 ELSE 3

form_encoded_size(s) == FoldLeft(LAMBDA n, c : n + Width(c), 0, s)

Fits(s, limit) == Len(s) <= limit /\ utf8_valid(s)

\* The entries of a send as fields, the Event first when it has a name.
Fields(r) ==
    (IF r.event = <<>> THEN <<>> ELSE <<[name |-> ReservedName, value |-> r.event]>>)
        \o r.entries

\* Names are not empty; the reserved name comes once, with a value, and is the
\* only one that the limit of Event names applies to.
FieldAllowed(fields, k) ==
    LET f == fields[k]
    IN IF f.name = ReservedName
         THEN /\ \A j \in 1 .. k - 1 : fields[j].name # ReservedName
              /\ f.value # <<>> /\ Fits(f.value, max_event_name_bytes)
         ELSE /\ f.name # <<>> /\ Fits(f.name, max_form_name_bytes)
              /\ Fits(f.value, max_form_value_bytes)

add_form_field_size(total, f) ==
    total + (IF total = 0 THEN 0 ELSE 1)
        + form_encoded_size(f.name) + 1 + form_encoded_size(f.value)

write_form_field(bytes, f) ==
    bytes \o (IF bytes = <<>> THEN <<>> ELSE <<Amp>>)
        \o form_encode(f.name) \o <<Eq>> \o form_encode(f.value)

\* The size of the body is computed before a byte is written.
codec_encode(r) ==
    LET fields == Fields(r)
        required == FoldLeft(add_form_field_size, 0, fields)
    IN IF \/ fields = <<>> \/ Len(fields) > max_form_entry_count
          \/ \E k \in 1 .. Len(fields) : ~FieldAllowed(fields, k)
          \/ required > max_encoded_body_bytes
         THEN [status |-> "ERROR_EXECUTION"]
         ELSE [status |-> "ACCEPTED", required |-> required,
               bytes |-> FoldLeft(write_form_field, <<>>, fields)]

-----------------------------------------------------------------------------
(* Decoding.                                                               *)

hex_value(c) == IF c \in Range(Hex) THEN (CHOOSE n \in 1 .. 3 : Hex[n] = c) - 1 ELSE -1

\* One byte of a component: escape holds what was read since a percent sign.
DecodeByte(d, c) ==
    LET store(v) == IF v = Nul THEN [d EXCEPT !.ok = FALSE]
                    ELSE [d EXCEPT !.out = Append(@, v), !.escape = <<>>]
    IN IF ~d.ok THEN d
       ELSE IF d.escape # <<>>
         THEN IF hex_value(c) < 0 THEN [d EXCEPT !.ok = FALSE]
              ELSE IF Len(d.escape) = 2 THEN store(hex_value(d.escape[2]) * 3 + hex_value(c))
              ELSE [d EXCEPT !.escape = Append(@, c)]
       ELSE IF c = Pct THEN [d EXCEPT !.escape = <<Pct>>]
       ELSE store(IF c = Plus THEN Space ELSE c)

\* Fault: an escape that the component ends in is ignored.
decode_component_Cut(s) ==
    LET d == FoldLeft(DecodeByte, [ok |-> TRUE, out |-> <<>>, escape |-> <<>>], s)
    IN [ok |-> d.ok, text |-> d.out]

decode_component(s) ==
    LET d == FoldLeft(DecodeByte, [ok |-> TRUE, out |-> <<>>, escape |-> <<>>], s)
    IN [ok |-> d.ok /\ d.escape = <<>>, text |-> d.out]

\* The body between its ampersands.
Split(bytes) ==
    LET cuts == SetToSortSeq({0, Len(bytes) + 1}
                               \cup {i \in 1 .. Len(bytes) : bytes[i] = Amp}, <)
    IN IF bytes = <<>> THEN <<>>
       ELSE [k \in 1 .. Len(cuts) - 1 |-> SubSeq(bytes, cuts[k] + 1, cuts[k + 1] - 1)]

Reserved(f, value) ==
    IF f.has_event \/ value = <<>> THEN [f EXCEPT !.status = "BAD_REQUEST"]
    ELSE IF Len(value) > max_event_name_bytes THEN [f EXCEPT !.status = "LIMIT_EXCEEDED"]
    ELSE [f EXCEPT !.event = value, !.has_event = TRUE]

Entry(f, name, value) ==
    IF \/ Len(name) > max_form_name_bytes \/ Len(value) > max_form_value_bytes
       \/ Len(f.entries) >= max_form_entry_count
      THEN [f EXCEPT !.status = "LIMIT_EXCEEDED"]
      ELSE [f EXCEPT !.entries = Append(@, [name |-> name, value |-> value])]

TextUsed(used, name, value) == used + Len(name) + Len(value)

\* One field: name and value are separated by the first equals sign, if any.
DecodeField(f, field) ==
    LET equals == {i \in 1 .. Len(field) : field[i] = Eq}
        at == IF equals = {} THEN Len(field) + 1
              ELSE CHOOSE i \in equals : \A j \in equals : i <= j
        name == decode_component(SubSeq(field, 1, at - 1))
        value == decode_component(SubSeq(field, at + 1, Len(field)))
        counted == [f EXCEPT !.total = @ + 1,
                             !.text_used = TextUsed(@, name.text, value.text)]
    IN IF f.status # "OK" THEN f
       ELSE IF field = <<>> THEN [f EXCEPT !.status = "BAD_REQUEST"]
       ELSE IF f.total = max_form_entry_count THEN [f EXCEPT !.status = "LIMIT_EXCEEDED"]
       ELSE IF ~name.ok \/ name.text = <<>> \/ ~value.ok
         THEN [f EXCEPT !.status = "BAD_REQUEST"]
       ELSE IF name.text = ReservedName THEN Reserved(counted, value.text)
       ELSE Entry(counted, name.text, value.text)

codec_decode_form(bytes) ==
    IF Len(bytes) > max_encoded_body_bytes THEN [status |-> "LIMIT_EXCEEDED"]
    ELSE FoldLeft(DecodeField,
                  [status |-> "OK", event |-> DefaultEvent, has_event |-> FALSE,
                   entries |-> <<>>, total |-> 0, text_used |-> 0],
                  Split(bytes))

-----------------------------------------------------------------------------
(* A send is encoded and its body decoded, or a body comes from elsewhere. *)

Init ==
    /\ form = NotDone
    /\ \/ request \in Requests /\ body = NotDone
       \/ /\ request = NoRequest
          /\ \E bytes \in Bodies :
                body = [status |-> "FOREIGN", required |-> Len(bytes), bytes |-> bytes]

Encode ==
    /\ body.status = "none"
    /\ body' = codec_encode(request)
    /\ UNCHANGED <<request, form>>

Decode ==
    /\ body.status \in {"ACCEPTED", "FOREIGN"} /\ form.status = "none"
    /\ form' = codec_decode_form(body.bytes)
    /\ UNCHANGED <<request, body>>

Next == Encode \/ Decode

Spec == Init /\ [][Next]_vars

-----------------------------------------------------------------------------
(* What has to hold.                                                       *)

Decoded == form.status = "OK"
Application(entries) == SelectSeq(entries, LAMBDA e : e.name # ReservedName)
EventOf(r) ==
    LET named == SelectSeq(Fields(r), LAMBDA f : f.name = ReservedName)
    IN IF named = <<>> THEN DefaultEvent ELSE named[1].value

\* What a processor with the same limits receives is what was sent: every body
\* that encode accepts is decoded, with the same Event and the same entries.
RoundTrip ==
    body.status = "ACCEPTED" /\ form.status # "none" =>
        /\ Decoded
        /\ form.event = EventOf(request)
        /\ form.entries = Application(request.entries)

\* The size that is computed first is the size of what is written, so the row's
\* body is never overrun.
SizeExact ==
    body.status = "ACCEPTED" =>
        body.required = Len(body.bytes) /\ body.required <= max_encoded_body_bytes

\* The decoded text fits in the storage that is as long as the body.
TextFits == form.status \in {"OK", "BAD_REQUEST"} => form.text_used <= Len(body.bytes)

\* Decoding is unambiguous: a form that was accepted, sent on by encode, is
\* accepted again with the same Event and entries.
Canonical ==
    Decoded /\ (form.has_event \/ form.entries # <<>>) =>
        LET again == codec_encode([event |-> IF form.has_event THEN form.event ELSE <<>>,
                                   entries |-> form.entries])
        IN again.status = "ACCEPTED" =>
             LET f == codec_decode_form(again.bytes)
             IN f.status = "OK" /\ f.event = form.event /\ f.entries = form.entries

\* A body is accepted whole or not at all: no field is skipped, and the reserved
\* name gives the Event exactly once.
NoFieldSkipped ==
    Decoded => Len(form.entries) + (IF form.has_event THEN 1 ELSE 0)
                 = Len(SelectSeq(body.bytes, LAMBDA c : c = Amp))
                     + (IF body.bytes = <<>> THEN 0 ELSE 1)

\* Escapes stand for bytes one to one: a form body with no text of its own
\* characters left over cannot smuggle in a NUL or a cut escape.
EscapesWhole ==
    Decoded => /\ utf8_valid(form.event)
               /\ \A i \in 1 .. Len(body.bytes) : body.bytes[i] = Pct =>
                    /\ i + 2 <= Len(body.bytes)
                    /\ hex_value(body.bytes[i + 1]) >= 0
                    /\ hex_value(body.bytes[i + 2]) >= 0

\* Encoding and decoding are inverse to each other, within the storage they have.
CodecSound ==
    /\ RoundTrip /\ Canonical
    /\ SizeExact /\ TextFits
    /\ NoFieldSkipped /\ EscapesWhole
=============================================================================

------------------------------- MODULE Forms --------------------------------
(***************************************************************************)
(* A FormData object, the multipart body it is sent as, and the object     *)
(* that formData() makes of the body at the other end                      *)
(* (include/qjsbind/web/formdata.hpp). A text is a sequence of the pieces  *)
(* that the encoder writes and the parser looks for; "b" is the boundary,  *)
(* which is drawn at random and so is in no name and no value.             *)
(***************************************************************************)
EXTENDS Naturals, Sequences, FiniteSets, SequencesExt, Entries

CONSTANTS FieldNames, FileNames, Texts,   \* texts
          FormEdits                       \* edits in one behaviour

Pieces == {"--", "b", "crlf", "CD:", "CT:", "form-data", ";", "file", "name=", "quote", "\\",
           "BOM", "x"}

ASSUME FormsAssumption ==
  FormEdits \in Nat /\ FieldNames \cup FileNames \cup Texts \subseteq Seq(Pieces \ {"b"})

VARIABLES fields,     \* list of the FormDataImpl
          wire,       \* the body as it arrives, <<>> until it is sent
          intact,     \* all of it
          received,   \* what formData() made of it
          formEdits

formVars == <<fields, wire, intact, received, formEdits>>

EmptyForm   == [fails |-> FALSE, list |-> <<>>]
Refused == [fails |-> TRUE, list |-> <<>>]

Text(n, s)       == [name |-> n, bytes |-> s, type |-> <<>>, filename |-> <<>>, is_blob |-> FALSE]
File(n, s, t, f) == [name |-> n, bytes |-> s, type |-> t, filename |-> f, is_blob |-> TRUE]

-----------------------------------------------------------------------------
CRLF  == <<"crlf">>
DELIM == <<"--", "b">>

\* Mutant: a backslash is not escaped.
Mutant_escape(s) ==
  FlattenSeq([i \in DOMAIN s |-> IF s[i] = "quote" THEN <<"\\", s[i]>> ELSE <<s[i]>>])

escape(s) ==
  FlattenSeq([i \in DOMAIN s |-> IF s[i] \in {"quote", "\\"} THEN <<"\\", s[i]>> ELSE <<s[i]>>])

Quoted(s) == <<"quote">> \o escape(s) \o <<"quote">>

encode_multipart(l) ==
  FlattenSeq([i \in DOMAIN l |->
    DELIM \o CRLF
      \o <<"CD:", "form-data", ";", "name=">> \o Quoted(l[i].name)
      \o (IF l[i].is_blob THEN <<";", "file", "name=">> \o Quoted(l[i].filename) ELSE <<>>) \o CRLF
      \o (IF l[i].is_blob /\ l[i].type # <<>> THEN <<"CT:">> \o l[i].type \o CRLF ELSE <<>>) \o CRLF
      \o l[i].bytes \o CRLF])
  \o DELIM \o <<"--">> \o CRLF

\* The length of the text up to the first piece of stop.
Upto(s, stop) == Cardinality({i \in DOMAIN s : \A j \in 1..i : s[j] \notin stop})

\* The text of a quoted string from its inside on: up to the quote that closes it, where the
\* piece after a backslash stands for itself.
Unquoted(s) ==
  LET from[i \in 1..(Len(s) + 2)] ==
        IF i > Len(s) \/ s[i] = "quote" THEN <<>>
        ELSE IF s[i] = "\\" /\ i < Len(s) THEN <<s[i + 1]>> \o from[i + 2]
        ELSE <<s[i]>> \o from[i + 1]
  IN from[1]

\* The value after the first occurrence of key.
parse_disposition_param(s, key) ==
  LET p == Find(s, key, 1)
      rest == SubSeq(s, p + Len(key), Len(s))
  IN IF p = 0 THEN <<>>
     ELSE IF rest # <<>> /\ Head(rest) = "quote" THEN Unquoted(Tail(rest))
     ELSE SubSeq(rest, 1, Upto(rest, {";", "crlf"}))

\* One part, whose headers end at its first empty line.
Part(part, hdr_end) ==
  LET lines == Split(SubSeq(part, 1, hdr_end - 1), "crlf")
      data  == SubSeq(part, hdr_end + 2, Len(part))
      \* the last line of that name counts
      header(h) == FoldLeft(LAMBDA v, line : IF line # <<>> /\ Head(line) = h THEN Tail(line) ELSE v,
                            <<>>, lines)
      name     == parse_disposition_param(header("CD:"), <<"name=">>)
      filename == parse_disposition_param(header("CD:"), <<"file", "name=">>)
  IN IF filename # <<>> \/ header("CT:") # <<>> THEN File(name, data, header("CT:"), filename)
     ELSE Text(name, IF data # <<>> /\ Head(data) = "BOM" THEN Tail(data) ELSE data)

\* Where the part that begins at pos ends.
NextPart(body, pos) == Find(body, CRLF \o DELIM, pos)

parse_multipart(body) ==
  LET At(text, pos) == pos + Len(text) - 1 <= Len(body) /\ SubSeq(body, pos, pos + Len(text) - 1) = text
      \* the entries of the delimiter at pos and of what follows it
      from[pos \in 1..(Len(body) + 2)] ==
        LET start   == pos + Len(DELIM)
            part    == SubSeq(body, start + 1, NextPart(body, start + 1) - 1)
            hdr_end == Find(part, CRLF \o CRLF, 1)
            rest    == from[NextPart(body, start + 1) + 1]
        IN IF ~At(DELIM, pos) THEN Refused
           ELSE IF At(<<"--">>, start)
           THEN IF start + (IF At(CRLF, start + 1) THEN 2 ELSE 1) = Len(body) + 1 THEN EmptyForm ELSE Refused
           ELSE IF ~At(CRLF, start) \/ NextPart(body, start + 1) = 0 \/ hdr_end = 0 \/ rest.fails
           THEN Refused
           ELSE [fails |-> FALSE, list |-> <<Part(part, hdr_end)>> \o rest.list]
  IN IF body = <<>> THEN EmptyForm ELSE from[1]

-----------------------------------------------------------------------------
FormsInit == fields = <<>> /\ wire = <<>> /\ intact = TRUE /\ received = EmptyForm /\ formEdits = 0

\* form_entry_from: a string, a Blob, or a File, whose name is its own or the argument.
FormValues(n) ==
  {Text(n, s) : s \in Texts} \cup
  {File(n, s, t, f) : s \in Texts, t \in {<<>>, <<"x">>}, f \in {<<>>} \cup FileNames}

FieldsTo(l) ==
  /\ wire = <<>> /\ formEdits < FormEdits /\ formEdits' = formEdits + 1
  /\ fields' = l /\ UNCHANGED <<wire, intact, received>>

FormAppend == \E n \in FieldNames : \E e \in FormValues(n) : FieldsTo(Append(fields, e))
FormSet    == \E n \in FieldNames : \E e \in FormValues(n) : FieldsTo(Replaced(fields, e))
FormDelete == \E n \in FieldNames : FieldsTo(Without(fields, n))

\* The body is made; formData() reads it at the other end, if all of it arrives or not.
FormSend ==
  /\ wire = <<>>
  /\ LET body == encode_multipart(fields) IN \E n \in 1..Len(body) :
       /\ wire' = SubSeq(body, 1, n) /\ intact' = (n >= Len(body) - 1)
       /\ received' = parse_multipart(wire')
  /\ UNCHANGED <<fields, formEdits>>

FormsNext == FormAppend \/ FormSet \/ FormDelete \/ FormSend

(***************************************************************************)
(* Properties.                                                             *)
(***************************************************************************)
\* Entries that a body can stand for: no line end in a name, no name that reads like the
\* filename parameter, no string that begins with a byte order mark, and no Blob that has
\* neither a type nor a file name (it comes back as a string).
Sendable(e) ==
  /\ "crlf" \notin ToSet(e.name) \cup ToSet(e.filename)
  /\ Find(e.name, <<"file", "name=">>, 1) = 0
  /\ IF e.is_blob THEN e.type # <<>> \/ e.filename # <<>> ELSE e.bytes = <<>> \/ Head(e.bytes) # "BOM"

\* What formData() makes of a body is the form that was sent, whatever quotes, backslashes,
\* line ends and dashes names and values hold; and a body of which only a part arrived is
\* refused, never taken for a shorter form.
FormsSurvive ==
  wire # <<>> =>
    IF intact THEN (\A i \in DOMAIN fields : Sendable(fields[i])) => received = [EmptyForm EXCEPT !.list = fields]
    ELSE received.fails

=============================================================================

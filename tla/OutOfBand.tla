----------------------------- MODULE OutOfBand ------------------------------
(***************************************************************************)
(* The session information that travels outside the RTP streams (V3C.cpp,  *)
(* v3c_api.cpp): the bitstream info, the unit headers and the payload of a *)
(* unit, written as text or raw values and parsed on the other end.        *)
(*                                                                         *)
(* A text is a sequence of fields, each a name and a value, and of marks:  *)
(* title lines in LOGGING, "a=v3cfmtp:" in SDP.  Raw payload values, which *)
(* the parser cuts at white space, and the warning lines are left out.     *)
(***************************************************************************)
EXTENDS BitstreamFormat, Connection, Base64

GOF == 7   \* NUM_V3C_UNIT_TYPES: the key of what holds for the whole stream
VideoTypes == <<V3C_OVD, V3C_GVD, V3C_AVD, V3C_PVD>>
HeaderFields == <<"unit_type", "v3c_parameter_set_id", "atlas_id", "attribute_index",
                  "attribute_partition_index", "map_index", "auxiliary_video_flag">>
PayloadFields == <<"HEADER", "PAYLOAD">>

-----------------------------------------------------------------------------
(* populate_data: the values of a stream, GoF or unit, by <<type, field>>   *)
Merge(f, g) == [k \in DOMAIN f \cup DOMAIN g |-> IF k \in DOMAIN g THEN g[k] ELSE f[k]]

GofInfo(g) ==
  [k \in {<<t, "NUM">> : t \in DOMAIN g.units}
           \cup {<<t, "SIZE_PREC">> : t \in DOMAIN g.units \ {V3C_VPS}} |->
     IF k[2] = "SIZE_PREC" THEN NalPrecision(g.units[k[1]])
     ELSE IF k[1] = V3C_VPS THEN 1 ELSE Len(g.units[k[1]].nalus)]

(* The first GoF gives the values, VPSs are summed up.  A type the first    *)
(* GoF lacks throws (map::at); other differences only set a flag.           *)
Varies(s, field) ==
  \E k \in 2..Len(s) : \E t \in DOMAIN s[k].units \ {V3C_VPS} :
    GofInfo(s[k])[<<t, field>>] # GofInfo(s[1])[<<t, field>>]

FirstGofInfo(s, precision) ==   \* mutant: the VPSs of later GoFs are not counted
  Merge(GofInfo(s[1]), [k \in {<<GOF, "NUM">>, <<GOF, "SIZE_PREC">>} |->
                          IF k[2] = "NUM" THEN Len(s) ELSE precision])

StreamInfo(s, precision) ==
  IF \E k \in 2..Len(s) : ~ DOMAIN s[k].units \subseteq DOMAIN s[1].units THEN Thrown
  ELSE [k \in DOMAIN GofInfo(s[1]) \cup {<<GOF, "NUM">>, <<GOF, "SIZE_PREC">>} |->
          CASE k = <<GOF, "NUM">> -> Len(s)
            [] k = <<GOF, "SIZE_PREC">> -> precision
            [] k = <<V3C_VPS, "NUM">> ->
                 Cardinality({i \in DOMAIN s : V3C_VPS \in DOMAIN s[i].units})
            [] OTHER -> GofInfo(s[1])[k]]

HeaderInfo(h) ==
  LET used == {"unit_type"}
        \cup (IF h.type # V3C_VPS THEN {"v3c_parameter_set_id"} ELSE {})
        \cup (IF HasAtlasId(h.type) THEN {"atlas_id"} ELSE {})
        \cup (IF h.type = V3C_AVD THEN {"attribute_index", "attribute_partition_index"} ELSE {})
        \cup (IF h.type \in {V3C_GVD, V3C_AVD} THEN {"map_index", "auxiliary_video_flag"} ELSE {})
  IN [k \in {<<h.type, f>> : f \in used} |->
        IF k[2] = "unit_type" THEN type_to_vuh(h.type) ELSE h[k[2]]]
HeadersInfo(g) ==
  FoldLeft(Merge, <<>>, SetToSeq({HeaderInfo(g.units[t].header) : t \in DOMAIN g.units}))

(* Strings are the parts between their commas *)
HeaderPayload(h) == [k \in {<<h.type, "HEADER">>} |-> <<enc_base64(write_header(h))>>]
HeaderPayloads(g) ==
  FoldLeft(Merge, <<>>, SetToSeq({HeaderPayload(g.units[t].header) : t \in DOMAIN g.units}))
UnitPayload(u) ==
  [k \in {<<u.header.type, "PAYLOAD">>} |->
     [i \in DOMAIN u.nalus |-> enc_base64(u.nalus[i].bytes)]]

-----------------------------------------------------------------------------
(* process_out_of_band_info: the order of the marks and fields present      *)
Mark == <<-1, "MARK">>
Marks(fmt) == IF fmt \in {"LOGGING", "SDP"} THEN <<Mark>> ELSE <<>>
Present(keys, data) == SelectSeq(keys, LAMBDA k : k \in DOMAIN data)

TypeLayout(fmt, type, fields, data) ==
  LET keys == Present([i \in DOMAIN fields |-> <<type, fields[i]>>], data)
  IN IF keys = <<>> THEN <<>> ELSE Marks(fmt) \o keys
Layout(fmt, fields, data) ==
  FlattenSeq([i \in 1..7 |-> TypeLayout(fmt, i - 1, fields, data)])

(* One size precision for all video, that of the first type present *)
InfoLayout(fmt, data) ==
  LET video == Present([i \in 1..4 |-> <<VideoTypes[i], "SIZE_PREC">>], data)
  IN Marks(fmt)
       \o Present(<<<<GOF, "NUM">>>> \o [i \in 1..7 |-> <<i - 1, "NUM">>]
                    \o <<<<GOF, "SIZE_PREC">>, <<V3C_AD, "SIZE_PREC">>>>, data)
       \o (IF video = <<>> THEN <<>> ELSE <<Head(video)>>)

(* get_field_name: video precisions share a name, in SDP also the auxiliary *)
(* flag and the map index; payloads have names of their own only in SDP.    *)
Name(fmt, k) ==
  CASE k = Mark \/ k[2] = "NUM" -> k
    [] k[2] = "SIZE_PREC" -> IF k[1] \in ToSet(VideoTypes) THEN <<V3C_OVD, "SIZE_PREC">> ELSE k
    [] fmt = "SDP" /\ k[2] = "auxiliary_video_flag" -> <<0, "map_index">>
    [] fmt = "SDP" /\ k[2] = "PAYLOAD" /\ k[1] \in {V3C_VPS, V3C_AD, V3C_CAD} -> k
    [] OTHER -> <<0, k[2]>>

(* process(ostream): NONE leaves the names out *)
Unnamed == <<-1, "NONE">>
Write(fmt, layout, data) ==
  [i \in DOMAIN layout |->
     [name |-> IF fmt = "NONE" THEN Unnamed ELSE Name(fmt, layout[i]),
      value |-> IF layout[i] = Mark THEN 0 ELSE data[layout[i]]]]

-----------------------------------------------------------------------------
(* process(istream): a field that is next is read.  Otherwise the lines are *)
(* searched from the start for the first with its name; its value loses its *)
(* first character, an empty rest leaves the field as it was, and what is   *)
(* eight bits wide is read as a character.  In SDP the first field after a  *)
(* mark is on the mark's line, whose text then is taken for the value.      *)
RECURSIVE Digits(_)
Digits(n) == IF n < 10 THEN <<n>> ELSE Append(Digits(n \div 10), n % 10)
Number(digits) == FoldLeft(LAMBDA n, d : 10 * n + d, 0, digits)
Char(digit) == 48 + digit
CharOfMark == 110   \* the n of "unit-type"

Found(fmt, text, st, key, i) ==
  LET rest == Tail(Digits(text[i].value))
      value == CASE fmt = "SDP" /\ i > 1 /\ text[i - 1].name = Mark -> CharOfMark
                 [] rest = <<>> -> st.data[key]
                 [] key[2] = "NUM" -> Number(rest)
                 [] OTHER -> Char(Head(rest))
  IN IF key[2] \in ToSet(PayloadFields)   \* what is left of a string does not decode
     THEN [st EXCEPT !.thrown = TRUE]
     ELSE [st EXCEPT !.pos = i + 1, !.data[key] = value]

Search(fmt, text, st, key) ==
  LET lines == {i \in DOMAIN text : text[i].name = Name(fmt, key)}
  IN IF lines = {} THEN [st EXCEPT !.thrown = TRUE]   \* ParseException
     ELSE Found(fmt, text, st, key, Min(lines))

IsNext(fmt, text, pos, key) ==
  pos \in DOMAIN text /\ (fmt = "RAW" \/ text[pos].name = Name(fmt, key))

(* preample(istream): SDP skips to behind the next mark; LOGGING has no     *)
(* overload that is chosen and skips nothing.                               *)
SkipMark(fmt, text, pos) ==
  IF fmt # "SDP" THEN pos
  ELSE Min({i \in pos + 1..Len(text) : text[i - 1].name = Mark} \cup {Len(text) + 1})

ReadAlways(fmt, text, st, key) ==   \* mutant: a field that is not next is not looked for
  CASE key = Mark -> [st EXCEPT !.pos = SkipMark(fmt, text, @)]
    [] IsNext(fmt, text, st.pos, key) ->
         [st EXCEPT !.pos = @ + 1, !.data[key] = text[st.pos].value]
    [] OTHER -> st

ReadField(fmt, text, st, key) ==
  CASE st.thrown -> st
    [] key = Mark -> [st EXCEPT !.pos = SkipMark(fmt, text, @)]
    [] IsNext(fmt, text, st.pos, key) ->
         [st EXCEPT !.pos = @ + 1, !.data[key] = text[st.pos].value]
    [] OTHER -> Search(fmt, text, st, key)

(* The fields of data are read in their order, from pos on *)
Read(fmt, text, pos, layout, data) ==
  FoldLeft(LAMBDA st, key : ReadField(fmt, text, st, key),
           [pos |-> pos, data |-> data, thrown |-> FALSE], layout)

-----------------------------------------------------------------------------
(* init_class: what a parser expects, one unit of one NALU per type; the    *)
(* header class knows no type and stays a VPS's                             *)
InitUnit(type) ==
  [header |-> NewHeader(type), ts |-> Unset, precision |-> Infer,
   nalus |-> <<[ts |-> Unset, bytes |-> <<>>]>>]
InitGof(flags) ==
  LET types == ToSet(unit_types_from_init_flag(flags))
  IN [ts |-> Unset, units |-> [t \in types |-> InitUnit(t)], sizes |-> [t \in types |-> 1]]

(* _out_of_band_info: the formats it knows; other ones throw ParseException *)
InfoFormats == {"LOGGING", "PARAM", "RAW"}
HeaderValues == {"LOGGING", "PARAM", "RAW", "SDP"}
PayloadNames == {"NONE", "LOGGING", "PARAM", "SDP"}

(* populate_bitstream_info: what the client gets of the fields read *)
BitstreamInfo(data) ==
  LET video == Present([i \in 1..4 |-> <<VideoTypes[i], "SIZE_PREC">>], data)
  IN [num |-> [t \in {k[1] : k \in DOMAIN data} |-> data[<<t, "NUM">>]],
      v3c |-> data[<<GOF, "SIZE_PREC">>],
      atlas |-> IF <<V3C_AD, "NUM">> \in DOMAIN data THEN data[<<V3C_AD, "SIZE_PREC">>] ELSE Unset,
      video |-> IF video = <<>> THEN Unset ELSE data[Head(video)]]

get_bitstream_info_string(s, precision, fmt) ==
  LET data == StreamInfo(s, precision)
  IN IF data = Thrown \/ fmt \notin InfoFormats THEN Thrown
     ELSE Write(fmt, InfoLayout(fmt, data), data)

parse_bitstream_info_string(text, fmt, flags) ==
  LET init == StreamInfo(<<InitGof(flags)>>, V3CPrecision(<<InitGof(flags)>>, Infer))
      st == Read(fmt, text, 1, InfoLayout(fmt, init), init)
  IN IF fmt \notin InfoFormats \/ st.thrown THEN Thrown ELSE BitstreamInfo(st.data)

(* populate_header: the header of each type, from its fields or its bytes   *)
Decoded(parts) == FlattenSeq([i \in DOMAIN parts |-> dec_base64(parts[i])])
HeaderStruct(type, data) ==
  [f \in DOMAIN NewHeader(type) |->
     IF f = "type" THEN data[<<type, "unit_type">>]
     ELSE IF <<type, f>> \in DOMAIN data THEN data[<<type, f>>] ELSE 0]

get_cur_gof_unit_info_string(g, field_fmt, value_fmt) ==
  IF value_fmt = "BASE64"
  THEN IF field_fmt \notin PayloadNames THEN Thrown
       ELSE Write(field_fmt, Layout(field_fmt, PayloadFields, HeaderPayloads(g)), HeaderPayloads(g))
  ELSE IF value_fmt \notin HeaderValues \/ field_fmt = "BASE64" THEN Thrown
       ELSE Write(field_fmt, Layout(field_fmt, HeaderFields, HeadersInfo(g)), HeadersInfo(g))

parse_unit_info_string(text, field_fmt, value_fmt, flags) ==
  LET g == InitGof(flags)
      init == IF value_fmt = "BASE64" THEN HeaderPayloads(g) ELSE HeadersInfo(g)
      fields == IF value_fmt = "BASE64" THEN PayloadFields ELSE HeaderFields
      st == Read(field_fmt, text, 1, Layout(field_fmt, fields, init), init)
  IN IF st.thrown THEN Thrown
     ELSE [t \in DOMAIN g.units |->
             IF value_fmt = "BASE64" THEN parse_header(Decoded(st.data[<<t, "HEADER">>]))
             ELSE HeaderStruct(t, st.data)]

(* The header of one unit, followed by its payload in base 64 *)
get_unit_string(u, header_field_fmt, header_value_fmt, payload_field_fmt) ==
  LET coded == header_value_fmt = "BASE64"
      header == IF coded THEN HeaderPayload(u.header) ELSE HeaderInfo(u.header)
      fields == IF coded THEN PayloadFields ELSE HeaderFields
      payload == UnitPayload(u)
  IN Write(header_field_fmt, Layout(header_field_fmt, fields, header), header)
       \o Write(payload_field_fmt, Layout(payload_field_fmt, PayloadFields, payload), payload)

parse_unit_string(text, type, header_field_fmt, header_value_fmt, payload_field_fmt) ==
  LET coded == header_value_fmt = "BASE64"
      fields == IF coded THEN PayloadFields ELSE HeaderFields
      header == IF coded THEN HeaderPayload(NewHeader(V3C_VPS)) ELSE HeaderInfo(NewHeader(type))
      payload == UnitPayload(InitUnit(type))
      h == Read(header_field_fmt, text, 1, Layout(header_field_fmt, fields, header), header)
      p == Read(payload_field_fmt, text, h.pos,
                Layout(payload_field_fmt, PayloadFields, payload), payload)
  IN IF h.thrown \/ p.thrown \/ (coded /\ type # V3C_VPS) THEN Thrown   \* at(type)
     ELSE [header |-> IF coded THEN parse_header(Decoded(h.data[<<type, "HEADER">>]))
                      ELSE HeaderStruct(type, h.data),
           payload |-> Decoded(p.data[<<type, "PAYLOAD">>])]
=============================================================================

------------------------------ MODULE Formats -------------------------------
(***************************************************************************)
(* What the encodings of the library must preserve.  A behaviour takes one *)
(* sample - a size, a header, a payload, a stream, session information or  *)
(* the set-up of two ends - and the invariants say what writing and        *)
(* reading make of it.                                                     *)
(***************************************************************************)
EXTENDS OutOfBand

CONSTANTS
  NoSample,
  Sizes,         \* sizes written with every precision
  Headers,       \* unit headers
  NaluHeaders,
  Payloads,      \* bytes to be coded in base 64
  GofLists,      \* sequences of GoFs
  Precisions,    \* size precisions of streams
  InfoGofs,      \* GoFs whose headers and payloads are described out of band
  PortMaps,      \* ports by unit type, the same for both ends
  TypeLists      \* unit types an end is set up for, sequences

VARIABLE sample

Init == sample = NoSample

Take(s) == sample = NoSample /\ sample' = s
Is(kind) == sample # NoSample /\ sample.kind = kind

TakeSize ==
  \E size \in Sizes, p \in 1..MAX_V3C_SIZE_PREC : Take([kind |-> "size", size |-> size, p |-> p])
TakeHeader == \E h \in Headers : Take([kind |-> "header", h |-> h])
TakeNaluHeader == \E n \in NaluHeaders : Take([kind |-> "nalu", n |-> n])
TakePayload == \E in \in Payloads : Take([kind |-> "payload", in |-> in])

(* A stream whose size maps are current, and one to whose last GoF a late   *)
(* NALU was pushed afterwards                                               *)
Late(s, t, n) == [s EXCEPT ![Len(s)].units[t] = UnitPush(@, n)]
TakeStream ==
  \E s \in GofLists, p \in Precisions :
    \/ Take([kind |-> "stream", s |-> s, p |-> V3CPrecision(s, p)])
    \/ \E t \in DOMAIN s[Len(s)].units :
         Take([kind |-> "late", s |-> Late(s, t, [ts |-> Unset, bytes |-> <<1, 1>>]), t |-> t,
               p |-> V3CPrecision(s, p)])

(* The info of a stream, parsed by a receiver set up for the types of its   *)
(* first GoF or, in the formats with names, for one more.  In RAW a field   *)
(* that was not written shifts those behind it, and the read past the end   *)
(* fails without an exception: the fields of a text then have no meaning,   *)
(* and that case is left out.                                               *)
TakeInfo ==
  \E s \in GofLists, fmt \in InfoFormats, more \in {{}, {V3C_GVD}} :
    /\ fmt = "RAW" => more = {}
    /\ Take([kind |-> "info", s |-> s, p |-> V3CPrecision(s, Infer), fmt |-> fmt,
             expects |-> DOMAIN s[1].units \cup more])

(* The headers of a GoF, alone or, as the examples do it, in a file after   *)
(* the stream's info                                                        *)
TakeUnitInfo ==
  \E g \in InfoGofs, field_fmt \in {"PARAM", "SDP", "RAW"}, value_fmt \in {"PARAM", "BASE64"},
     info \in BOOLEAN :
    /\ field_fmt = "RAW" => value_fmt # "BASE64"
    /\ info => field_fmt = "PARAM" /\ value_fmt # "BASE64"
    /\ Take([kind |-> "headers", g |-> g, field_fmt |-> field_fmt, value_fmt |-> value_fmt,
             info |-> info])

(* One unit; only a VPS's header can be parsed in base 64                   *)
TakeUnit ==
  \E g \in InfoGofs, header_fmt, payload_fmt \in {"PARAM", "SDP"},
     value_fmt \in {"PARAM", "BASE64"} :
    \E t \in DOMAIN g.units :
      /\ value_fmt = "BASE64" => t = V3C_VPS
      /\ Take([kind |-> "unit", u |-> g.units[t], header_fmt |-> header_fmt,
               value_fmt |-> value_fmt, payload_fmt |-> payload_fmt])

TakeConnection ==
  \E ports \in PortMaps, sends, receives \in TypeLists :
    Take([kind |-> "connection", ports |-> ports, sends |-> sends, receives |-> receives])

Next ==
  \/ TakeSize \/ TakeHeader \/ TakeNaluHeader \/ TakePayload \/ TakeStream
  \/ TakeInfo \/ TakeUnitInfo \/ TakeUnit \/ TakeConnection

Spec == Init /\ [][Next]_sample

-----------------------------------------------------------------------------
(* Properties *)

(* A size is read back as it was written if its field is wide enough, and   *)
(* cut otherwise; the inferred precision is wide enough and no wider than   *)
(* it must be, at the boundaries of every precision.                        *)
SizeFieldExact ==
  Is("size") =>
    LET Reread(p) == parse_sample_stream_size(write_sample_stream_size(sample.size, p), p)
    IN /\ Reread(sample.p) = sample.size <=> sample.size < Base^sample.p
       /\ Reread(calc_min_size_precision(sample.size)) = sample.size
       /\ sample.p < calc_min_size_precision(sample.size) => Reread(sample.p) # sample.size
       /\ parse_size_precision(write_size_precision(sample.p)) = sample.p

(* The fields of a unit header and of a NALU header survive writing and     *)
(* reading, for the values the layout keeps: attribute indices below 64,    *)
(* partition indices below 8 and layer ids below 32.                        *)
HeadersSurvive ==
  /\ Is("header") => parse_header(write_header(sample.h)) = sample.h
  /\ Is("nalu") => parse_nal_header(write_nal_header(sample.n)) = sample.n

(* Base 64 of any payload that is not empty decodes to it, for each padding.*)
PayloadSurvives == Is("payload") => dec_base64(enc_base64(sample.in)) = sample.in

(* A stream that its size fields can hold and that the parser knows the     *)
(* precisions of: a VPS without NALU sizes, video with the default ones.    *)
FieldsFit(u) ==
  CASE u.header.type = V3C_VPS -> NalPrecision(u) = 0 /\ Len(u.nalus) = 1
    [] HeaderSize(u.header.type) = 1 ->
         \A i \in DOMAIN u.nalus : NaluSize(u.nalus[i]) < Base^NalPrecision(u)
    [] OTHER -> /\ NalPrecision(u) = DEFAULT_VIDEO_NAL_SIZE_PRECISION
                /\ \A i \in DOMAIN u.nalus : NaluSize(u.nalus[i]) < Base^NalPrecision(u)
StreamFits(s, p) ==
  \A k \in DOMAIN s : \A t \in DOMAIN s[k].units :
    FieldsFit(s[k].units[t]) /\ UnitBytes(s[k].units[t]) < Base^p

Content(u) == [header |-> u.header, nalus |-> [i \in DOMAIN u.nalus |-> u.nalus[i].bytes]]
Gofs(s) == [k \in DOMAIN s |-> [t \in DOMAIN s[k].units |-> Content(s[k].units[t])]]

(* The units of a type in the order of their GoFs                           *)
UnitsOf(gofs, t) ==
  LET with == SelectSeq([k \in DOMAIN gofs |-> k], LAMBDA k : t \in DOMAIN gofs[k])
  IN [i \in DOMAIN with |-> gofs[with[i]][t]]

Reparsed == Gofs(parse_bitstream(get_bitstream(sample.s, sample.p)))

(* Every unit written is read back, byte by byte and in order, whatever GoF *)
(* it is found in; an inferred precision is always wide enough.             *)
UnitsSurvive ==
  (Is("stream") /\ StreamFits(sample.s, sample.p)) =>
    \A t \in UnitTypes : UnitsOf(Reparsed, t) = UnitsOf(Gofs(sample.s), t)

(* The format has no GoF boundaries: they are found again when no GoF lacks *)
(* a type that a later one has.                                             *)
NoneMissing(s) ==
  \A k \in 2..Len(s) : DOMAIN s[k].units \subseteq DOMAIN s[k - 1].units
GofsSurvive ==
  (Is("stream") /\ StreamFits(sample.s, sample.p) /\ NoneMissing(sample.s)) =>
    Reparsed = Gofs(sample.s)

(* A stream, a GoF or a unit that has grown since its size was recorded is  *)
(* never handed out with wrong sizes: writing throws.                       *)
GrownThrows ==
  Is("late") =>
    LET g == sample.s[Len(sample.s)]
    IN {get_bitstream(sample.s, sample.p), get_bitstream_gof(g, sample.p),
        get_bitstream_unit(g, sample.t, sample.p)} = {Thrown}

(* What a receiver learns from the info of a stream: how many GoFs and VPSs *)
(* will come, how many NALUs each unit has in every GoF that has the unit,  *)
(* if the sender saw no variation, and the size precisions.  In a format    *)
(* with names a receiver that expects a type the stream has not is told so  *)
(* by an exception.                                                         *)
Learns(fmt) ==
  LET s == sample.s
      text == get_bitstream_info_string(s, sample.p, fmt)
      flags == init_flags_from_unit_types(SetToSeq(sample.expects))
      info == parse_bitstream_info_string(text, fmt, flags)
  IN IF text = Thrown THEN TRUE
     ELSE IF sample.expects # DOMAIN s[1].units THEN info = Thrown
     ELSE /\ info # Thrown
          /\ info.num[GOF] = Len(s) /\ info.v3c = sample.p
          /\ \A t \in DOMAIN s[1].units :
               IF t = V3C_VPS
               THEN info.num[t] = Cardinality({k \in DOMAIN s : t \in DOMAIN s[k].units})
               ELSE Varies(s, "NUM") \/ \A k \in DOMAIN s :
                      t \in DOMAIN s[k].units => Len(s[k].units[t].nalus) = info.num[t]
          /\ \A k \in DOMAIN s : \A t \in DOMAIN s[k].units \ {V3C_VPS, V3C_CAD} :
               Varies(s, "SIZE_PREC") \/
                 NalPrecision(s[k].units[t]) = IF t = V3C_AD THEN info.atlas ELSE info.video

(* Holds in PARAM, and in RAW, which has no names, for a receiver that      *)
(* expects the types of the stream and no others.                           *)
InfoSurvives ==
  Is("info") =>
    /\ sample.fmt = "PARAM" => Learns("PARAM")
    /\ (sample.fmt = "RAW" /\ sample.expects = DOMAIN sample.s[1].units) => Learns("RAW")

(* The formats documented as supported for parsing (v3c_api.h).             *)
DocumentedFormatsParse == Is("info") => Learns(sample.fmt)

(* The headers of a GoF, and the header and payload of a unit, come out of  *)
(* their description unchanged, for every type in its place, also behind    *)
(* the stream's info.                                                       *)
UnitInfoSurvives ==
  /\ Is("headers") =>
       LET g == sample.g
           flags == init_flags_from_unit_types(SetToSeq(DOMAIN g.units))
           info == IF sample.info THEN get_bitstream_info_string(<<g>>, 1, "PARAM") ELSE <<>>
           text == get_cur_gof_unit_info_string(g, sample.field_fmt, sample.value_fmt)
       IN parse_unit_info_string(info \o text, sample.field_fmt, sample.value_fmt, flags)
            = [t \in DOMAIN g.units |-> g.units[t].header]
  /\ Is("unit") =>
       LET u == sample.u
           text == get_unit_string(u, sample.header_fmt, sample.value_fmt, sample.payload_fmt)
       IN parse_unit_string(text, u.header.type, sample.header_fmt, sample.value_fmt,
                            sample.payload_fmt)
            = [header |-> u.header,
               payload |-> FlattenSeq([i \in DOMAIN u.nalus |-> u.nalus[i].bytes])]

(* Ends set up for the same types, or with a port per type: each frame sent *)
(* comes out of the stream of its type and of no other, shared ports or not.*)
(* (An end set up for fewer types sees fewer shared ports, and filters      *)
(* SSRCs the other does not set, or the other way round.)                   *)
RoutedHome ==
  Is("connection") =>
    LET S == Streams(sample.ports, init_flags_from_unit_types(sample.sends))
        R == Streams(sample.ports, init_flags_from_unit_types(sample.receives))
        used == ToSet(sample.sends) \cup ToSet(sample.receives)
        ownPorts == \A t, u \in used : sample.ports[t] = sample.ports[u] => t = u
    IN (DOMAIN S = DOMAIN R \/ ownPorts) =>
         \A t \in ToSet(sample.sends) :
           {u \in DOMAIN R : Takes(R[u], S[t])} = {t} \cap ToSet(sample.receives)
=============================================================================

----------------------------- MODULE MCFormats ------------------------------
(***************************************************************************)
(* Samples for TLC: sizes around every power of Base, header fields at     *)
(* their ends and with single bits, GoFs of up to four types in streams of *)
(* up to three, ports shared by some of four types.                        *)
(***************************************************************************)
EXTENDS Formats

AroundPowers ==
  {0} \cup UNION {{Base^k - 1, Base^k, Base^k + 1} : k \in 1..MAX_V3C_SIZE_PREC - 1}
      \cup {Base^MAX_V3C_SIZE_PREC - 1}

Header(type, f) == [field \in DOMAIN NewHeader(type) |->
                      IF field \in DOMAIN f THEN f[field] ELSE NewHeader(type)[field]]
PsIds == {0, 1, 8, 15}
AtlasIds == {0, 1, 32, 63}
SomeHeaders ==
  {NewHeader(V3C_VPS)}
    \cup {Header(V3C_CAD, [v3c_parameter_set_id |-> p]) : p \in PsIds}
    \cup {Header(type, [v3c_parameter_set_id |-> p, atlas_id |-> a]) :
            type \in {V3C_AD, V3C_OVD, V3C_PVD}, p \in PsIds, a \in AtlasIds}
    \cup {Header(V3C_GVD, [v3c_parameter_set_id |-> p, atlas_id |-> a, map_index |-> m,
                           auxiliary_video_flag |-> x]) :
            p \in PsIds, a \in AtlasIds, m \in {0, 1, 7, 8, 15}, x \in {0, 1}}
    \cup {Header(V3C_AVD, [v3c_parameter_set_id |-> p, atlas_id |-> a, attribute_index |-> i,
                           attribute_partition_index |-> j, map_index |-> m,
                           auxiliary_video_flag |-> x]) :
            p \in {0, 15}, a \in {0, 63}, i \in {0, 1, 32, 63}, j \in {0, 1, 4, 7},
            m \in {0, 1, 8, 15}, x \in {0, 1}}

SomeNaluHeaders ==
  {[nal_unit_type |-> u, nal_layer_id |-> l, nal_temporal_id |-> t] :
     u \in {0, 1, 32, 63}, l \in {0, 1, 16, 31}, t \in 0..7}

SomePayloads == UNION {[1..n -> {0, 1, 65, 255}] : n \in 1..4}

(* Units in two variants, a long NALU of Base + 1 bytes in the second *)
Bytes(id, n) == [i \in 1..n |-> (id + i) % Base]
Nalus(id, sizes) == [i \in DOMAIN sizes |-> [ts |-> Unset, bytes |-> Bytes(id + i, sizes[i])]]
Unit(type, v, id) ==
  [header |-> NewHeader(type), ts |-> Unset,
   precision |-> CASE type = V3C_VPS -> 0
                   [] type \in {V3C_AD, V3C_CAD} -> IF v = 1 THEN 1 ELSE Infer
                   [] OTHER -> DEFAULT_VIDEO_NAL_SIZE_PRECISION,
   nalus |-> CASE type = V3C_VPS -> Nalus(id, <<3>>)
               [] v = 1 -> Nalus(id, <<2>>)
               [] OTHER -> Nalus(id, <<2, Base + 1>>)]
Gof(types, v, id) ==
  LET units == [t \in types |-> Unit(t, v, id + 2 * t)]
  IN [ts |-> Unset, units |-> units, sizes |-> [t \in types |-> Len(units[t].nalus)]]

TypeSets(T) == SUBSET T \ {{}}
SomeGofLists ==
  {<<Gof(T, v, 0)>> : T \in TypeSets({V3C_VPS, V3C_AD, V3C_OVD, V3C_CAD}), v \in {1, 2}}
    \cup {<<Gof(T1, v, 0), Gof(T2, 3 - v, 1)>> :
            T1, T2 \in TypeSets({V3C_VPS, V3C_AD, V3C_OVD, V3C_CAD}), v \in {1, 2}}
    \cup {<<Gof(T1, 1, 0), Gof(T2, 1, 1), Gof(T3, 2, 2)>> :
            T1, T2, T3 \in TypeSets({V3C_AD, V3C_OVD})}

(* GoFs whose headers differ in every field, with several digits           *)
InfoHeader(t, v) ==
  [f \in DOMAIN NewHeader(t) |->
     LET h == IF v = 1 THEN [v3c_parameter_set_id |-> 5, atlas_id |-> 12, attribute_index |-> 33,
                             attribute_partition_index |-> 3, map_index |-> 7,
                             auxiliary_video_flag |-> 1]
              ELSE [v3c_parameter_set_id |-> 9 + t, atlas_id |-> 20 + t, attribute_index |-> 4,
                    attribute_partition_index |-> 7, map_index |-> 10, auxiliary_video_flag |-> 0]
     IN IF f # "type" /\ <<t, f>> \in DOMAIN HeaderInfo(NewHeader(t))
        THEN h[f] ELSE NewHeader(t)[f]]
SomeInfoGofs ==
  {[ts |-> Unset, sizes |-> [t \in T |-> 1],
    units |-> [t \in T |-> [Unit(t, v, 0) EXCEPT !.header = InfoHeader(t, v)]]] :
     T \in TypeSets({V3C_VPS, V3C_AD, V3C_GVD, V3C_AVD, V3C_PVD, V3C_CAD}), v \in {1, 2}}

ConnectedTypes == {V3C_AD, V3C_OVD, V3C_GVD, V3C_CAD}
SomePortMaps ==
  {[t \in UnitTypes |-> IF t \in ConnectedTypes THEN ports[t] ELSE 10 + t] :
     ports \in [ConnectedTypes -> {1, 2, 3}]}
SomeTypeLists == {SetToSortSeq(T, >) : T \in TypeSets(ConnectedTypes)}
=============================================================================

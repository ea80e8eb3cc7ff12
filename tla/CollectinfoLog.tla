--------------------------- MODULE CollectinfoLog ---------------------------
(* What the collectinfo analyzer loads: the files below its path and in the  *)
(* archives there, and the newest snapshot of those it can read              *)
(* (log_handler.py, collectinfo_log.py, collectinfo_parser.py).              *)
EXTENDS Capture

CONSTANT Faulty   \* names of namespaces that hold a blank: errors, not names

-----------------------------------------------------------------------------
(* Files.  A place is a file, a directory or nothing: [is, files]; a file is *)
(* [is, name, text], an archive a file that holds others: [is, files].       *)

_is_compressed_file(file) == file.is = "archive"
_extract_to(file) == file.files

(* What is in an archive is extracted again when it is one. *)
RECURSIVE _validate_and_extract_compressed_files(_)
_validate_and_extract_compressed_files(files) ==
  LET archives == SelectSeq(files, _is_compressed_file)
      inside == FlattenSeq([i \in DOMAIN archives |-> _extract_to(archives[i])])
  IN  IF inside = <<>> THEN <<>>
      ELSE inside \o _validate_and_extract_compressed_files(inside)

_get_valid_files(files) ==
  SelectSeq(files, LAMBDA file : file.is = "file" /\ file.name \in {".conf", "ascinfo.json",
                                                                    "aslicenseusage.json"})
_get_all_file_paths(place) ==
  LET extracted == _validate_and_extract_compressed_files(
                     IF place.is = "dir" THEN place.files ELSE <<place>>)
  IN  CASE place.is = "file" -> <<place>>
        [] place.is = "archive" -> extracted
        [] place.is = "dir" -> place.files \o _get_valid_files(extracted)

-----------------------------------------------------------------------------
(* Reading them.  The JSON of a dump is timestamp -> cluster -> node -> data *)

_is_valid_collectinfo_json(cinfo_map) ==
  DOMAIN cinfo_map # {} /\ \A ts \in DOMAIN cinfo_map : ts \in Nat /\ ~Falsy(cinfo_map[ts])

Stanza(d, stanza) == IF stanza \in DOMAIN d THEN d[stanza] ELSE Nothing
Parsing == [data |-> Nothing, license |-> Nothing, conf |-> Nothing, timestamps |-> {},
            order |-> <<>>, over |-> FALSE, raised |-> FALSE]
Garbled(p) == [p EXCEPT !.over = TRUE, !.raised = TRUE]
Unreadable(file) == IF file.text = "unreadable" THEN Nothing ELSE file.json
(* The first dump that is none ends the parsing, whatever files follow. *)
ParseDump(p, file) ==
  IF file.text = "garbled" THEN Garbled(p)
  ELSE IF ~_is_valid_collectinfo_json(Unreadable(file)) THEN [p EXCEPT !.over = TRUE]
  ELSE [p EXCEPT !.data = file.json @@ @, !.timestamps = DOMAIN file.json,
                 !.order = @ \o SelectSeq(SetToSortSeq(DOMAIN file.json, <),
                                          LAMBDA ts : ts \notin DOMAIN p.data)]
ParseLicense(p, file) ==
  IF file.text = "garbled" THEN Garbled(p) ELSE [p EXCEPT !.license = Unreadable(file) @@ @]
ParseJson(p, file) ==
  IF p.over \/ file.is = "archive" THEN p
  ELSE CASE file.name = "ascinfo.json" -> ParseDump(p, file)
         [] file.name = "aslicenseusage.json" -> ParseLicense(p, file)
         [] OTHER -> p
ParseConf(p, file) ==
  IF file.is = "file" /\ file.name = ".conf" THEN [p EXCEPT !.conf = file.json] ELSE p

(* The node whose host the data of the system is of, by its id. *)
InOrder(nodes) == SelectSeq(NODES, LAMBDA n : n \in nodes)
FirstOf(clusters) == clusters[CHOOSE cl \in DOMAIN clusters : TRUE]
_create_node_ip_map(p) ==
  FoldLeft(LAMBDA ids, nodes :
             LET id(n) == Stanza(nodes[n].as_stat["meta_data"], "node_id")
                 with == {n \in DOMAIN nodes : ~Falsy(id(n))}
             IN  [i \in {id(n)[1] : n \in with} |-> CHOOSE n \in with : id(n)[1] = i] @@ ids,
           Nothing, [i \in DOMAIN p.order |-> FirstOf(p.data[p.order[i]])])
_get_sys_map(p) ==
  FoldLeft(LAMBDA map, nodes :
             LET with == SelectSeq(InOrder(DOMAIN nodes), LAMBDA n : ~Falsy(nodes[n].sys_stat))
             IN  IF Falsy(map) /\ with # <<>> THEN nodes[Head(with)].sys_stat ELSE map,
           Nothing, [i \in DOMAIN p.order |-> FirstOf(p.data[p.order[i]])])
_match_nodeip(sys_map, known_ips) ==
  {n \in Range(known_ips) : "uname" \in DOMAIN sys_map /\ sys_map["uname"] = <<n>>}

(* The configuration file is of the node that matches, in the timestamps of  *)
(* the dump that was read last; what the dump has itself stays.  A node of   *)
(* which not even that is known keeps it from all.                           *)
_merge_samelevel_maps(main_map, from_map) == main_map @@ from_map
_merge_nodelevel_map_to_mainmap(nodes, of, conf) ==
  [n \in DOMAIN nodes |->
   IF n \notin of THEN nodes[n]
   ELSE [nodes[n] EXCEPT !.as_stat =
           ("original_config" :> _merge_samelevel_maps(Stanza(@, "original_config"), conf)) @@ @]]
_add_missing_config_data(p) ==
  LET known == \A i \in DOMAIN p.order : \A n \in DOMAIN FirstOf(p.data[p.order[i]]) :
                 "meta_data" \in DOMAIN FirstOf(p.data[p.order[i]])[n].as_stat
      of == _match_nodeip(_get_sys_map(p), _create_node_ip_map(p))
  IN  IF ~known THEN p
      ELSE [p EXCEPT !.data = [ts \in DOMAIN @ |->
              IF ts \notin p.timestamps THEN @[ts]
              ELSE [cl \in DOMAIN @[ts] |->
                    _merge_nodelevel_map_to_mainmap(@[ts][cl], of, p.conf)]]]
parse_collectinfo_files(files) ==
  LET read == FoldLeft(ParseJson, Parsing, files)
  IN  IF read.over THEN read
      ELSE _add_missing_config_data(FoldLeft(ParseConf, read, files))

-----------------------------------------------------------------------------
(* The snapshot *)

(* Deleting from what is iterated over raises: the first fault found is the  *)
(* last that is corrected.                                                   *)
_ns_faults(node, type) ==
  IF "namespace" \in DOMAIN node.as_stat[type]
  THEN DOMAIN node.as_stat[type]["namespace"] \cap Faulty ELSE {}
_without_ns(node, type, ns) ==
  [node EXCEPT !.as_stat[type]["namespace"] = Restrict(@, DOMAIN @ \ {ns})]
ns_name_fault_check(nodes) ==
  LET faults(n) == SelectSeq(<<"config", "statistics">>, LAMBDA type :
                     type \in DOMAIN nodes[n].as_stat /\ _ns_faults(nodes[n], type) # {})
      faulty == SelectSeq(InOrder(DOMAIN nodes), LAMBDA n : faults(n) # <<>>)
  IN  IF faulty = <<>> THEN nodes
      ELSE LET n == Head(faulty)  type == Head(faults(n))
           IN  [nodes EXCEPT ![n] =
                  _without_ns(@, type, CHOOSE ns \in _ns_faults(@, type) : TRUE)]

(* Of all timestamps the newest one that has anything, of its clusters the   *)
(* last that has nodes.                                                      *)
CollectinfoLog_(data) ==
  LET filled == {ts \in DOMAIN data : ~Falsy(data[ts])}
      newest == CHOOSE ts \in filled : \A other \in filled : other <= ts
      clusters == {cl \in DOMAIN data[newest] : ~Falsy(data[newest][cl])}
  IN  IF filled = {} \/ clusters = {} THEN Nothing
      ELSE LET cl == CHOOSE cl \in clusters : TRUE
           IN  [timestamp |-> newest, cluster_name |-> cl,
                cinfo_data |-> ns_name_fault_check(data[newest][cl])]

-----------------------------------------------------------------------------
(* What the snapshot has of a node: the stanza of a type.  A node without    *)
(* the type is left out, one without the stanza has nothing.                 *)

InNamespaces == {"namespace", "namespace_list", "bin", "bins", "set", "sindex"}
OfNamespaces(d, stanza) ==
  CASE stanza = "namespace_list" -> d
    [] stanza = "namespace" ->
         [ns \in {ns \in DOMAIN d : "service" \in DOMAIN d[ns]} |-> d[ns]["service"]]
    [] stanza \in {"bin", "bins"} ->
         [ns \in {ns \in DOMAIN d : stanza \in DOMAIN d[ns]} |-> d[ns][stanza]]
    [] stanza = "set" ->
         [key \in UNION {{<<ns, name>> : name \in DOMAIN d[ns]["set"]} :
                         ns \in {ns \in DOMAIN d : "set" \in DOMAIN d[ns]}} |->
          d[key[1]]["set"][key[2]]]
    [] stanza = "sindex" ->
         [key \in UNION {{<<ns, d[ns]["sindex"][name]["set"][1], name>> :
                            name \in {i \in DOMAIN d[ns]["sindex"] :
                                      "set" \in DOMAIN d[ns]["sindex"][i]}} :
                         ns \in {ns \in DOMAIN d : "sindex" \in DOMAIN d[ns]}} |->
          d[key[1]]["sindex"][key[3]]]
(* An old server has no sizes in bytes. *)
is_new_histogram_version(build) == build >= 42
ObjectSize(node, d) ==
  LET build == Stanza(Stanza(node.as_stat, "meta_data"), "asd_build")
  IN  IF "object-size" \in DOMAIN d THEN d["object-size"]
      ELSE IF ~Falsy(build) /\ ~is_new_histogram_version(build[1]) THEN Stanza(d, "objsz")
      ELSE Nothing
get_data(nodes, type, stanza) ==
  [n \in {n \in DOMAIN nodes : type \in DOMAIN nodes[n].as_stat} |->
   LET d == nodes[n].as_stat[type]
   IN  CASE stanza = "" -> d
         [] stanza \in InNamespaces -> OfNamespaces(Stanza(d, "namespace"), stanza)
         [] type = "histogram" /\ stanza = "object-size" -> ObjectSize(nodes[n], d)
         [] OTHER -> Stanza(d, stanza)]
get_node_names(nodes) == DOMAIN nodes

(* The builds of the nodes; one that is not known is not in the result. *)
get_asd_build(nodes) ==
  LET builds == get_data(nodes, "meta_data", "asd_build")
  IN  [n \in {n \in DOMAIN builds : ~Falsy(builds[n])} |-> builds[n][1]]
=============================================================================

-------------------------------- MODULE Manage --------------------------------
(***************************************************************************)
(* The commands that change a cluster                                      *)
(* (lib/live_cluster/manage_controller.py), one operator per controller.   *)
(* A controller with commands of its own picks one by the next word and    *)
(* prints its help when there is none; the others read their arguments,    *)
(* may read the cluster, may ask the user, and send the change.            *)
(***************************************************************************)
EXTENDS Commands

CONSTANTS UdfFiles,  \* the paths that are files
          Numbers,   \* the words that are whole numbers
          Times,     \* the words that are a time a truncation may be told
          CtxItems   \* the words that are an item of an index's context

(* What a change came to at the principal.  A refusal of the server is
   printed and the command ends; anything else is raised. *)
AtPrincipal(c, request, done) ==
  Call(c, {Principal}, LAMBDA n : request, LAMBDA d, answers :
    CASE answers[Principal].came = "ok"      -> End(d, done)
      [] answers[Principal].came = "refused" -> End(d, <<Complain>>)
      [] OTHER -> End(d, <<Raise>>))
(* The two commands for secondary indexes raise both. *)
AtPrincipalOrRaise(c, request) ==
  Call(c, {Principal}, LAMBDA n : request, LAMBDA d, answers :
    IF answers[Principal].came = "ok" THEN End(d, <<Tell("success")>>) ELSE End(d, <<Raise>>))
(* Mutated: a refusal counts as an answer. *)
AtNodesUnheeded(c, requests, hint) ==
  Call(c, c.nodes, LAMBDA n : requests[n], LAMBDA d, answers :
    End(d, <<Shows("table", DOMAIN answers \ Came(answers, "lost"))>> \o hint))
(* A change at several nodes ends in a table of what each answered. *)
AtNodes(c, requests, hint) ==
  Call(c, c.nodes, LAMBDA n : requests[n], LAMBDA d, answers :
    End(d, <<Shows("table", Came(answers, "ok"))>> \o hint))
Success == <<Tell("success")>>
Recluster == <<Tell("run recluster")>>

------------------------------------------------------------------------------
(* Users and roles *)
ManageACLCreateUserController(c) ==
  pre_command(c, {"line"}, {"password", "roles"}, LAMBDA d :
    Given(get_arg_and_delete_from_mods(Popped(d), "password", d.keys), LAMBDA e :
      Confirm(e, e.warn, <<>>,
              AtPrincipal(e, admin_create_user(Word(d)), Success))))
ManageACLDeleteUserController(c) ==
  pre_command(c, {"line"}, {}, LAMBDA d :
    Confirm(d, d.warn, <<>>, AtPrincipal(d, admin_delete_user(Word(d)), Success)))

(* A password that is not in the line is asked for, without an echo. *)
PasswordOf(c, word) == IF Has(c, word) THEN OneOf(c, word) ELSE "typed"
ManageACLSetPasswordUserController(c) ==
  pre_command(c, {"line"}, {"password"}, LAMBDA d :
    Given(get_arg_and_delete_from_mods(d, "user", {"line"}), LAMBDA e :
      Confirm(e, e.warn, <<>>, AtPrincipal(e,
        admin_set_password(e.args["user"], PasswordOf(e, "password")), Success))))
ManageACLChangePasswordUserController(c) ==
  pre_command(c, {"user"}, {"old", "new"}, LAMBDA d :
    Given(get_arg_and_delete_from_mods(d, "user", {"user"}), LAMBDA e :
      Confirm(e, e.warn, <<>>, AtPrincipal(e,
        admin_change_password(e.args["user"], PasswordOf(e, "new")), Success))))

ManageACLGrantUserController(c) ==
  pre_command(c, {"line", "roles"}, {}, LAMBDA d :
    Confirm(d, d.warn, <<>>, AtPrincipal(d,
      admin_grant_roles(Word(d), Mod(d, "roles")), Success)))
ManageACLRevokeUserController(c) ==
  pre_command(c, {"line", "roles"}, {}, LAMBDA d :
    Confirm(d, d.warn, <<>>, AtPrincipal(d,
      admin_revoke_roles(Word(d), Mod(d, "roles")), Success)))

(* Quotas need a version; an answer that is no version cannot be compared
   and ends the command. *)
_supports_quotas(c, Then(_, _)) ==
  Call(c, {Principal}, LAMBDA n : info_build, LAMBDA d, answers :
    IF answers[Principal].came # "ok" THEN End(d, <<Raise>>)
    ELSE Then(d, AtLeast(Principal, SERVER_QUOTAS_FIRST_VERSION)))

(* The scope of a privilege; a set has no meaning without its namespace. *)
Privilege(c) ==
  OneOf(c, "priv")
    \o (IF Has(c, "ns") THEN "." \o OneOf(c, "ns") ELSE "")
    \o (IF Has(c, "ns") /\ Has(c, "set") THEN "." \o OneOf(c, "set") ELSE "")
SetWithoutNamespace(c) == Has(c, "set") /\ ~Has(c, "ns")
(* A quota that is given is a whole number. *)
WholeNumbers(quotas) == ToSet(quotas) \ {""} \subseteq Numbers

ManageACLCreateRoleController(c) ==
  LET required == {"line", "priv"}
      modifiers == {"ns", "set", "allow", "read", "write"}
      create(d) ==
        IF ~WholeNumbers(<<OneOf(d, "read"), OneOf(d, "write")>>) \/ SetWithoutNamespace(d)
        THEN End(d, <<Complain>>)
        ELSE Confirm(d, d.warn, <<>>,
                     AtPrincipal(d, admin_create_role(Word(d)), Success))
  IN WithGroups(c, required, modifiers,
                parse_modifiers_of(c.line, required \union modifiers, "priv"), LAMBDA d :
       IF ~Has(d, "read") /\ ~Has(d, "write") THEN create(d)
       ELSE _supports_quotas(d, LAMBDA e, supported :
              IF supported THEN create(e) ELSE First(Warn, create(e))))
ManageACLDeleteRoleController(c) ==
  pre_command(c, {"line"}, {}, LAMBDA d :
    Confirm(d, d.warn, <<>>, AtPrincipal(d, admin_delete_role(Word(d)), Success)))
PrivilegeChange(c, request(_)) ==
  pre_command(c, {"line", "priv"}, {"ns", "set"}, LAMBDA d :
    IF SetWithoutNamespace(d) THEN End(d, <<Tell("help"), Complain>>)
    ELSE Confirm(d, d.warn, <<>>, AtPrincipal(d, request(d), Success)))
ManageACLGrantRoleController(c) ==
  PrivilegeChange(c, LAMBDA d : admin_add_privileges(Word(d), Privilege(d)))
ManageACLRevokeRoleController(c) ==
  PrivilegeChange(c, LAMBDA d : admin_delete_privileges(Word(d), Privilege(d)))

ManageACLAllowListRoleController(c) ==
  pre_command(c, {"role"}, {"clear", "allow"}, LAMBDA d :
    Given(get_arg_and_delete_from_mods(d, "role", {"role"}), LAMBDA e :
      Given(check_arg_and_delete_from_mods(e, "clear", e.keys), LAMBDA f :
        LET request(role) == IF check_arg(e, "clear") THEN admin_delete_whitelist(role)
                             ELSE admin_set_whitelist(role, Mod(f, "allow"))
        IN IF ~check_arg(e, "clear") /\ ~Has(f, "allow") THEN End(f, <<Tell("help"), Complain>>)
           ELSE Confirm(f, f.warn, <<>>,
                        AtPrincipal(f, request(e.args["role"]), Success)))))
ManageACLQuotasRoleController(c) ==
  LET required == {"role"}  modifiers == {"read", "write"}
      set(d) ==
        Given(get_arg_and_delete_from_mods(d, "role", required), LAMBDA e :
          Given(Taking(e, <<"read", "write">>, modifiers), LAMBDA f :
            LET quotas == <<f.args["read"], f.args["write"]>> IN
            IF quotas = <<"", "">> \/ ~WholeNumbers(quotas) THEN End(f, <<Complain>>)
            ELSE Confirm(f, f.warn, <<>>, AtPrincipal(f,
                   admin_set_quotas(f.args["role"], quotas), Success))))
  IN WithGroups(c, required, modifiers,
                parse_modifiers_of(c.line, required \union modifiers, "role"), LAMBDA d :
       _supports_quotas(d, LAMBDA e, supported :
         IF supported THEN set(e) ELSE End(e, <<Complain>>)))

ManageACLCreateController(c) ==
  CASE Word(c) = "user" -> ManageACLCreateUserController(Popped(c))
    [] Word(c) = "role" -> ManageACLCreateRoleController(Popped(c))
    [] OTHER -> execute_help(c)
ManageACLDeleteController(c) ==
  CASE Word(c) = "user" -> ManageACLDeleteUserController(Popped(c))
    [] Word(c) = "role" -> ManageACLDeleteRoleController(Popped(c))
    [] OTHER -> execute_help(c)
ManageACLGrantController(c) ==
  CASE Word(c) = "user" -> ManageACLGrantUserController(Popped(c))
    [] Word(c) = "role" -> ManageACLGrantRoleController(Popped(c))
    [] OTHER -> execute_help(c)
ManageACLRevokeController(c) ==
  CASE Word(c) = "user" -> ManageACLRevokeUserController(Popped(c))
    [] Word(c) = "role" -> ManageACLRevokeRoleController(Popped(c))
    [] OTHER -> execute_help(c)
ManageACLController(c) ==
  CASE Word(c) = "create" -> ManageACLCreateController(Popped(c))
    [] Word(c) = "delete" -> ManageACLDeleteController(Popped(c))
    [] Word(c) = "grant"  -> ManageACLGrantController(Popped(c))
    [] Word(c) = "revoke" -> ManageACLRevokeController(Popped(c))
    [] Word(c) = "set-password"    -> ManageACLSetPasswordUserController(Popped(c))
    [] Word(c) = "change-password" -> ManageACLChangePasswordUserController(Popped(c))
    [] Word(c) = "allowlist" -> ManageACLAllowListRoleController(Popped(c))
    [] Word(c) = "quotas"    -> ManageACLQuotasRoleController(Popped(c))
    [] OTHER -> execute_help(c)

------------------------------------------------------------------------------
(* User defined functions, secondary indexes *)
ManageUdfsAddController(c) ==
  pre_command(c, {"line", "path"}, {}, LAMBDA d :
    LET udf == Word(d)
        put(e) == AtPrincipal(e, info_udf_put(udf), Success)
    IN IF OneOf(d, "path") \notin UdfFiles THEN End(d, <<Complain>>)
       ELSE IF ~d.warn THEN put(d)
       ELSE Call(d, {Principal}, LAMBDA n : info_udf_list, LAMBDA e, answers :
              IF answers[Principal].came # "ok" THEN End(e, <<Raise>>)
              ELSE Confirm(e, Contains(LastVal(answers, Principal), udf), <<>>, put(e))))
ManageUdfsRemoveController(c) ==
  pre_command(c, {"line"}, {}, LAMBDA d :
    Confirm(d, d.warn, <<>>, AtPrincipal(d, info_udf_remove(Word(d)), Success)))
ManageUdfsController(c) ==
  CASE Word(c) = "add"    -> ManageUdfsAddController(Popped(c))
    [] Word(c) = "remove" -> ManageUdfsRemoveController(Popped(c))
    [] OTHER -> execute_help(c)

(* A bin type is a command of its own.  An index into a collection needs a
   version at every node of the cluster. *)
_list_to_cdt_ctx(words) == ToSet(words) \subseteq CtxItems
ManageSIndexCreateController(c) ==
  LET create(d) ==
        Confirm(d, d.warn, <<>>, AtPrincipalOrRaise(d, info_sindex_create(Word(d))))
  IN IF Word(c) \notin {"numeric", "string", "geo2dsphere"} THEN execute_help(c)
     ELSE pre_command(Popped(c), {"line", "ns", "bin"}, {"set", "in", "ctx"}, LAMBDA d :
            IF ~Has(d, "ctx") THEN create(d)
            ELSE Call(d, d.nodes, LAMBDA n : info_build, LAMBDA e, answers :
                   IF /\ Came(answers, "ok") = DOMAIN answers
                      /\ \A n \in e.nodes : AtLeast(n, SERVER_SINDEX_ON_CDT_FIRST_VERSION)
                      /\ _list_to_cdt_ctx(Mod(e, "ctx"))
                   THEN create(e) ELSE End(e, <<Raise>>)))
ManageSIndexDeleteController(c) ==
  pre_command(c, {"line", "ns"}, {"set"}, LAMBDA d :
    LET delete(e) == AtPrincipalOrRaise(e, info_sindex_delete(Word(e))) IN
    IF ~d.warn THEN delete(d)
    ELSE Call(d, d.nodes,
              LAMBDA n : WhenLost("without", info_sindex_statistics(Word(d))) \o info_build,
              LAMBDA e, answers : IF Came(answers, "ok") # DOMAIN answers THEN End(e, <<Raise>>)
                                  ELSE Confirm(e, TRUE, <<>>, delete(e))))
ManageSIndexController(c) ==
  CASE Word(c) = "create" -> ManageSIndexCreateController(Popped(c))
    [] Word(c) = "delete" -> ManageSIndexDeleteController(Popped(c))
    [] OTHER -> execute_help(c)

------------------------------------------------------------------------------
(* Configuration.  The prompt names the nodes the change is for, as they are
   found when it is shown. *)
ConfigLeaf(c, required, extra, request(_, _), hint) ==
  pre_command(c, required, {"with"} \union extra, LAMBDA d :
    Given(Taking(d, SetToSeq(required \union extra), required), LAMBDA e :
      Confirm(e, e.warn, SetToSeq(e.nodes), AtNodes(e, [n \in e.nodes |-> request(e, n)], hint))))
ParamTo == {"param", "to"}
Param(c) == c.args["param"]
Value(c) == c.args["to"]
(* A first word that is no modifier is a part of the section. *)
Subcontext(c) == IF Word(c) \in ParamTo \union {"with"} THEN "" ELSE Word(c)

ManageConfigLoggingController(c) ==
  ConfigLeaf(c, ParamTo \union {"file"}, {},
             LAMBDA d, n : info_set_config_logging(Param(d), Value(d)), <<>>)
ManageConfigServiceController(c) ==
  ConfigLeaf(c, ParamTo, {}, LAMBDA d, n : info_set_config_service(Param(d), Value(d)),
             IF fetch_argument(c.line, "param", "") = "cluster-name" THEN Recluster ELSE <<>>)
ManageConfigNetworkController(c) ==
  pre_command(c, ParamTo, {"with"}, LAMBDA d :
    Given(Taking(d, <<"param", "to">>, ParamTo), LAMBDA e :
      IF Subcontext(e) = "" THEN End(e, <<Tell("help"), Complain>>)
      ELSE Confirm(e, e.warn, SetToSeq(e.nodes), AtNodes(e,
             [n \in e.nodes |-> info_set_config_network(Subcontext(e) \o "." \o Param(e), Value(e))], <<>>))))
ManageConfigSecurityController(c) ==
  ConfigLeaf(c, ParamTo, {}, LAMBDA d, n :
    info_set_config_security(Subcontext(d) \o Param(d), Value(d)), <<>>)
ManageConfigNamespaceSetController(c) ==
  pre_controller(c, "set", ParamTo \union {"with"}, LAMBDA d :
    ConfigLeaf(d, ParamTo, {}, LAMBDA e, n :
      info_set_config_namespace(OneOf(e, "namespace") \o " " \o OneOf(e, "set"), Param(e), Value(e)),
      <<>>))
ManageConfigNamespaceController(c) ==
  pre_controller(c, "namespace", ParamTo \union {"with"}, LAMBDA d :
    IF Word(d) = "set" THEN ManageConfigNamespaceSetController(Popped(d))
    ELSE ConfigLeaf(d, ParamTo, {}, LAMBDA e, n :
           info_set_config_namespace(OneOf(e, "namespace"), Subcontext(e) \o Param(e), Value(e)),
           IF fetch_argument(d.line, "param", "") \in {"prefer-uniform-balance", "rack-id"} THEN Recluster ELSE <<>>))

ManageConfigXDRCreateController(c) ==
  ConfigLeaf(c, {"dc"}, {}, LAMBDA d, n : info_set_config_xdr_create_dc(n, d.args["dc"]), <<>>)
ManageConfigXDRDeleteController(c) ==
  ConfigLeaf(c, {"dc"}, {}, LAMBDA d, n : info_set_config_xdr_delete_dc(n, d.args["dc"]), <<>>)
ManageConfigXDRDCAddNodeController(c) ==
  pre_controller(c, "node", {"with"}, LAMBDA d :
    ConfigLeaf(d, {}, {}, LAMBDA e, n :
      info_set_config_xdr_add_node(n, OneOf(e, "dc"), OneOf(e, "node")), <<>>))
(* With a rewind, the user is asked once about it and once without it. *)
ManageConfigXDRDCAddNamespaceController(c) ==
  pre_controller(c, "namespace", {"with", "rewind"}, LAMBDA d :
    LET add == ConfigLeaf(d, {}, {"rewind"}, LAMBDA e, n :
                 info_set_config_xdr_add_namespace(n, OneOf(e, "dc"), OneOf(e, "namespace")), <<>>)
    IN Confirm(d, d.warn /\ fetch_argument(d.line, "rewind", "") # "", <<>>, add))
ManageConfigXDRDCAddController(c) ==
  CASE Word(c) = "node"      -> ManageConfigXDRDCAddNodeController(Popped(c))
    [] Word(c) = "namespace" -> ManageConfigXDRDCAddNamespaceController(Popped(c))
    [] OTHER -> execute_help(c)
ManageConfigXDRDCRemoveNodeController(c) ==
  pre_controller(c, "node", {"with"}, LAMBDA d :
    ConfigLeaf(d, {}, {}, LAMBDA e, n :
      info_set_config_xdr_remove_node(n, OneOf(e, "dc"), OneOf(e, "node")), <<>>))
ManageConfigXDRDCRemoveNamespaceController(c) ==
  pre_controller(c, "namespace", {"with"}, LAMBDA d :
    ConfigLeaf(d, {}, {}, LAMBDA e, n :
      info_set_config_xdr_remove_namespace(n, OneOf(e, "dc"), OneOf(e, "namespace")), <<>>))
ManageConfigXDRDCRemoveController(c) ==
  CASE Word(c) = "node"      -> ManageConfigXDRDCRemoveNodeController(Popped(c))
    [] Word(c) = "namespace" -> ManageConfigXDRDCRemoveNamespaceController(Popped(c))
    [] OTHER -> execute_help(c)
ManageConfigXDRDCNamespaceController(c) ==
  pre_controller(c, "namespace", ParamTo \union {"with"}, LAMBDA d :
    ConfigLeaf(d, ParamTo, {}, LAMBDA e, n :
      info_set_config_xdr(OneOf(e, "dc") \o " " \o OneOf(e, "namespace"), Param(e), Value(e)), <<>>))
ManageConfigXDRDCController(c) ==
  pre_controller(c, "dc", ParamTo \union {"with"}, LAMBDA d :
    CASE Word(d) = "namespace" -> ManageConfigXDRDCNamespaceController(Popped(d))
      [] Word(d) = "add"       -> ManageConfigXDRDCAddController(Popped(d))
      [] Word(d) = "remove"    -> ManageConfigXDRDCRemoveController(Popped(d))
      [] OTHER -> ConfigLeaf(d, ParamTo, {}, LAMBDA e, n :
                    info_set_config_xdr(OneOf(e, "dc"), Param(e), Value(e)), <<>>))
ManageConfigXDRController(c) ==
  CASE Word(c) = "dc"     -> ManageConfigXDRDCController(Popped(c))
    [] Word(c) = "create" -> ManageConfigXDRCreateController(Popped(c))
    [] Word(c) = "delete" -> ManageConfigXDRDeleteController(Popped(c))
    [] OTHER -> ConfigLeaf(c, ParamTo, {}, LAMBDA d, n :
                  info_set_config_xdr("", Param(d), Value(d)), <<>>)
ManageConfigController(c) ==
  CASE Word(c) = "logging"   -> ManageConfigLoggingController(Popped(c))
    [] Word(c) = "service"   -> ManageConfigServiceController(Popped(c))
    [] Word(c) = "network"   -> ManageConfigNetworkController(Popped(c))
    [] Word(c) = "security"  -> ManageConfigSecurityController(Popped(c))
    [] Word(c) = "namespace" -> ManageConfigNamespaceController(Popped(c))
    [] Word(c) = "xdr"       -> ManageConfigXDRController(Popped(c))
    [] OTHER -> execute_help(c)

------------------------------------------------------------------------------
(* Truncation.  Unless told not to, it counts the records before it asks; a
   node that cannot be counted ends the command. *)
Counted(c, ns, set) ==
  Call(c, Node,
       LAMBDA n : (IF set = "" THEN info_namespace_statistics(ns) ELSE info_set_statistics(ns, set))
                    \o IF set # "" /\ n = Principal THEN info_namespace_statistics(ns) ELSE <<>>,
       LAMBDA d, answers : IF Came(answers, "ok") = Node THEN Reached(d, TRUE)
                           ELSE End(d, <<Raise>>))
(* "before" is a time and its unit, in any order. *)
_parse_lut(c) ==
  LET units == SelectSeq(Mod(c, "before"), LAMBDA w : w \in {"unix-epoch", "iso-8601"})
  IN ~Has(c, "before") \/ /\ Len(Mod(c, "before")) = 2 /\ units # <<>>
                          /\ RemoveFirst(Mod(c, "before"), Head(units))[1] \in Times
Unrecognized(c) ==
  \/ Has(c, "line") \/ Len(Mod(c, "ns")) > 1
  \/ Len(Mod(c, "set")) # 1 /\ Contains(c.line, "set")
  \/ Len(Mod(c, "before")) # 2 /\ Contains(c.line, "before")
ManageTruncateController(c) ==
  pre_command(c, {"ns"}, {"set", "before", "undo"}, LAMBDA d :
    LET warn == ~check_arg(d, "--no-warn")
        truncate(f) ==
          LET ns == OneOf(f, "ns")  set == f.args["set"]  undo == check_arg(f, "undo")
              send(g) == AtPrincipal(g, IF undo THEN info_truncate_undo(Principal, ns, set)
                                        ELSE info_truncate(Principal, ns, set), Success)
          IN IF undo /\ Has(f, "before") THEN End(f, <<Tell("help"), Complain>>)
             ELSE IF ~_parse_lut(f) THEN End(f, <<Raise>>)
             ELSE Joined(IF warn /\ ~undo THEN Counted(f, ns, set) ELSE Reached(f, TRUE),
                         LAMBDA g, ok : Confirm(g, warn, <<>>, send(g)))
    IN Given(check_arg_and_delete_from_mods(d, "--no-warn", d.keys), LAMBDA e :
         IF Unrecognized(e) THEN End(e, <<Complain>>)
         ELSE Given(get_arg_and_delete_from_mods(e, "set", {"ns"}), truncate)))

(* Quiescing, reviving, reclustering *)
ManageReclusterController(c) ==
  pre_command(c, {}, {}, LAMBDA d : AtPrincipal(d, info_recluster, Success))
ManageQuiesceController(c) ==
  pre_command(c, {"with"}, {"undo"}, LAMBDA d :
    Given(check_arg_and_delete_from_mods(d, "undo", d.keys), LAMBDA e :
      Confirm(e, e.warn, <<>>,
              AtNodes(e, [n \in e.nodes |-> IF check_arg(d, "undo") THEN info_quiesce_undo
                                            ELSE info_quiesce], Recluster))))
ManageReviveUnasked(c) ==
  pre_command(c, {"ns"}, {"with"}, LAMBDA d :
    AtNodes(d, [n \in d.nodes |-> info_revive(OneOf(d, "ns"))], Recluster))
ManageReviveController(c) ==
  pre_command(c, {"ns"}, {"with"}, LAMBDA d :
    Confirm(d, d.warn, <<>>, AtNodes(d, [n \in d.nodes |-> info_revive(OneOf(d, "ns"))], Recluster)))

------------------------------------------------------------------------------
(* The roster.  The principal's roster and the stability of the cluster are
   read at once; the whole new roster is shown, and written if confirmed. *)
(* The answers are gone through in turn, up to one that says the cluster is
   unstable, an error, or one unlike the answer before it; a lost answer is
   like no other, but an only one differs from none. *)
_check_and_log_cluster_stable(answers) ==
  LET nodes == SetToSeq(DOMAIN answers)
      keys == [i \in DOMAIN nodes |-> Last(Last(answers[nodes[i]]).vals)]
      differs(i) == i > 1 /\ (keys[i] = <<>> \/ keys[i] # keys[i - 1])
      telling == {i \in DOMAIN keys :
                    keys[i] \in {<<"unstable-cluster">>, <<"error">>} \/ differs(i)}
  IN CASE telling = {} -> "stable"
       [] telling # {} /\ keys[Min(telling)] = <<"error">> -> "raises"
       [] OTHER -> "unstable"
_check_and_log_nodes_in_observed(observed, nodes) == ToSet(nodes) \subseteq ToSet(observed)
(* The stability matters only to a command that asks. *)
ReadRoster(c, roster, checked, Then(_, _, _)) ==
  CallAll(c, c.nodes,
          LAMBDA n : (IF n = Principal THEN <<roster>> ELSE <<>>)
                       \o <<WhenLost("without", info_cluster_stable)>>,
          LAMBDA d, answers :
            IF \/ answers[Principal][1].came # "ok"
               \/ checked /\ _check_and_log_cluster_stable(answers) = "raises"
            THEN End(d, <<Raise>>)
            ELSE Then(d, answers[Principal][1].vals,
                      _check_and_log_cluster_stable(answers) = "stable"))
SetRoster(c, asked, roster) ==
  Confirm(c, asked, roster,
          AtPrincipal(c, info_roster_set(OneOf(c, "ns"), roster), Success \o Recluster))

(* A roster that is read holds what is pending, then what is observed. *)
Roster(c) == info_roster_namespace(OneOf(c, "ns")) \o info_roster_observed(OneOf(c, "ns"))
Warnings(warn, fine, plan) == IF warn /\ ~fine THEN First(Warn, plan) ELSE plan
ManageRosterAddReplaces(c) ==
  pre_command(c, {"nodes", "ns"}, {}, LAMBDA d :
    ReadRoster(d, Roster(d), TRUE, LAMBDA f, read, stable :
      SetRoster(f, TRUE, Mod(f, "nodes"))))
ManageRosterAddController(c) ==
  pre_command(c, {"nodes", "ns"}, {}, LAMBDA d :
    LET warn == ~check_arg(d, "--no-warn") IN
    Given(check_arg_and_delete_from_mods(d, "--no-warn", d.keys), LAMBDA e :
       ReadRoster(e, Roster(e), warn, LAMBDA f, read, stable :
         Warnings(warn, stable /\ _check_and_log_nodes_in_observed(read[2], Mod(f, "nodes")),
                  SetRoster(f, warn, read[1] \o Mod(f, "nodes"))))))
ManageRosterRemoveController(c) ==
  pre_command(c, {"nodes", "ns"}, {}, LAMBDA d :
    LET warn == ~check_arg(d, "--no-warn") IN
    Given(check_arg_and_delete_from_mods(d, "--no-warn", d.keys), LAMBDA e :
       ReadRoster(e, Roster(e), warn, LAMBDA f, read, stable :
         Warnings(warn, stable /\ ToSet(Mod(f, "nodes")) \subseteq ToSet(read[1]),
                  SetRoster(f, warn, FoldLeft(RemoveFirst, read[1], Mod(f, "nodes")))))))
ManageRosterStageNodesController(c) ==
  pre_command(c, {"line", "ns"}, {}, LAMBDA d :
    LET warn == ~check_arg(d, "--no-warn") IN
    Given(check_arg_and_delete_from_mods(d, "--no-warn", d.keys), LAMBDA e :
       IF ~warn THEN SetRoster(e, FALSE, Mod(e, "line"))
       ELSE ReadRoster(e, Roster(e), TRUE, LAMBDA f, read, stable :
              Warnings(TRUE, stable /\ _check_and_log_nodes_in_observed(read[2], Mod(f, "line")),
                       SetRoster(f, TRUE, Mod(f, "line"))))))
ManageRosterStageObservedController(c) ==
  pre_command(c, {"ns"}, {}, LAMBDA d :
    ReadRoster(d, Roster(d), TRUE, LAMBDA e, read, stable :
      Warnings(TRUE, stable, SetRoster(e, ~stable \/ e.warn, read[2]))))
ManageRosterStageController(c) ==
  CASE Word(c) = "nodes"    -> ManageRosterStageNodesController(Popped(c))
    [] Word(c) = "observed" -> ManageRosterStageObservedController(Popped(c))
    [] OTHER -> End(c, <<Raise>>)
ManageRosterController(c) ==
  CASE Word(c) = "add"    -> ManageRosterAddController(Popped(c))
    [] Word(c) = "remove" -> ManageRosterRemoveController(Popped(c))
    [] Word(c) = "stage"  -> ManageRosterStageController(Popped(c))
    [] OTHER -> execute_help(c)

------------------------------------------------------------------------------
(* Jobs.  The user is asked before the jobs are looked up. *)
JobModules == <<"scan", "query", "sindex-builder">>
GetJobs(n) ==
  WhenLost("without", info_scan_show(n) \o info_query_show(n) \o info_jobs("sindex-builder"))
(* A transaction is ended at every node that has it, in the first module in
   which any node has it. *)
_kill_trid(n, module, trid) ==
  CASE module = "scan"  -> info_scan_abort(n, trid)
    [] module = "query" -> info_query_abort(n, trid)
    [] OTHER            -> info_jobs_kill(module, trid)
KillsAt(n, trids, answers) ==
  FlattenSeq([i \in DOMAIN trids |->
    LET runs(m, j) == Contains(answers[m].vals[j], trids[i])
        first == SelectInSeq(<<1, 2, 3>>, LAMBDA j : \E m \in Node : runs(m, j))
    IN IF first # 0 /\ runs(n, first)
       THEN <<_kill_trid(n, JobModules[first], trids[i])>> ELSE <<>>])
ManageJobsKillTridController(c) ==
  pre_command(c, {"line"}, {}, LAMBDA d :
    Confirm(d, d.warn, <<>>,
      Call(d, Node, GetJobs, LAMBDA e, answers :
        LET trids == Mod(e, "line")
            at == {n \in Node : KillsAt(n, trids, answers) # <<>>}
        IN IF at = {} THEN End(e, <<Complain, Shows("table", {})>>)
           ELSE CallAll(e, at, LAMBDA n : KillsAt(n, trids, answers), LAMBDA f, kills :
                  End(f, <<Shows("table", {n \in at : \A i \in DOMAIN kills[n] :
                                             kills[n][i].came = "ok"})>>)))))

(* One node of the version is enough for all. *)
_queries_supported(c, Then(_, _)) ==
  Call(c, c.nodes, LAMBDA n : info_build, LAMBDA d, answers :
    Then(d, \E n \in Came(answers, "ok") : AtLeast(n, SERVER_QUERIES_ABORT_ALL_FIRST_VERSION)))
ManageJobsKillAllScansController(c) ==
  pre_command(c, {}, {"with"}, LAMBDA d : _queries_supported(d, LAMBDA e, supported :
    IF supported THEN End(e, <<Complain>>)
    ELSE Confirm(e, e.warn, <<>>, AtNodes(e, [n \in e.nodes |-> info_scan_abort_all], <<>>))))
ManageJobsKillAllQueriesController(c) ==
  pre_command(c, {}, {"with"}, LAMBDA d : _queries_supported(d, LAMBDA e, supported :
    IF ~supported THEN End(e, <<Complain>>)
    ELSE Confirm(e, e.warn, <<>>, AtNodes(e, [n \in e.nodes |-> info_query_abort_all], <<>>))))
ManageJobsKillAllController(c) ==
  CASE Word(c) = "queries" -> ManageJobsKillAllQueriesController(Popped(c))
    [] Word(c) = "scans"   -> ManageJobsKillAllScansController(Popped(c))
    [] OTHER -> execute_help(c)
ManageJobsKillController(c) ==
  CASE Word(c) = "trids" -> ManageJobsKillTridController(Popped(c))
    [] Word(c) = "all"   -> ManageJobsKillAllController(Popped(c))
    [] OTHER -> execute_help(c)
ManageJobsController(c) ==
  IF Word(c) = "kill" THEN ManageJobsKillController(Popped(c)) ELSE execute_help(c)

ManageController(c) ==
  CASE Word(c) = "jobs"      -> ManageJobsController(Popped(c))
    [] Word(c) = "recluster" -> ManageReclusterController(Popped(c))
    [] Word(c) = "quiesce"   -> ManageQuiesceController(Popped(c))
    [] Word(c) = "revive"    -> ManageReviveController(Popped(c))
    [] Word(c) = "roster"    -> ManageRosterController(Popped(c))
    [] Word(c) = "truncate"  -> ManageTruncateController(Popped(c))
    [] Word(c) = "udfs"      -> ManageUdfsController(Popped(c))
    [] Word(c) = "sindex"    -> ManageSIndexController(Popped(c))
    [] Word(c) = "config"    -> ManageConfigController(Popped(c))
    [] Word(c) = "acl"       -> ManageACLController(Popped(c))
    [] OTHER -> execute_help(c)
===============================================================================

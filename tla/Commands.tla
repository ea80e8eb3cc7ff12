------------------------------- MODULE Commands -------------------------------
(***************************************************************************)
(* How asadm reads the words of a command and what a command then does     *)
(* (lib/base_controller.py, the argument helpers of lib/utils/util.py).    *)
(*                                                                         *)
(* A command is a sequence of words.  Its handler turns it into a plan:    *)
(* the steps it takes, one after another, and the modifiers it leaves in   *)
(* the one dictionary `mods' that every command shares.  A step asks the   *)
(* nodes, asks the user, or tells the user something.  What comes after a  *)
(* call depends on its answers, so a plan is written for the answers that  *)
(* are there and stops at the first call that has none.                    *)
(***************************************************************************)
EXTENDS Requests, Values, FiniteSets, TLC

CONSTANTS Principal,    \* the node with the greatest id
          node_lookup,  \* the node of each id, ip:port and fqdn:port
          Ip, Fqdn,     \* of each node
          KeysFrom,     \* of a word: the keys of node_lookup that begin with it
          Starred       \* words with a "*" at their end, and what is before it

ASSUME CommandsAssumption ==
  /\ Principal \in Node
  /\ node_lookup \in [DOMAIN node_lookup -> Node]
  /\ KeysFrom \in [DOMAIN KeysFrom -> SUBSET DOMAIN node_lookup]
  /\ \A key \in DOMAIN node_lookup : key \in KeysFrom[key]

(* The steps.  Telling an error goes on to the end of the command; failing
   raises, which is caught and printed by precmd. *)
Nobody == [n \in {} |-> <<>>]
CallStep(asks) == [does |-> "call", says |-> "", asks |-> asks, about |-> <<>>, nodes |-> {}]
Tell(says) == [CallStep(Nobody) EXCEPT !.does = "tell", !.says = says]
AskUser(about) == [Tell("prompt") EXCEPT !.does = "ask", !.about = about]
Complain == Tell("error")
Raise == Tell("failure")
Warn == Tell("warning")
Enter(mode) == [Tell(mode) EXCEPT !.does = "enable"]
(* A table or a report has something to say of these nodes. *)
Shows(says, nodes) == [Tell(says) EXCEPT !.nodes = nodes]

(* A plan, built from its last step to its first. *)
End(c, steps) == [mods |-> c.mods, steps |-> steps, reached |-> <<>>]
First(step, plan) == [plan EXCEPT !.steps = <<step>> \o @]

(* The context of a handler: the words left, the modifiers, the nodes they
   name, the arguments taken, whether to ask before a change, and the answers
   of its calls.  A call asks a node for one method or, as a gather of tasks,
   for several; one that fails does not end the others.  Its answers are a
   function on its nodes, which has for each method
     [came: "ok" | "refused" | "lost", vals: the values in the answers]. *)
Context(words, mods, privileged, warn, seen) ==
  [line |-> words, mods |-> mods, keys |-> {}, args |-> [arg \in {} |-> ""],
   nodes |-> Node, privileged |-> privileged, warn |-> warn, seen |-> seen]

(* All nodes are asked at once; Then goes on when all have answered.  When
   there is nobody to ask, the command raises. *)
CallAll(c, nodes, methods(_), Then(_, _)) ==
  IF nodes = {} THEN End(c, <<Raise>>)
  ELSE First(CallStep([n \in nodes |-> methods(n)]),
             IF c.seen = <<>> THEN End(c, <<>>)
             ELSE Given([c EXCEPT !.seen = Tail(@)], LAMBDA d : Then(d, Head(c.seen))))
Call(c, nodes, method(_), Then(_, _)) ==
  CallAll(c, nodes, LAMBDA n : <<method(n)>>, LAMBDA d, answers :
    Given([n \in DOMAIN answers |-> answers[n][1]], LAMBDA first : Then(d, first)))
(* A part of a plan that goes on, with what it came to; Then does, once. *)
Reached(c, ok) == [End(c, <<>>) EXCEPT !.reached = <<c, ok>>]
Joined(part, Then(_, _)) ==
  Given(part, LAMBDA p :
    IF p.reached = <<>> THEN p
    ELSE [Then(p.reached[1], p.reached[2]) EXCEPT !.steps = p.steps \o @])
Telling(told, step, plan) == IF told THEN First(step, plan) ELSE plan
(* prompt_challenge: anything but the challenge ends the command. *)
Confirm(c, asked, about, plan) == Telling(asked, AskUser(about), plan)

Came(answers, how) == {n \in DOMAIN answers : answers[n].came = how}
LastVal(answers, n) == Last(answers[n].vals)

------------------------------------------------------------------------------
(* Modifiers *)
Mod(c, word) == IF word \in DOMAIN c.mods THEN c.mods[word] ELSE <<>>
Has(c, word) == Mod(c, word) # <<>>
OneOf(c, word) == IF Has(c, word) THEN Head(Mod(c, word)) ELSE ""

(* Each word goes to the group of the modifier before it, once. *)
parse_modifiers(line, keys) ==
  LET put(before, word) == Given(before, LAMBDA parsed :
        IF word = "," THEN parsed
        ELSE IF word \in keys
        THEN [mod |-> word,
              groups |-> IF word # "diff" THEN parsed.groups
                         ELSE [parsed.groups EXCEPT !["diff"] = Append(@, "True")]]
        ELSE IF Contains(parsed.groups[parsed.mod], word) THEN parsed
        ELSE [parsed EXCEPT !.groups[parsed.mod] = Append(@, word)])
      start == [mod |-> "line", groups |-> [w \in keys \union {"line"} |-> <<>>]]
  IN Given(FoldLeft(put, start, line).groups, LAMBDA groups :
       IF "with" \in keys /\ Contains(groups["with"], "all")
       THEN [groups EXCEPT !["with"] = <<"all">>] ELSE groups)

(* A privilege or a role may be called like a modifier: "priv read", "role write". *)
parse_modifiers_of(line, keys, word) ==
  LET i == SelectInSeq(line, LAMBDA w : w = word) + 1
  IN Given(parse_modifiers(line, keys), LAMBDA groups :
       IF groups[word] = <<>> /\ i \in 2..Len(line) /\ line[i] \in {"read", "write"}
       THEN [groups EXCEPT ![word] = <<line[i]>>] ELSE groups)

(* PrefixDict: the keys that begin with a word; with none, a KeyError, which
   get_nodes ignores. *)
get_key(word) == IF word \in DOMAIN KeysFrom THEN KeysFrom[word] ELSE {}
Looked_up(word) == {node_lookup[key] : key \in get_key(word)}

(* A word is looked up as a prefix if it says so, and if it is a whole key;
   else it has to be the address or the name of just one of the nodes found. *)
get_node_by_prefix(word) == Looked_up(IF word \in DOMAIN Starred THEN Starred[word] ELSE word)
get_node(word) ==
  LET hits == {key \in get_key(word) : word \in {Ip[node_lookup[key]], Fqdn[node_lookup[key]]}}
      twice == \E key \in hits : Ip[node_lookup[key]] = Fqdn[node_lookup[key]]
  IN IF word \in DOMAIN Starred \union DOMAIN node_lookup THEN get_node_by_prefix(word)
     ELSE IF Cardinality(hits) = 1 /\ ~twice THEN {node_lookup[key] : key \in hits} ELSE {}

(* get_nodes for the names a modifier gives. *)
get_nodes(names) ==
  IF names \in {<<>>, <<"all">>} THEN Node ELSE UNION {get_node(names[i]) : i \in DOMAIN names}

(* pre_command: what is parsed replaces these modifiers in the shared
   dictionary and leaves the others there; a required one that is missing
   prints the help and raises. *)
Replaced(old, new) ==
  [word \in DOMAIN old \union DOMAIN new |-> IF word \in DOMAIN new THEN new[word] ELSE old[word]]
Grouped(c, required, modifiers, groups) ==
  [c EXCEPT !.mods = Replaced(@, groups), !.keys = modifiers,
            !.nodes = IF "with" \in required \union modifiers
                      THEN get_nodes(groups["with"]) ELSE Node]
WithGroups(c, required, modifiers, parsed, Body(_)) ==
  Given(parsed, LAMBDA groups :
    Given(Grouped(c, required, modifiers, groups), LAMBDA d :
      IF \E word \in required : groups[word] = <<>>
      THEN End(d, <<Tell("help"), Raise>>) ELSE Body(d)))
pre_command(c, required, modifiers, Body(_)) ==
  WithGroups(c, required, modifiers, parse_modifiers(c.line, required \union modifiers), Body)

(* A command whose first word is an argument: `context' is the last word of
   the path to it.  The list is made anew unless it holds a word equal to
   its own name; a modifier is no argument. *)
pre_controller(c, context, modifiers, Then(_)) ==
  IF c.line = <<>> \/ (c.line # <<>> /\ Head(c.line) \in modifiers) THEN End(c, <<Raise>>)
  ELSE LET old == IF Contains(Mod(c, context), context) THEN Mod(c, context) ELSE <<>>
       IN Given([c EXCEPT !.line = Tail(@),
                          !.mods = (context :> Append(old, Head(c.line))) @@ @], Then)

------------------------------------------------------------------------------
(* Arguments *)
fetch_argument(line, arg, default) ==
  Given(SelectInSeq(line, LAMBDA w : w = arg), LAMBDA i :
    IF i \in 1..(Len(line) - 1) THEN line[i + 1] ELSE default)

clear_val_from_list_in_dict(keys, mods, val) ==
  [word \in DOMAIN mods |-> IF word \in keys THEN RemoveFirst(mods[word], val) ELSE mods[word]]

(* The argument and its value leave the line, and the lists of these
   modifiers, wherever they are first found there. *)
get_arg_and_delete_from_mods(c, arg, keys) ==
  LET without(mods, val) == clear_val_from_list_in_dict(
                              keys, clear_val_from_list_in_dict(keys, mods, arg), val)
  IN Given(fetch_argument(c.line, arg, ""), LAMBDA val :
       [c EXCEPT !.args = (arg :> val) @@ @,
                 !.line = RemoveFirst(RemoveFirst(@, arg), val),
                 !.mods = IF val = "" THEN @ ELSE without(@, val)])
Folded(c, args, take(_, _)) ==
  Given(FoldLeft(LAMBDA before, arg : Given(before, LAMBDA left : take(left, arg)),
                 [line |-> c.line, mods |-> c.mods, args |-> c.args], args), LAMBDA left :
    [c EXCEPT !.line = left.line, !.mods = left.mods, !.args = left.args])
Taking(c, args, keys) ==
  Folded(c, args, LAMBDA left, arg : get_arg_and_delete_from_mods(left, arg, keys))
check_arg(c, arg) == Contains(c.line, arg)
check_arg_and_delete_from_mods(c, arg, keys) ==
  IF ~check_arg(c, arg) THEN c
  ELSE [c EXCEPT !.line = RemoveFirst(@, arg),
                 !.mods = clear_val_from_list_in_dict(keys, @, arg)]
Dropping(c, flags, keys) ==
  Folded(c, flags, LAMBDA left, flag : check_arg_and_delete_from_mods(left, flag, keys))

(* The first word left, and the rest. *)
Word(c) == IF c.line = <<>> THEN "" ELSE Head(c.line)
Popped(c) == [c EXCEPT !.line = Tail(@)]

(* A controller without the next word prints its help. *)
execute_help(c) == End(c, <<Tell("help")>>)
===============================================================================

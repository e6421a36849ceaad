----------------------------- MODULE Abilities -----------------------------
(***************************************************************************)
(* What a user of the console may do and see (ui_api/osprey/lib): the      *)
(* abilities of the access list, how several of one kind are merged, and   *)
(* how an event's data is censored.  An ability allows all items, all but  *)
(* some, or some; an absent set is empty.  An item of a data ability is an *)
(* action's name, or "" for any, and the path of a field; an item of the   *)
(* others is a name.                                                       *)
(***************************************************************************)
EXTENDS Sequences, SequencesExt, FiniteSets, Naturals

Ability(all, specific, except) == [all |-> all, specific |-> specific, except |-> except]
AllowAll == Ability(TRUE, {}, {})

\* ability_root_validator: exactly one of the three is given, and is not empty.
RootValid(a) ==
  Cardinality({i \in 1..3 : <<a.all, a.specific # {}, a.except # {}>>[i]}) = 1

ItemIsAllowed(a, item) ==
  CASE a.all -> TRUE
    [] a.except # {} -> item \notin a.except
    [] OTHER -> item \in a.specific

\* Faulty variant: the exceptions win over what another ability allows.
MergeAbilitiesStrict(abilities) ==
  LET except == UNION {a.except : a \in abilities}
      specific == UNION {a.specific : a \in abilities}
  IN  CASE \E a \in abilities : a.all -> AllowAll
        [] except # {} -> Ability(FALSE, {}, except)
        [] OTHER -> Ability(FALSE, specific, {})
\* _merge_abilities: allow_all, then all but the exceptions nobody allows.
MergeAbilities(abilities) ==
  LET except == UNION {a.except : a \in abilities}
      specific == UNION {a.specific : a \in abilities}
  IN  CASE \E a \in abilities : a.all -> AllowAll
        [] except # {} /\ except \subseteq specific -> AllowAll
        [] except # {} -> Ability(FALSE, {}, except \ specific)
        [] OTHER -> Ability(FALSE, specific, {})

\* AclConfig.get_abilities_for_user: an unregistered user has what tokens grant.
AbilitiesForUser(acl, user, granted) ==
  IF user \notin DOMAIN acl.users THEN granted
  ELSE UNION {acl.roles[r] : r \in acl.users[user].roles} \cup acl.users[user].abilities

-----------------------------------------------------------------------------
(* A change of an entity's labels by hand, and its labels as shown.        *)

CanMutateEntities(a, request) == ItemIsAllowed(a, request.entity)
\* One label the user may change is enough.
CanMutateLabels(a, request) == \E m \in request.mutations : ItemIsAllowed(a, m)

\* require_ability_with_request: the user has the ability, and it allows the request.
RequestIsAllowed(entities, labels, request) ==
  /\ entities # {} /\ CanMutateEntities(MergeAbilities(entities), request)
  /\ labels # {} /\ LET a == MergeAbilities(labels) IN a.all \/ CanMutateLabels(a, request)
\* Faulty variant: a request that is allowed is applied as a whole.
ManualEntityMutationWhole(entities, labels, request) ==
  IF ~RequestIsAllowed(entities, labels, request) THEN {} ELSE request.mutations
\* The mutations that reach the labels service.
ManualEntityMutation(entities, labels, request) ==
  IF ~RequestIsAllowed(entities, labels, request) THEN {}
  ELSE {m \in request.mutations : ItemIsAllowed(MergeAbilities(labels), m)}

-----------------------------------------------------------------------------
(* DataCensorAbility.  Data is a tree of dicts, lists and leaves; an empty *)
(* dict is hidden like a leaf, yet walked into like a dict.                *)

Tree(t, kids) == [t |-> t, kids |-> kids]
Leaf == Tree("leaf", <<>>)
Hidden == Tree("hidden", <<>>)
KeyError == Tree("KeyError", <<>>)
Star == <<"*">>

AppliesToAction(item, action) == item.action \in {"", action}

RECURSIVE CensorNode(_, _, _)
\* _recursively_censor_leafs: the items of a list have the list's path.
CensorNode(node, path, exceptions) ==
  CASE path \in exceptions -> node
    [] node.t \in {"dict", "list"} /\ DOMAIN node.kids # {} ->
         Tree(node.t, [k \in DOMAIN node.kids |->
           CensorNode(node.kids[k], IF node.t = "dict" THEN Append(path, k) ELSE path, exceptions)])
    [] OTHER -> Hidden

\* The name of the action is never censored.
CensorLeafs(data, field, exceptions) ==
  IF field = "ActionName" /\ data.kids[field].t = "leaf" THEN data
  ELSE [data EXCEPT !.kids[field] = CensorNode(@, <<field>>, exceptions)]
CensorAllLeafs(data, exceptions) ==
  IF Star \in exceptions THEN data
  ELSE Tree("dict", [k \in DOMAIN data.kids |-> CensorLeafs(data, k, exceptions).kids[k]])

RECURSIVE CensorAtPath(_, _)
\* _censor_at_path: data[key] raises where a dict on the path lacks the key; a value
\* that is neither dict nor list ends the walk.
CensorAtPath(data, path) ==
  LET key == Head(path)
      val == data.kids[key]
      inner == IF val.t = "list" THEN [k \in DOMAIN val.kids |-> CensorAtPath(val.kids[k], Tail(path))]
               ELSE [k \in {"0"} |-> CensorAtPath(val, Tail(path))]
  IN  CASE path = Star -> CensorAllLeafs(data, {})
        [] data.t # "dict" \/ key \notin DOMAIN data.kids -> KeyError
        [] Len(path) = 1 -> CensorLeafs(data, key, {})
        [] val.t \notin {"dict", "list"} -> data
        [] \E k \in DOMAIN inner : inner[k] = KeyError -> KeyError
        [] val.t = "dict" -> [data EXCEPT !.kids[key] = inner["0"]]
        [] OTHER -> [data EXCEPT !.kids[key] = Tree("list", inner)]

Paths(items, action) == {i.path : i \in {j \in items : AppliesToAction(j, action)}}

\* Faulty variant: the items of another action count too.
CensorDataOfAny(a, data, action) ==
  {IF a.specific = {} THEN data ELSE CensorAllLeafs(data, {i.path : i \in a.specific})}
\* censor_data, in any order of the set of exceptions: one that a dict lacks when its
\* turn comes ends it with a KeyError.
CensorData(a, data, action) ==
  LET Step(d, path) == IF d = KeyError THEN d ELSE CensorAtPath(d, path)
  IN  CASE a.except # {} -> {FoldLeft(Step, data, paths) : paths \in SetToSeqs(Paths(a.except, action))}
        [] a.specific # {} -> {CensorAllLeafs(data, Paths(a.specific, action))}
        [] OTHER -> {data}

\* parse_from_query_result: without the ability, every leaf is hidden.
ShownData(abilities, data, action) ==
  IF abilities = {} THEN {CensorAllLeafs(data, {})}
  ELSE CensorData(MergeAbilities(abilities), data, action)

-----------------------------------------------------------------------------
RECURSIVE NodesOf(_, _, _)
\* The nodes of a tree: where each is, the path of its field, and the node.
NodesOf(node, at, path) ==
  {[at |-> at, path |-> path, node |-> node]} \cup
  UNION {NodesOf(node.kids[k], Append(at, k), IF node.t = "dict" THEN Append(path, k) ELSE path) : k \in DOMAIN node.kids}
LeavesOf(data) ==
  {[at |-> n.at, path |-> n.path, hidden |-> n.node = Hidden] : n \in {m \in NodesOf(data, <<>>, <<>>) : DOMAIN m.node.kids = {}}}

\* Some dict on the path, perhaps one of the items of a list, lacks the next key.
Lacks(data, path) ==
  \E n \in NodesOf(data, <<>>, <<>>) :
    n.node.t = "dict" /\ IsStrictPrefix(n.path, path) /\ path[Len(n.path) + 1] \notin DOMAIN n.node.kids

\* The reference: may the field at a path be shown?
MayShow(abilities, action, path) ==
  LET a == MergeAbilities(abilities)
      Covers(items) == \E i \in items : AppliesToAction(i, action) /\ (i.path = Star \/ IsPrefix(i.path, path))
  IN  \/ path = <<"ActionName">>
      \/ abilities # {} /\ (a.all \/ (a.except # {} /\ ~Covers(a.except)) \/ Covers(a.specific))
=============================================================================

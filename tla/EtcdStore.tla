------------------------------ MODULE EtcdStore ------------------------------
(***************************************************************************)
(* What a request of EtcdClient does to one etcd key: the conditions its   *)
(* methods send along, and the error etcd answers with.  A node is a       *)
(* record [value, modified] or Absent; i is the index of the new event.    *)
(***************************************************************************)
EXTENDS Naturals

CONSTANT Absent

Reply(node, error) == [node |-> node, error |-> error]
Node(v, i) == [value |-> v, modified |-> i]

(* create(): prevExist=false. *)
create(node, v, i) ==
    IF node # Absent THEN Reply(node, "NodeExists") ELSE Reply(Node(v, i), "none")

(* set(prev_index): the key must exist with that index. *)
set_if_index(node, v, i, prev_index) ==
    IF node = Absent THEN Reply(node, "KeyNotFound")
    ELSE IF node.modified # prev_index THEN Reply(node, "CompareFailed")
    ELSE Reply(Node(v, i), "none")

(* set() without conditions. *)
set(node, v, i) == Reply(Node(v, i), "none")

(* delete(prev_value). *)
delete_if_value(node, prev_value) ==
    IF node = Absent THEN Reply(node, "KeyNotFound")
    ELSE IF node.value # prev_value THEN Reply(node, "CompareFailed")
    ELSE Reply(Absent, "none")
=============================================================================

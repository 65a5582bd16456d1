---------------------------- MODULE MCProcessing ----------------------------
(* Two workers and the activities of a note and of a group. *)
EXTENDS Processing, TLC

CONSTANTS w1, w2, create, update, like, delete1, delete2, join, leave, post,
  alice, bob, carol, grp, note, t1, t2

(* alice is local; bob and carol are on other servers, bob may be a member *)
(* of the group from the start.                                            *)
Message(type, actor, object, to, collections, by) ==
  [type |-> type, actor |-> actor, object |-> object, to |-> to, collections |-> collections,
   public |-> FALSE, by |-> by, tenants |-> {t1}, sound |-> TRUE]

Messages ==
  create :> Message("Create", alice, note, {alice, bob}, {grp}, alice) @@
  update :> Message("Update", alice, note, {alice}, {}, alice) @@
  like :> Message("Like", bob, note, {alice}, {}, Nobody) @@
  delete1 :> [Message("Delete", alice, note, {alice}, {}, Nobody) EXCEPT !.tenants = {t1, t2}] @@
  delete2 :> Message("Delete", bob, note, {}, {}, Nobody) @@
  join :> Message("Join", bob, grp, {grp}, {}, Nobody) @@
  leave :> Message("Leave", bob, grp, {grp}, {}, Nobody) @@
  post :> Message("Follow", bob, grp, {grp, carol}, {}, Nobody)

Docs == [a \in Activity |-> Messages[a]]
Workers == Permutations(Worker)
Hosts == note :> t1 @@ grp :> t1
=============================================================================

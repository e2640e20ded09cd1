------------------------------ MODULE OwnedStore ------------------------------
(***************************************************************************)
(* What the operator promises about the objects it keeps for its users,    *)
(* without caches, queues, passes, calls or failures: a store of children  *)
(* and a history of wishes for each engine.                                *)
(*                                                                         *)
(*  - A child is given the content that one wish of its engine asks for,   *)
(*    and its engine never goes back to an older wish than the last one    *)
(*    that shaped the child.                                               *)
(*  - A child with an engine stays with that engine until it is deleted.   *)
(*  - An update keeps the fields that may not change.                      *)
(*  - Only users change what an engine wishes.                             *)
(***************************************************************************)
EXTENDS Naturals, Sequences

CONSTANTS Engines, NoEngine, Objects,
          Foreign,   \* the content that other clients give to children
          Wanted     \* the contents that a specification asks for, by object

VARIABLES wish,      \* for each engine, the versions of its resource
          child      \* the children, in their current version

storeVars == <<wish, child>>

Free(v) == ~ v.live \/ v.owner = NoEngine

Init ==
    /\ \A c \in Engines : wish[c] = <<>>
    /\ \A o \in Objects : ~ child[o].live

Last(l) == l[Len(l)]

Grows(c) ==
    /\ Len(wish'[c]) = Len(wish[c]) + 1
    /\ wish' = [wish EXCEPT ![c] = Append(@, Last(wish'[c]))]

(* A user writes a specification, the first or another one.                *)
Declare(c) ==
    /\ Grows(c)
    /\ Last(wish'[c]).gen = Len(wish'[c])
    /\ UNCHANGED child

(* The resource changes otherwise, or goes; its specification stays.       *)
Annotate(c) ==
    /\ wish[c] # <<>>
    /\ Grows(c)
    /\ LET old == Last(wish[c])
           new == Last(wish'[c])
       IN new.gen = old.gen /\ new.spec = old.spec /\ new.uid = old.uid
    /\ UNCHANGED child

Become(o, v) == child' = [child EXCEPT ![o] = v]

(* The operator shapes child o after wish n of engine c.                   *)
Shape(o, c, n) ==
    /\ wish[c][n].live
    /\ \/ Free(child[o])
       \/ child[o].owner = c /\ child[o].from <= n
    /\ \E b \in Wanted[wish[c][n].spec][o] :
        /\ child[o].live => b.immut = child[o].body.immut
        /\ Become(o, [live |-> TRUE, owner |-> c, uid |-> wish[c][n].uid,
                      from |-> n, body |-> b])
    /\ UNCHANGED wish

(* The operator provides an object that belongs to nobody.                 *)
Provide(o) ==
    /\ ~ child[o].live
    /\ \E s \in DOMAIN Wanted : \E b \in Wanted[s][o] :
        Become(o, [live |-> TRUE, owner |-> NoEngine, uid |-> 0, from |-> 0, body |-> b])
    /\ UNCHANGED wish

(* Other clients delete, create and change children, and leave the owner.  *)
Meddle(o) ==
    /\ \/ child[o].live /\ ~ child'[o].live
       \/ /\ ~ child[o].live /\ child'[o].live
          /\ Free(child'[o]) /\ child'[o].body.spec = Foreign
       \/ child[o].live /\ child'[o] = [child[o] EXCEPT !.body.spec = Foreign]
    /\ Become(o, child'[o])
    /\ UNCHANGED wish

Next ==
    \/ \E c \in Engines : Declare(c) \/ Annotate(c)
    \/ \E o \in Objects : \/ Provide(o) \/ Meddle(o)
                          \/ \E c \in Engines : \E n \in 1 .. Len(wish[c]) : Shape(o, c, n)

Spec == Init /\ [][Next]_storeVars
=============================================================================

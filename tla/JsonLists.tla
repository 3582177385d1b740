----------------------------- MODULE JsonLists -----------------------------
(***************************************************************************)
(* What the tree functions of cJSON promise their caller, with no pointers *)
(* in it: every item has a sequence of children, and an operation changes  *)
(* exactly one sequence, in the way its name says.  CjsonTree is shown to  *)
(* implement this.                                                         *)
(***************************************************************************)
EXTENDS Naturals, FiniteSets, Sequences, SequencesExt

VARIABLES owned,  \* the items the caller may delete or add to a container
          kids    \* for every item reachable from them, its own children

Below(x) == \* x and all that hangs from it
    LET depth == Cardinality(DOMAIN kids)
        below[y \in DOMAIN kids, k \in 0 .. depth] ==
            {y} \union (IF k = 0 THEN {} ELSE UNION {below[z, k - 1] : z \in ToSet(kids[y])})
    IN  below[x, depth]

Init == owned = {} /\ kids = <<>>

\* A whole new tree appears; nothing that was there changes.
Build == \E x \in owned' \ owned :
    /\ x \in DOMAIN kids' \ DOMAIN kids
    /\ owned' = owned \union {x}
    /\ \A p \in DOMAIN kids : p \in DOMAIN kids' /\ kids'[p] = kids[p]
    /\ \A y \in DOMAIN kids' \ DOMAIN kids : \A i \in DOMAIN kids'[y] :
        kids'[y][i] \notin DOMAIN kids

Insert == \E x \in owned :
    /\ owned' = owned \ {x}
    /\ \E p \in DOMAIN kids \ Below(x) : \E i \in 1 .. Len(kids[p]) + 1 :
        kids' = [kids EXCEPT ![p] = InsertAt(@, i, x)]

AddNew == \E x \in DOMAIN kids' \ DOMAIN kids :
    /\ UNCHANGED owned
    /\ \E p \in DOMAIN kids :
        kids' = [q \in DOMAIN kids \union {x} |->
                    CASE q = x -> <<>>
                      [] q = p -> Append(kids[p], x)
                      [] OTHER -> kids[q]]

Take == \E x \in owned' \ owned :
    /\ owned' = owned \union {x}
    /\ \E p \in DOMAIN kids : \E i \in DOMAIN kids[p] :
        kids[p][i] = x /\ kids' = [kids EXCEPT ![p] = RemoveAt(@, i)]

\* x and all below it are gone from the lists of k.
Without(k, x) == [q \in DOMAIN k \ Below(x) |-> k[q]]

Drop == \E x \in DOMAIN kids \ DOMAIN kids' :
    /\ UNCHANGED owned
    /\ \E p \in DOMAIN kids : \E i \in DOMAIN kids[p] :
        kids[p][i] = x /\ kids' = Without([kids EXCEPT ![p] = RemoveAt(@, i)], x)

Swap == \E x \in owned :
    /\ owned' = owned \ {x}
    /\ \E p \in DOMAIN kids \ Below(x) : \E i \in DOMAIN kids[p] :
        kids' = Without([kids EXCEPT ![p] = ReplaceAt(@, i, x)], kids[p][i])

Discard == \E x \in owned :
    /\ owned' = owned \ {x}
    /\ kids' = Without(kids, x)

Next == Build \/ Insert \/ AddNew \/ Take \/ Drop \/ Swap \/ Discard

Spec == Init /\ [][Next]_<<owned, kids>>
=============================================================================

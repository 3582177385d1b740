----------------------------- MODULE CjsonTree -----------------------------
(***************************************************************************)
(* The items of cJSON.c and the pointers between them: next and prev link  *)
(* the children of an item, child points at the first of them, and the     *)
(* first one's prev at the last.  An item with IsReference shares the      *)
(* children of another and does not own them.                              *)
(*                                                                         *)
(* The heap has Size items; an allocation takes the lowest free one, or    *)
(* fails.  Types, numbers, strings and keys are left out: a lookup by name *)
(* finds any child, a string that cannot be copied is one more way to      *)
(* fail.  Parsing and duplication are recursive in the code and run here   *)
(* one call or one list element at a time, with their calls on a stack;    *)
(* trees are not shared between tasks, so no other call runs meanwhile.    *)
(*                                                                         *)
(* The caller keeps the library's contract: an item it passes to be added  *)
(* is one it owns and does not contain the container, it changes no list   *)
(* through a reference and deletes nothing a remaining reference needs.    *)
(***************************************************************************)
EXTENDS Naturals, FiniteSets, Sequences, SequencesExt

CONSTANTS Size,          \* bound: items the heap holds
          NestingLimit,  \* CJSON_NESTING_LIMIT
          CircularLimit, \* CJSON_CIRCULAR_LIMIT
          EditRoom       \* bound: items in the trees the caller edits

ASSUME CjsonAssumption ==
    /\ Size \in Nat \ {0} /\ EditRoom \in 1 .. Size
    /\ NestingLimit \in Nat \ {0} /\ CircularLimit \in Nat \ {0}

VARIABLES heap,    \* the items, [next, prev, child, ref]
          live,    \* the allocated ones
          roots,   \* items the caller holds and owns
          leaked,  \* history: items nobody can reach any more
          call,    \* the call in progress: "none", "parse" or "duplicate"
          frames,  \* its stack: the item being filled, its children so far
          value,   \* parser: the item that parse_value is to fill, or NULL
          origin   \* history: the item being duplicated

vars == <<heap, live, roots, leaked, call, frames, value, origin>>

NULL == 0
Items == 1 .. Size
Blank == [next |-> NULL, prev |-> NULL, child |-> NULL, ref |-> FALSE]
Frame == [item : Items, head : Items \union {NULL}, last : Items \union {NULL},
          src : Items \union {NULL}]

-----------------------------------------------------------------------------
(* Walking the lists.                                                      *)

\* The items from n along next; longer than the heap if they form a loop.
Chain(h, n) ==
    LET walk[k \in 0 .. Size + 1] == [x \in 0 .. Size |->
            IF x = NULL \/ k = 0 THEN <<>> ELSE <<x>> \o walk[k - 1][h[x].next]]
    IN  walk[Size + 1][n]

Children(h, p) == Chain(h, h[p].child)

Owned(h, p) == IF h[p].ref THEN <<>> ELSE Children(h, p)

Tree(h, x) ==
    LET below[k \in 0 .. Size] == [y \in Items |->
            {y} \union (IF k = 0 THEN {} ELSE UNION {below[k - 1][z] : z \in ToSet(Owned(h, y))})]
    IN  below[Size][x]

\* cJSON_Delete(x): x, the items after it and, but for references, what
\* hangs from them.
Doomed(h, x) == UNION {Tree(h, y) : y \in ToSet(Chain(h, x))}

Freed(h, D) == [x \in Items |-> IF x \in D THEN Blank ELSE h[x]]

\* No reference outside D needs an item of D.
Unneeded(D) == \A r \in live \ (D \union leaked) : heap[r].ref => heap[r].child \notin D

Held == UNION {Tree(heap, x) : x \in roots}

Containers == {p \in Held : ~heap[p].ref}

Free == Items \ live

\* Parsing and copying may use the rest of the heap; what they leave there is
\* looked at and not changed.
Editable == Cardinality(live) <= EditRoom
MayAllocate == Cardinality(live) < EditRoom
NewItem == CHOOSE x \in Free : \A y \in Free : x <= y

Set(h, n, field, v) == IF n = NULL THEN h ELSE [h EXCEPT ![n][field] = v]

-----------------------------------------------------------------------------
(* The pointer surgery.                                                    *)

suffix_object(h, before, x) == Set(Set(h, before, "next", x), x, "prev", before)

add_item_to_array(h, p, x) ==
    LET first == h[p].child IN
    IF first = NULL
    THEN [h EXCEPT ![p].child = x, ![x].prev = x, ![x].next = NULL]
    ELSE IF h[first].prev = NULL THEN h
    ELSE [suffix_object(h, h[first].prev, x) EXCEPT ![first].prev = x]

\* Fault: the new last child is not recorded in the first.
DetachKeepsLast(h, p, x) ==
    LET n == h[x].next
        unlinked == Set(IF x = h[p].child THEN h ELSE Set(h, h[x].prev, "next", n), n, "prev", h[x].prev)
    IN  [(IF x = h[p].child THEN Set(unlinked, p, "child", n) ELSE unlinked)
            EXCEPT ![x].prev = NULL, ![x].next = NULL]
DetachItemViaPointer(h, p, x) ==
    LET n == h[x].next
        unlinked == Set(IF x = h[p].child THEN h ELSE Set(h, h[x].prev, "next", n), n, "prev", h[x].prev)
        relinked == IF x = h[p].child THEN Set(unlinked, p, "child", n)
                    ELSE IF n = NULL THEN Set(unlinked, h[p].child, "prev", h[x].prev)
                    ELSE unlinked
    IN  [relinked EXCEPT ![x].prev = NULL, ![x].next = NULL]

InsertBefore(h, p, after, x) ==
    LET linked == [h EXCEPT ![x].next = after, ![x].prev = h[after].prev, ![after].prev = x]
    IN  IF after = h[p].child THEN Set(linked, p, "child", x)
        ELSE Set(linked, h[after].prev, "next", x)

\* Fault: the replacement goes to the end of the list.
ReplaceByAppending(h, p, old, x) == DetachItemViaPointer(add_item_to_array(h, p, x), p, old)
ReplaceItemViaPointer(h, p, old, x) ==
    LET n == h[old].next
        taken == [h EXCEPT ![x].next = n, ![x].prev = h[old].prev]
        after == Set(taken, n, "prev", x)
        linked ==
            IF h[p].child = old
            THEN Set(IF after[old].prev = old THEN Set(after, x, "prev", x) ELSE after, p, "child", x)
            ELSE LET before == Set(after, h[old].prev, "next", x)
                 IN  IF n = NULL THEN Set(before, h[p].child, "prev", x) ELSE before
    IN  [linked EXCEPT ![old].next = NULL, ![old].prev = NULL]

-----------------------------------------------------------------------------
(* The caller's operations.                                                *)

idle == UNCHANGED <<call, frames, value, origin>>

TypeOK ==
    /\ heap \in [Items -> [next : 0 .. Size, prev : 0 .. Size, child : 0 .. Size, ref : BOOLEAN]]
    /\ live \subseteq Items /\ roots \subseteq live /\ leaked \subseteq live
    /\ \A x \in Free : heap[x] = Blank
    /\ call \in {"none", "parse", "duplicate"}
    /\ frames \in Seq(Frame)
    /\ call = "parse" => Len(frames) <= NestingLimit + 1
    /\ call = "duplicate" => Len(frames) <= CircularLimit + 1
    /\ call = "none" => frames = <<>> /\ value = NULL /\ origin = NULL
    /\ value \in Items \union {NULL} /\ origin \in Items \union {NULL}

Init ==
    /\ heap = [x \in Items |-> Blank]
    /\ live = {} /\ roots = {} /\ leaked = {}
    /\ call = "none" /\ frames = <<>> /\ value = NULL /\ origin = NULL

\* cJSON_CreateNull .. cJSON_CreateObject.
Create ==
    /\ MayAllocate
    /\ live' = live \union {NewItem} /\ roots' = roots \union {NewItem}
    /\ UNCHANGED <<heap, leaked>> /\ idle

\* cJSON_CreateArrayReference and cJSON_CreateObjectReference.
CreateReference == \E first \in Held :
    /\ MayAllocate
    /\ live' = live \union {NewItem} /\ roots' = roots \union {NewItem}
    /\ heap' = [heap EXCEPT ![NewItem].child = first, ![NewItem].ref = TRUE]
    /\ UNCHANGED leaked /\ idle

\* cJSON_CreateIntArray and its kin take the lowest free items, the array first.
\* When a number cannot be made the array and those before it are deleted, which
\* leaves the heap as it was.
CreateArrayOf == \E taken \in SUBSET Free :
    LET a == Min(taken)
        numbers == taken \ {a}
        after(i) == {j \in numbers : j > i}
        before(i) == {j \in numbers : j < i}
    IN  /\ Cardinality(taken) \in 2 .. EditRoom - Cardinality(live)
        /\ \A x \in taken, y \in Free \ taken : x < y
        /\ live' = live \union taken /\ roots' = roots \union {a}
        /\ heap' = [i \in Items |->
                IF i = a THEN [Blank EXCEPT !.child = Min(numbers)]
                ELSE IF i \notin numbers THEN heap[i]
                ELSE [Blank EXCEPT !.next = IF after(i) = {} THEN NULL ELSE Min(after(i)),
                                   !.prev = Max(IF before(i) = {} THEN numbers ELSE before(i))]]
        /\ UNCHANGED leaked /\ idle

\* cJSON_AddItemToArray, cJSON_AddItemToObject: an item added to itself, or a
\* key that cannot be copied, changes nothing.
AddItem == \E p \in Containers, x \in roots :
    /\ p \notin Tree(heap, x)
    /\ heap' = add_item_to_array(heap, p, x)
    /\ roots' = roots \ {x}
    /\ UNCHANGED <<live, leaked>> /\ idle

\* cJSON_AddNullToObject .. cJSON_AddArrayToObject: the new item is deleted
\* again when its key cannot be copied.
AddNewItem == \E p \in Containers :
    /\ MayAllocate
    /\ live' = live \union {NewItem}
    /\ heap' = add_item_to_array(heap, p, NewItem)
    /\ UNCHANGED <<roots, leaked>> /\ idle

create_reference(h, x) == [h EXCEPT ![NewItem] = [Blank EXCEPT !.child = h[x].child, !.ref = TRUE]]

\* cJSON_AddItemReferenceToArray and ...ToObject.
AddItemReference == \E p \in Containers, x \in Held :
    /\ MayAllocate
    /\ live' = live \union {NewItem}
    /\ heap' = add_item_to_array(create_reference(heap, x), p, NewItem)
    /\ UNCHANGED <<roots, leaked>> /\ idle

\* The key could not be copied: the reference is neither added nor deleted.
AddItemReferenceFails == \E x \in Held :
    /\ MayAllocate
    /\ live' = live \union {NewItem} /\ leaked' = leaked \union {NewItem}
    /\ heap' = create_reference(heap, x)
    /\ UNCHANGED roots /\ idle

\* cJSON_DetachItemFromArray and ...FromObject.
DetachItem == \E p \in Containers : \E x \in ToSet(Children(heap, p)) :
    /\ x = heap[p].child \/ heap[x].prev # NULL
    /\ heap' = DetachItemViaPointer(heap, p, x)
    /\ roots' = roots \union {x}
    /\ UNCHANGED <<live, leaked>> /\ idle

\* Detach and delete in one call.
DeleteItem == \E p \in Containers : \E x \in ToSet(Children(heap, p)) :
    LET detached == DetachItemViaPointer(heap, p, x)
        D == Doomed(detached, x)
    IN  /\ Unneeded(D)
        /\ heap' = Freed(detached, D) /\ live' = live \ D
        /\ UNCHANGED <<roots, leaked>> /\ idle

\* An index past the end appends.
InsertItemInArray == \E p \in Containers, x \in roots : \E which \in 0 .. Len(Children(heap, p)) :
    /\ p \notin Tree(heap, x)
    /\ heap' = IF which = Len(Children(heap, p)) THEN add_item_to_array(heap, p, x)
               ELSE InsertBefore(heap, p, Children(heap, p)[which + 1], x)
    /\ roots' = roots \ {x}
    /\ UNCHANGED <<live, leaked>> /\ idle

ReplaceItem == \E p \in Containers, x \in roots : \E old \in ToSet(Children(heap, p)) :
    LET replaced == ReplaceItemViaPointer(heap, p, old, x)
        D == Doomed(replaced, old)
    IN  /\ p \notin Tree(heap, x)
        /\ Unneeded(D)
        /\ heap' = Freed(replaced, D) /\ live' = live \ D
        /\ roots' = roots \ {x}
        /\ UNCHANGED leaked /\ idle

Delete == \E x \in roots :
    LET D == Doomed(heap, x) IN
    /\ Unneeded(D)
    /\ heap' = Freed(heap, D) /\ live' = live \ D
    /\ roots' = roots \ D
    /\ UNCHANGED leaked /\ idle

-----------------------------------------------------------------------------
(* cJSON_Parse. The bottom frame is the caller's; frame i + 1 is a running  *)
(* parse_array or parse_object. The input is any sequence of tokens.        *)

Top == frames[Len(frames)]
SetTop(f) == [frames EXCEPT ![Len(frames)] = f]
Fresh(item) == [item |-> item, head |-> NULL, last |-> NULL, src |-> NULL]

Parse ==
    /\ call = "none" /\ Editable /\ Free # {}
    /\ live' = live \union {NewItem}
    /\ call' = "parse" /\ frames' = <<Fresh(NewItem)>> /\ value' = NewItem
    /\ UNCHANGED <<heap, roots, leaked, origin>>

\* A literal, a string, a number, or [] and {}.
ParseScalar ==
    /\ call = "parse" /\ value # NULL
    /\ value' = NULL
    /\ UNCHANGED <<heap, live, roots, leaked, call, frames, origin>>

MayNest == Len(frames) - 1 < NestingLimit

\* [ or { and the first element.
ParseOpen ==
    /\ call = "parse" /\ value # NULL /\ MayNest /\ Free # {}
    /\ live' = live \union {NewItem}
    /\ frames' = Append(frames, [Fresh(value) EXCEPT !.head = NewItem, !.last = NewItem])
    /\ value' = NewItem
    /\ UNCHANGED <<heap, roots, leaked, call, origin>>

ParseComma ==
    /\ call = "parse" /\ value = NULL /\ Len(frames) > 1 /\ Free # {}
    /\ live' = live \union {NewItem}
    /\ heap' = suffix_object(heap, Top.last, NewItem)
    /\ frames' = SetTop([Top EXCEPT !.last = NewItem])
    /\ value' = NewItem
    /\ UNCHANGED <<roots, leaked, call, origin>>

ParseClose ==
    /\ call = "parse" /\ value = NULL /\ Len(frames) > 1
    /\ heap' = [heap EXCEPT ![Top.head].prev = Top.last, ![Top.item].child = Top.head]
    /\ frames' = Front(frames)
    /\ UNCHANGED <<live, roots, leaked, call, value, origin>>

Return ==
    call' = "none" /\ frames' = <<>> /\ value' = NULL /\ origin' = NULL

ParseDone ==
    /\ call = "parse" /\ value = NULL /\ Len(frames) = 1
    /\ roots' = roots \union {Top.item}
    /\ Return
    /\ UNCHANGED <<heap, live, leaked>>

\* A token that does not fit, too deep a nesting, no memory: every call on the
\* stack deletes its list, the outermost the item.
ParseFreesInnermost ==    \* Fault: the outer calls return at once
    Doomed(heap, Top.head) \union Doomed(heap, frames[1].item)
ParseFrees ==
    (UNION {Doomed(heap, frames[i].head) : i \in 2 .. Len(frames)}) \union Doomed(heap, frames[1].item)

ParseFail ==
    /\ call = "parse"
    /\ live' = live \ ParseFrees
    /\ heap' = Freed(heap, ParseFrees)
    /\ Return
    /\ UNCHANGED <<roots, leaked>>

-----------------------------------------------------------------------------
(* cJSON_Duplicate. A frame is a running Duplicate_rec: item is newitem,    *)
(* last is next, src the child to copy next.                                *)

Duplicate == \E x \in Held : \E recurse \in BOOLEAN :
    /\ call = "none" /\ Editable /\ Free # {}
    /\ live' = live \union {NewItem}
    /\ \/ /\ ~recurse
          /\ roots' = roots \union {NewItem}
          /\ UNCHANGED <<call, frames, origin>>
       \/ /\ recurse
          /\ call' = "duplicate" /\ origin' = x
          /\ frames' = <<[Fresh(NewItem) EXCEPT !.src = heap[x].child]>>
          /\ UNCHANGED roots
    /\ UNCHANGED <<heap, leaked, value>>

\* Fault: children are copied without theirs.
DuplicateChildShallow ==
    /\ call = "duplicate" /\ Top.src # NULL
    /\ Len(frames) - 1 < CircularLimit /\ Free # {}
    /\ live' = live \union {NewItem}
    /\ frames' = Append(frames, Fresh(NewItem))
    /\ UNCHANGED <<heap, roots, leaked, call, value, origin>>

DuplicateChild ==
    /\ call = "duplicate" /\ Top.src # NULL
    /\ Len(frames) - 1 < CircularLimit /\ Free # {}
    /\ live' = live \union {NewItem}
    /\ frames' = Append(frames, [Fresh(NewItem) EXCEPT !.src = heap[Top.src].child])
    /\ UNCHANGED <<heap, roots, leaked, call, value, origin>>

\* The list of newitem is whole: the first child gets the last one as prev.
Closed(f) == Set(heap, heap[f.item].child, "prev", f.last)

AttachCopy(f, x) == [f EXCEPT !.last = x, !.src = heap[@].next]

DuplicateReturn ==
    /\ call = "duplicate" /\ Top.src = NULL /\ Len(frames) > 1
    /\ LET up == frames[Len(frames) - 1]
           x == Top.item
       IN  /\ heap' = IF up.last = NULL THEN Set(Closed(Top), up.item, "child", x)
                      ELSE suffix_object(Closed(Top), up.last, x)
           /\ frames' = [Front(frames) EXCEPT ![Len(frames) - 1] = AttachCopy(up, x)]
    /\ UNCHANGED <<live, roots, leaked, call, value, origin>>

DuplicateDone ==
    /\ call = "duplicate" /\ Top.src = NULL /\ Len(frames) = 1
    /\ heap' = Closed(Top)
    /\ roots' = roots \union {Top.item}
    /\ Return
    /\ UNCHANGED <<live, leaked>>

DuplicateFail ==
    /\ call = "duplicate" /\ Top.src # NULL
    /\ LET D == UNION {Doomed(heap, frames[i].item) : i \in DOMAIN frames} IN
       live' = live \ D /\ heap' = Freed(heap, D)
    /\ Return
    /\ UNCHANGED <<roots, leaked>>

Edit == \/ Create \/ CreateReference \/ CreateArrayOf \/ AddItem \/ AddNewItem
        \/ AddItemReference \/ AddItemReferenceFails \/ DetachItem \/ DeleteItem
        \/ InsertItemInArray \/ ReplaceItem \/ Delete

Next ==
    \/ call = "none" /\ Editable /\ Edit
    \/ Parse \/ ParseScalar \/ ParseOpen \/ ParseComma \/ ParseClose \/ ParseDone \/ ParseFail
    \/ Duplicate \/ DuplicateChild \/ DuplicateReturn \/ DuplicateDone \/ DuplicateFail

Spec == Init /\ [][Next]_vars

-----------------------------------------------------------------------------
(* Properties.                                                             *)

\* Every list of children the caller can reach is whole, whatever calls built
\* and changed it: next and prev are inverse, the walk along next ends, and the
\* first child's prev is the last child, where add_item_to_array appends.  An
\* item that is in no list has no neighbours, so deleting it deletes no others.
RingsClosed ==
    /\ \A p \in Containers :
        LET s == Children(heap, p) IN
        /\ Len(s) <= Size
        /\ \A i \in DOMAIN s : heap[s[i]].prev = s[IF i = 1 THEN Len(s) ELSE i - 1]
    /\ \A x \in roots : heap[x].next = NULL /\ heap[x].prev = NULL

Building == UNION {Doomed(heap, frames[i].item) \union Doomed(heap, frames[i].head) : i \in DOMAIN frames}

\* Every allocated item has exactly one owner who will delete it: the caller,
\* one list, or the call in progress.  So nothing is freed twice and nothing is
\* lost, but for the reference that AddItemReferenceToObject forgets.
OwnedOnce ==
    /\ live = Held \union leaked \union Building
    /\ Held \intersect Building = {} /\ leaked \intersect (Held \union Building) = {}
    /\ \A x \in Held : Cardinality({p \in Held : x \in ToSet(Owned(heap, p))})
                         = (IF x \in roots THEN 0 ELSE 1)

\* The shape a reader of the tree sees, references followed.
View(h, x) ==
    LET see[y \in Items, d \in 0 .. Size] ==
            IF d = 0 THEN <<>> ELSE [i \in DOMAIN Children(h, y) |-> see[Children(h, y)[i], d - 1]]
    IN  see[x, Size]

\* A copy that is handed to the caller reads the same as its original, however
\* the original mixes lists and references, and no reference is left in it.
CopyIsTrue ==
    [][(call = "duplicate" /\ roots' # roots) =>
        /\ View(heap', Top.item) = View(heap, origin)
        /\ \A x \in Tree(heap', Top.item) : ~heap'[x].ref]_vars

Lists == INSTANCE JsonLists
    WITH owned <- roots, kids <- [p \in Held |-> Owned(heap, p)]

\* The pointers implement sequences: every call changes the one list it names,
\* in the way it says, and leaves all others alone.
ImplementsLists == Lists!Spec
=============================================================================

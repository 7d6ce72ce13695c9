--------------------------------- MODULE Bst ---------------------------------
(***************************************************************************)
(* The search tree of lib/bst.c (the same file in ex1, ex2 and ex3) with   *)
(* one thread that changes it, as the lock of the directory allows, and    *)
(* one thread that searches it without that lock, as createFile and        *)
(* openFile of ex3 do.  Searches write nothing, so one stands for many.    *)
(*                                                                         *)
(* A node is named by its key.  insert and remove_item rewrite every link  *)
(* on their way with the value it has; their steps here are the stores     *)
(* that change one.  insert makes one such store, remove_item several,     *)
(* after it has freed the node: until the last of them the tree still      *)
(* leads to the freed node.                                                *)
(***************************************************************************)
EXTENDS Integers

CONSTANTS
  Key,      \* names, in the order of strcmp
  Inumber,  \* i-numbers that a name may be given
  NULL      \* no node

ABSENT  == -1   \* what lookup returns for a missing name
PENDING == -2   \* the search is under way
LOST    == -3   \* the search read a freed node: any result, or a crash

ASSUME BstAssumption == /\ Key \subseteq Int /\ NULL \notin Key
                        /\ Inumber \subseteq Nat

VARIABLES
  root,      \* the tree
  left,
  right,
  inumber,
  removing,  \* the node that remove_item has freed and not yet unlinked
  min,       \* find_min of its right subtree, or NULL
  stores,    \* how many links remove_item has set since
  key,       \* what the search looks for
  at,        \* the node it is about to read
  result,    \* its result
  map,       \* history: the map that the operations made so far add up to
  valid      \* history: the results that would be right for the search

links   == <<root, left, right>>
removal == <<removing, min, stores>>
search  == <<key, at, result>>
vars    == <<links, inumber, removal, search, map, valid>>

Init ==
  /\ root = NULL
  /\ left = [k \in Key |-> NULL]
  /\ right = [k \in Key |-> NULL]
  /\ inumber = [k \in Key |-> ABSENT]
  /\ removing = NULL /\ min = NULL /\ stores = 0
  /\ key \in Key /\ at = NULL /\ result = ABSENT
  /\ map = [k \in Key |-> ABSENT]
  /\ valid = {ABSENT}

-----------------------------------------------------------------------------
(* search, by the thread that changes the tree: it alone, and atomic.      *)

\* The link that the comparison of k with the key of each node follows; none
\* from k itself.
Towards(k, l, r) ==
  [p \in Key |-> IF k < p THEN l[p] ELSE IF k > p THEN r[p] ELSE NULL]

\* The nodes met from x on when next is followed: the least set that holds x
\* and, with a node, the next one.
From(x, next) ==
  LET Closed == {S \in SUBSET Key : /\ x \in S \cup {NULL}
                                    /\ \A p \in S : next[p] \in S \cup {NULL}}
  IN {p \in Key : \A S \in Closed : p \in S}

\* The nodes that search(root, k) meets: k is found when it is one of them.
Path(k) == From(root, Towards(k, left, right))

-----------------------------------------------------------------------------
(* insert and remove_item.                                                 *)

\* A search under way may also return what the map says after this step, and,
\* while remove_item moves the node it looks for, nothing.
Remember ==
  valid' = IF result # PENDING THEN valid
           ELSE valid \cup {map'[key]} \cup (IF key = min THEN {ABSENT} ELSE {})

\* The new node hangs from the last node of its path.
Link(k) ==
  IF root = NULL THEN root' = k /\ UNCHANGED <<left, right>>
  ELSE \E p \in Path(k) :
         /\ Towards(k, left, right)[p] = NULL
         /\ IF k < p THEN left' = [left EXCEPT ![p] = k] /\ UNCHANGED <<root, right>>
                     ELSE right' = [right EXCEPT ![p] = k] /\ UNCHANGED <<root, left>>

\* Mutant of Insert: a node that is found keeps its i-number.
InsertIfAbsent(k, i) ==
  /\ removing = NULL
  /\ inumber' = IF k \in Path(k) THEN inumber ELSE [inumber EXCEPT ![k] = i]
  /\ IF k \in Path(k) THEN UNCHANGED links ELSE Link(k)
  /\ map' = [map EXCEPT ![k] = i]
  /\ Remember
  /\ UNCHANGED <<removal, search>>

\* A new node, whole, is linked; or the node found gets the new i-number.
Insert(k, i) ==
  /\ removing = NULL
  /\ inumber' = [inumber EXCEPT ![k] = i]
  /\ IF k \in Path(k) THEN UNCHANGED links ELSE Link(k)
  /\ map' = [map EXCEPT ![k] = i]
  /\ Remember
  /\ UNCHANGED <<removal, search>>

\* free(p), where a search may be; l, r and m are read before.
Free(k) ==
  /\ removing = NULL
  /\ k \in Path(k)
  /\ removing' = k
  /\ IF right[k] = NULL THEN min' = NULL
     ELSE min' \in {p \in From(right[k], left) : left[p] = NULL}
  /\ stores' = 0
  /\ map' = [map EXCEPT ![k] = ABSENT]
  /\ Remember
  /\ IF result = PENDING /\ at = k THEN result' = LOST /\ UNCHANGED <<key, at>>
                                   ELSE UNCHANGED search
  /\ inumber' = [inumber EXCEPT ![k] = ABSENT]
  /\ UNCHANGED links

\* The link to p is made to lead to q; those of p itself are gone.
Redirected(f, p, q) ==
  [n \in Key |-> IF n = p THEN NULL ELSE IF f[n] = p THEN q ELSE f[n]]

Redirect(p, q) ==
  /\ root' = IF root = p THEN q ELSE root
  /\ left' = Redirected(left, p, q)
  /\ right' = Redirected(right, p, q)

\* What left[removing] and right[removing] hold are the locals l and r.
Cut ==
  IF min = right[removing]
    THEN UNCHANGED links
    ELSE /\ left' = [n \in Key |-> IF left[n] = min THEN right[min] ELSE left[n]]
         /\ UNCHANGED <<root, right>>

SetRight ==
  /\ right' = IF min = right[removing]
                THEN right ELSE [right EXCEPT ![min] = right[removing]]
  /\ UNCHANGED <<root, left>>

SetLeft ==
  /\ left' = [left EXCEPT ![min] = left[removing]]
  /\ UNCHANGED <<root, right>>

\* Mutant of Store: m->right is set before m is taken from the right subtree
\* (and what was right of m is forgotten).
StoreRightFirst ==
  /\ removing # NULL /\ min # NULL
  /\ stores < 3 /\ stores' = stores + 1
  /\ \/ stores = 0 /\ SetRight
     \/ /\ stores = 1 /\ UNCHANGED <<root, right>>
        /\ left' = [n \in Key |-> IF left[n] = min THEN NULL ELSE left[n]]
     \/ stores = 2 /\ SetLeft
  /\ UNCHANGED <<inumber, removing, min, search, map>>
  /\ Remember

\* Mutant of Store: m->left is not set.
StoreWithoutLeft ==
  /\ removing # NULL /\ min # NULL
  /\ stores < 3 /\ stores' = stores + 1
  /\ \/ stores = 0 /\ Cut
     \/ stores = 1 /\ SetRight
     \/ stores = 2 /\ UNCHANGED links
  /\ UNCHANGED <<inumber, removing, min, search, map>>
  /\ Remember

\* remove_min in the right subtree, m->right and m->left, in this order.
Store ==
  /\ removing # NULL /\ min # NULL
  /\ stores < 3 /\ stores' = stores + 1
  /\ \/ stores = 0 /\ Cut
     \/ stores = 1 /\ SetRight
     \/ stores = 2 /\ SetLeft
  /\ UNCHANGED <<inumber, removing, min, search, map>>
  /\ Remember

\* The parent, or the root, leads to what remove_item returns: l when there is
\* no right subtree.
Relink ==
  /\ removing # NULL
  /\ min = NULL \/ stores = 3
  /\ Redirect(removing, IF min = NULL THEN left[removing] ELSE min)
  /\ removing' = NULL /\ min' = NULL /\ stores' = 0
  /\ UNCHANGED <<inumber, search, map>>
  /\ Remember

-----------------------------------------------------------------------------
(* search, by a thread without the lock.                                   *)

\* Following a link to p.
Arrive(p) ==
  /\ at' = p
  /\ result' = CASE p = NULL     -> ABSENT
                 [] p = removing /\ p # NULL -> LOST
                 [] OTHER        -> PENDING

Start(k) ==
  /\ result # PENDING
  /\ key' = k
  /\ Arrive(root)
  /\ valid' = {map[k]} \cup (IF k = min THEN {ABSENT} ELSE {})
  /\ UNCHANGED <<links, inumber, removal, map>>

\* Comparing the keys and following a link, or reading the i-number found.
Step ==
  /\ result = PENDING
  /\ \/ key < at /\ Arrive(left[at])
     \/ key > at /\ Arrive(right[at])
     \/ key = at /\ result' = inumber[at] /\ UNCHANGED at
  /\ UNCHANGED <<links, inumber, removal, key, map, valid>>

\* A step of the thread that changes the tree.
Change ==
  (\E k \in Key : (\E i \in Inumber : Insert(k, i)) \/ Free(k)) \/ Store \/ Relink

Next == Change \/ (\E k \in Key : Start(k)) \/ Step

\* A search goes on whatever the other thread does.
Spec == Init /\ [][Next]_vars /\ WF_vars(Step)

-----------------------------------------------------------------------------
(* Properties *)

\* Between operations the tree is the map of its insertions and removals: each
\* name leads to its own i-number by comparison, and no other name to a node.
IsTheMap ==
  removing = NULL =>
    \A k \in Key : map[k] = IF k \in Path(k) THEN inumber[k] ELSE ABSENT

\* A search without the lock that reads no freed node is right at some moment
\* between its start and its end, for every name but the successor of a removed
\* one: that name alone may be missed while it is there.
OnlySuccessorMissed == result \in valid \cup {PENDING, LOST}

\* Whenever the thread that changes the tree stops, in the middle of an operation
\* too, the links form no cycle in which a search could turn: no nodes have all
\* their parents among themselves.
NoCycle ==
  \A S \in SUBSET Key :
    (\A q \in S : \E p \in S : q \in {left[p], right[p]}) => S = {}

\* It comes to an end, unless the tree is changed for ever under it.
SearchEnds ==
  []<><<Change>>_vars \/ (result = PENDING ~> result # PENDING)
=============================================================================

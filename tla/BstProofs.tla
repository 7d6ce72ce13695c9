----------------------------- MODULE BstProofs -----------------------------
(***************************************************************************)
(* Proofs about Bst: the tree is the map of its operations, the search     *)
(* that holds no lock misses at most the successor of a removed name, and  *)
(* the links never form a cycle, for every set of names.                   *)
(*                                                                         *)
(* All rest on one inductive invariant.  Its core is Found: each name is   *)
(* on its own path at every store of a removal, but for the node that      *)
(* moves.  A store keeps it because a set closed under the new links turns *)
(* into one closed under the old links by adding or dropping the node that *)
(* moves; the lemmas KeptBy... construct that set.  That the node that     *)
(* moves is greater than the one removed and smaller than what it is put   *)
(* over follows from Found as well, since every node has one parent.       *)
(***************************************************************************)
EXTENDS Bst, TLAPS

Pointer == Key \cup {NULL}
Links   == [Key -> Pointer]

\* The nodes that a link may lead to: the freed one too, until it is unlinked.
Nodes == {k \in Key : map[k] # ABSENT} \cup ({removing} \ {NULL})

TypeOK ==
  /\ root \in Pointer /\ left \in Links /\ right \in Links
  /\ inumber \in [Key -> Inumber \cup {ABSENT}]
  /\ removing \in Pointer /\ min \in Pointer /\ stores \in 0..3
  /\ key \in Key /\ at \in Pointer
  /\ result \in Inumber \cup {ABSENT, PENDING, LOST}
  /\ map \in [Key -> Inumber \cup {ABSENT}]
  /\ valid \in SUBSET (Inumber \cup {ABSENT})

\* Links lead to nodes, and only nodes have links.
Linked ==
  /\ root \in Nodes \cup {NULL}
  /\ \A p \in Key : /\ left[p] \in Nodes \cup {NULL}
                    /\ right[p] \in Nodes \cup {NULL}
                    /\ p \notin Nodes => left[p] = NULL /\ right[p] = NULL

\* Nodes a and b have no child in common, on either side.
Apart(a, b, l, r) ==
  /\ l[a] # NULL /\ l[a] = l[b] => a = b
  /\ r[a] # NULL /\ r[a] = r[b] => a = b
  /\ l[a] # NULL => l[a] # r[b]

\* What moves up shares its right child with its old parent after the first
\* store, and a child with the freed node after the second or the third.
Sharing(a, b) ==
  \/ /\ stores = 1 /\ min # right[removing]
     /\ a = min \/ b = min
  \/ /\ stores = 3 \/ (stores = 2 /\ min # right[removing])
     /\ a # b /\ a \in {removing, min} /\ b \in {removing, min}

OneParent ==
  /\ \A a \in Key, b \in Key : Sharing(a, b) \/ Apart(a, b, left, right)
  /\ root # NULL => \A a \in Key : left[a] # root /\ right[a] # root

\* Each name is on its path; the one that moves up is off it from the first
\* store to the last.
Found ==
  \A k \in Key : map[k] # ABSENT /\ (k = min => stores = 0) => k \in Path(k)

Idle ==
  /\ removing = NULL => min = NULL
  /\ min = NULL => stores = 0

\* The freed node keeps its links until it is unlinked.
Freed ==
  removing # NULL => /\ map[removing] = ABSENT
                     /\ left[removing] # removing /\ right[removing] # removing
                     /\ (min = NULL) <=> (right[removing] = NULL)

\* The left links from the right child of the freed node, where find_min and
\* remove_min go.
Spine == From(right[removing], left)

\* The node that moves up, through the three stores.
Moving ==
  min # NULL =>
    /\ map[min] # ABSENT /\ removing < min
    /\ removing \in Path(min)
    /\ stores < 3 => left[min] = NULL
    /\ stores = 3 => left[min] = left[removing]
    /\ stores = 0 => min \in Spine /\ \A y \in From(right[min], left) : y > min
    /\ stores >= 1 => /\ root # min
                      /\ \A n \in Key : left[n] # min /\ (right[n] = min => n = removing)
    /\ min # right[removing] =>
         /\ \A y \in Spine : y > min \/ (stores = 0 /\ y = min)
         /\ stores = 1 => right[min] \in Spine \cup {NULL}
         /\ stores >= 2 => right[min] = right[removing]

\* The tree and the removal in progress.
Shape == /\ TypeOK /\ inumber = map /\ Linked /\ OneParent /\ Found
         /\ Idle /\ Freed /\ Moving

\* A search that may not answer ABSENT has its name ahead of it.
Ahead ==
  result = PENDING =>
    /\ at \in Key /\ at # removing
    /\ map[key] \in valid
    /\ ABSENT \notin valid => /\ key = min => stores = 0
                              /\ key \in From(at, Towards(key, left, right))

IInv == Shape /\ Ahead /\ OnlySuccessorMissed

-----------------------------------------------------------------------------
(* The nodes met from a node on.                                           *)

\* They are closed under the function they are met by,
LEMMA FromClosed ==
  ASSUME NEW next \in Links, NEW x \in Pointer
  PROVE  /\ From(x, next) \subseteq Key
         /\ x \in From(x, next) \cup {NULL}
         /\ \A p \in From(x, next) : next[p] \in From(x, next) \cup {NULL}
  BY BstAssumption DEF From, Links, Pointer

\* and in every other closed set.
LEMMA FromLeast ==
  ASSUME NEW next \in Links, NEW x \in Pointer, NEW S \in SUBSET Key,
         x \in S \cup {NULL}, \A p \in S : next[p] \in S \cup {NULL}
  PROVE  From(x, next) \subseteq S
  BY DEF From

\* A node that is in every closed set is met.
LEMMA FromAll ==
  ASSUME NEW next \in Links, NEW x \in Pointer, NEW k \in Key,
         \A S \in SUBSET Key :
            x \in S \cup {NULL} /\ (\A p \in S : next[p] \in S \cup {NULL}) => k \in S
  PROVE  k \in From(x, next)
  BY DEF From

LEMMA FromNull ==
  ASSUME NEW next \in Links
  PROVE  From(NULL, next) = {}
<1>1. NULL \in Pointer /\ {} \in SUBSET Key
  BY DEF Pointer
<1> DEFINE S == {}
<1> HIDE DEF S
<1>2. S \in SUBSET Key /\ NULL \in S \cup {NULL} /\ \A p \in S : next[p] \in S \cup {NULL}
  BY DEF S
<1>3. From(NULL, next) \subseteq S
  BY <1>1, <1>2, FromLeast
<1> QED
  BY <1>3 DEF S

\* What is met from x, and is not x, is met from the next node.
LEMMA FromNext ==
  ASSUME NEW next \in Links, NEW x \in Pointer, NEW k \in From(x, next), k # x
  PROVE  x \in Key /\ k \in From(next[x], next)
<1>1. x \in Key
  BY FromNull DEF Pointer
<1>2. next[x] \in Pointer
  BY <1>1 DEF Links
<1> DEFINE S == {x} \cup From(next[x], next)
<1>3. S \in SUBSET Key /\ x \in S \cup {NULL} /\ \A p \in S : next[p] \in S \cup {NULL}
  BY <1>1, <1>2, FromClosed
<1> HIDE DEF S
<1>4. From(x, next) \subseteq S
  BY <1>3, FromLeast
<1> QED
  BY <1>1, <1>4 DEF S

\* The last node met from x is met from every node on the way.
LEMMA Onward ==
  ASSUME NEW next \in Links, NEW x \in Pointer, NEW k \in From(x, next), next[k] = NULL,
         NEW y \in From(x, next)
  PROVE  k \in From(y, next)
<1> DEFINE S == {p \in From(x, next) : k \in From(p, next)}
<1>1. S \in SUBSET Key /\ x \in S \cup {NULL}
  BY FromClosed
<1>2. ASSUME NEW p \in S PROVE next[p] \in S \cup {NULL}
  <2>1. p \in Pointer /\ next[p] \in From(x, next) \cup {NULL}
    BY FromClosed DEF Pointer
  <2> QED
    BY <2>1, FromNext
<1> HIDE DEF S
<1>3. From(x, next) \subseteq S
  BY <1>1, <1>2, FromLeast
<1> QED
  BY <1>3 DEF S

\* New links where there were none lead to all that was met before.
LEMMA FromGrows ==
  ASSUME NEW next \in Links, NEW new \in Links, NEW x \in Pointer,
         \A p \in Key : next[p] = NULL \/ new[p] = next[p]
  PROVE  From(x, next) \subseteq From(x, new)
<1>1. /\ From(x, new) \in SUBSET Key
      /\ x \in From(x, new) \cup {NULL}
      /\ \A p \in From(x, new) : next[p] \in From(x, new) \cup {NULL}
  BY FromClosed
<1> QED
  BY <1>1, FromLeast

\* A node met from y is met through its parent, if it has but one.
LEMMA ThroughParent ==
  ASSUME NEW way \in Links, NEW y \in Pointer, NEW b \in From(y, way), b # y,
         NEW q, \A n \in From(y, way) : way[n] = b => n = q
  PROVE  q \in From(y, way) /\ way[q] = b
<1> SUFFICES ASSUME ~(q \in From(y, way) /\ way[q] = b) PROVE FALSE
  OBVIOUS
<1> DEFINE S == From(y, way) \ {b}
<1>1. S \in SUBSET Key /\ y \in S \cup {NULL} /\ \A p \in S : way[p] \in S \cup {NULL}
  BY FromClosed
<1>2. b \notin S
  OBVIOUS
<1> HIDE DEF S
<1>3. From(y, way) \subseteq S
  BY <1>1, FromLeast
<1> QED
  BY <1>2, <1>3

\* When the way from y meets a node that is met from x, and the nodes on the
\* way to it have one parent each, it meets x.
LEMMA Climb ==
  ASSUME NEW next \in Links, NEW x \in Key, NEW way \in Links, NEW y \in Pointer,
         NEW z \in From(x, next), z \in From(y, way),
         \A q \in From(x, next), n \in From(y, way) :
            next[q] # NULL /\ way[n] = next[q] => n = q,
         \A q \in From(x, next) : next[q] # NULL => next[q] # y
  PROVE  x \in From(y, way)
<1> SUFFICES ASSUME x \notin From(y, way) PROVE FALSE
  OBVIOUS
<1> DEFINE S == From(x, next) \ From(y, way)
<1>1. x \in Pointer /\ S \in SUBSET Key /\ x \in S \cup {NULL}
  BY FromClosed DEF Pointer
<1>2. ASSUME NEW q \in S PROVE next[q] \in S \cup {NULL}
  <2>1. next[q] \in From(x, next) \cup {NULL}
    BY <1>1, FromClosed
  <2>2. CASE next[q] \in From(y, way) /\ next[q] # NULL
    <3>1. next[q] # y /\ \A n \in From(y, way) : way[n] = next[q] => n = q
      BY <2>2
    <3>2. q \in From(y, way)
      BY <2>2, <3>1, ThroughParent
    <3> QED
      BY <3>2
  <2> QED
    BY <2>1, <2>2
<1> HIDE DEF S
<1>3. From(x, next) \subseteq S
  BY <1>1, <1>2, FromLeast
<1> QED
  BY <1>3 DEF S

-----------------------------------------------------------------------------
(* What a store leaves on a path.  Each proof takes a set that is closed   *)
(* under the new links and finds one, closed under the old links, with no  *)
(* more of the names in question.                                          *)

LEMMA TowardsType ==
  ASSUME NEW k \in Key, NEW l \in Links, NEW r \in Links
  PROVE  /\ Towards(k, l, r) \in Links
         /\ \A p \in Key : /\ k < p => Towards(k, l, r)[p] = l[p]
                           /\ p < k => Towards(k, l, r)[p] = r[p]
                           /\ k = p => Towards(k, l, r)[p] = NULL
                           /\ k < p \/ p < k \/ k = p
<1>1. \A p \in Key : p \in Int /\ k \in Int /\ l[p] \in Pointer /\ r[p] \in Pointer
  BY BstAssumption DEF Links
<1>2. NULL \in Pointer
  BY DEF Pointer
<1> QED
  BY <1>1, <1>2 DEF Towards, Links

\* New links where there were none keep what is on a path.
LEMMA TowardsGrows ==
  ASSUME NEW l \in Links, NEW r \in Links, NEW l2 \in Links, NEW r2 \in Links,
         NEW k \in Key, NEW x \in Pointer,
         \A p \in Key : (l[p] = NULL \/ l2[p] = l[p]) /\ (r[p] = NULL \/ r2[p] = r[p])
  PROVE  From(x, Towards(k, l, r)) \subseteq From(x, Towards(k, l2, r2))
<1>1. \A p \in Key : Towards(k, l, r)[p] = NULL \/ Towards(k, l2, r2)[p] = Towards(k, l, r)[p]
  BY BstAssumption DEF Towards
<1> QED
  BY <1>1, TowardsType, FromGrows

\* The left link to m now leads to what is right of m.
CutOff(l, r, m) == [n \in Key |-> IF l[n] = m THEN r[m] ELSE l[n]]

\* It keeps every other node on every path.
LEMMA KeptByCut ==
  ASSUME NEW l \in Links, NEW r \in Links, NEW m \in Key, l[m] = NULL,
         NEW k \in Key, NEW x \in Pointer,
         NEW j \in From(x, Towards(k, l, r)), j # m
  PROVE  j \in From(x, Towards(k, CutOff(l, r, m), r))
<1> DEFINE way == Towards(k, l, r)
           new == Towards(k, CutOff(l, r, m), r)
<1>1. CutOff(l, r, m) \in Links
  BY DEF CutOff, Links
<1>2. way \in Links /\ new \in Links /\ j \in Key
  BY <1>1, TowardsType, FromClosed
<1>3. \A p \in Key : \/ new[p] = way[p]
                     \/ way[p] = m /\ new[p] = r[m] /\ k < p /\ l[p] = m
  <2> TAKE p \in Key
  <2>1. p \in Int /\ k \in Int
    BY BstAssumption
  <2>2. CutOff(l, r, m)[p] = IF l[p] = m THEN r[m] ELSE l[p]
    BY DEF CutOff
  <2>3. /\ way[p] = IF k < p THEN l[p] ELSE IF k > p THEN r[p] ELSE NULL
        /\ new[p] = IF k < p THEN CutOff(l, r, m)[p] ELSE IF k > p THEN r[p] ELSE NULL
    BY DEF Towards
  <2> HIDE DEF way, new
  <2> QED
    BY <2>1, <2>2, <2>3
<1>4. way[m] = r[m] \/ way[m] = NULL
  BY BstAssumption DEF Towards
<1>5. new[m] = way[m]
  BY <1>1, <1>3, BstAssumption
<1> SUFFICES ASSUME NEW S \in SUBSET Key, x \in S \cup {NULL},
                    \A p \in S : new[p] \in S \cup {NULL}
             PROVE  j \in S
  BY <1>2, FromAll
<1> DEFINE Q == IF r[m] \in S \cup {NULL} THEN S \cup {m} ELSE S
<1>6. Q \in SUBSET Key /\ x \in Q \cup {NULL} /\ \A p \in Q : way[p] \in Q \cup {NULL}
  BY <1>3, <1>4, <1>5
<1> HIDE DEF Q, way
<1>7. From(x, way) \subseteq Q
  BY <1>2, <1>6, FromLeast
<1> QED
  BY <1>7 DEF Q, way

\* A link of a node that no link leads to keeps every other node on every path
\* that does not begin there.
LEMMA KeptByUnreached ==
  ASSUME NEW l \in Links, NEW r \in Links, NEW r2 \in Links, NEW m \in Key,
         \A n \in Key : l[n] # m /\ r[n] # m /\ (n = m \/ r2[n] = r[n]),
         NEW k \in Key, NEW x \in Pointer, x # m
  PROVE  From(x, Towards(k, l, r)) \subseteq From(x, Towards(k, l, r2))
<1> DEFINE way == Towards(k, l, r)
           new == Towards(k, l, r2)
<1>1. way \in Links /\ new \in Links
  BY TowardsType
<1>2. From(x, way) \subseteq Key
  BY <1>1, FromClosed
<1> SUFFICES ASSUME NEW j \in From(x, way), NEW S \in SUBSET Key, x \in S \cup {NULL},
                    \A p \in S : new[p] \in S \cup {NULL}
             PROVE  j \in S
  BY <1>1, <1>2, FromAll
<1> DEFINE Q == S \ {m}
<1>3. \A p \in Key : way[p] # m /\ (p = m \/ new[p] = way[p])
  <2> TAKE p \in Key
  <2>1. m # NULL
    BY BstAssumption
  <2> QED
    BY <2>1, BstAssumption DEF Towards
<1>4. Q \in SUBSET Key /\ x \in Q \cup {NULL} /\ \A p \in Q : way[p] \in Q \cup {NULL}
  BY <1>3
<1> HIDE DEF Q, way
<1>5. From(x, way) \subseteq Q
  BY <1>1, <1>4, FromLeast
<1> QED
  BY <1>5 DEF Q

\* What Redirect does to links is again links; none leads to p.
LEMMA RedirectedType ==
  ASSUME NEW f \in Links, NEW p \in Key, NEW q \in Pointer
  PROVE  /\ Redirected(f, p, q) \in Links
         /\ \A n \in Key : Redirected(f, p, q)[n] = IF n = p THEN NULL
                                                 ELSE IF f[n] = p THEN q ELSE f[n]
  BY DEF Redirected, Links, Pointer

\* p has no right child: what is left of p takes its place.
LEMMA KeptByLeft ==
  ASSUME NEW l \in Links, NEW r \in Links, NEW p \in Key,
         l[p] # p, r[p] = NULL,
         NEW k \in Key, k # p, NEW x \in Pointer,
         k \in From(x, Towards(k, l, r))
  PROVE  k \in From(IF x = p THEN l[p] ELSE x,
                   Towards(k, Redirected(l, p, l[p]), Redirected(r, p, l[p])))
<1> DEFINE way == Towards(k, l, r)
           new == Towards(k, Redirected(l, p, l[p]), Redirected(r, p, l[p]))
           y == IF x = p THEN l[p] ELSE x
<1>1. l[p] \in Pointer /\ y \in Pointer
  BY DEF Links
<1>2. way \in Links /\ new \in Links
  BY <1>1, TowardsType, RedirectedType
<1>3. /\ way[p] \in {l[p], NULL}
      /\ \A n \in Key \ {p} : new[n] = IF way[n] = p THEN l[p] ELSE way[n]
  <2>1. way[p] \in {l[p], NULL}
    BY BstAssumption DEF Towards
  <2>2. ASSUME NEW n \in Key \ {p}
        PROVE  new[n] = IF way[n] = p THEN l[p] ELSE way[n]
    <3>1. n \in Int /\ k \in Int /\ p # NULL
      BY BstAssumption
    <3>2. /\ Redirected(l, p, l[p])[n] = IF l[n] = p THEN l[p] ELSE l[n]
          /\ Redirected(r, p, l[p])[n] = IF r[n] = p THEN l[p] ELSE r[n]
      BY DEF Redirected
    <3> QED
      BY <3>1, <3>2 DEF Towards
  <2> QED
    BY <2>1, <2>2
<1> SUFFICES ASSUME NEW S \in SUBSET Key, y \in S \cup {NULL},
                    \A n \in S : new[n] \in S \cup {NULL}
             PROVE  k \in S
  BY <1>1, <1>2, FromAll
<1> DEFINE Q == (S \ {p}) \cup (IF l[p] \in S \cup {NULL} THEN {p} ELSE {})
<1>4. Q \in SUBSET Key /\ x \in Q \cup {NULL} /\ \A n \in Q : way[n] \in Q \cup {NULL}
  BY <1>3
<1> HIDE DEF Q, way
<1>5. From(x, way) \subseteq Q
  BY <1>2, <1>4, FromLeast
<1> QED
  BY <1>5 DEF Q, way

\* The least node m of the right subtree takes the place of p, with the
\* children of p: every name but these two stays on its path.
LEMMA KeptByMin ==
  ASSUME NEW l \in Links, NEW r \in Links, NEW p \in Key, NEW m \in Key, p < m,
         l[p] # p, r[p] # p, l[m] = l[p],
         m # r[p] => r[m] = r[p] /\ \A y \in From(r[p], l) : y > m,
         NEW k \in Key, k # p, k # m, NEW x \in Pointer,
         k \in From(x, Towards(k, l, r))
  PROVE  k \in From(IF x = p THEN m ELSE x,
                   Towards(k, Redirected(l, p, m), Redirected(r, p, m)))
<1> DEFINE way == Towards(k, l, r)
           new == Towards(k, Redirected(l, p, m), Redirected(r, p, m))
           y == IF x = p THEN m ELSE x
<1>1. m \in Pointer /\ y \in Pointer /\ r[p] \in Pointer
  BY DEF Links, Pointer
<1>2. way \in Links /\ new \in Links
  BY <1>1, TowardsType, RedirectedType
<1>0. /\ Key \subseteq Int /\ NULL \notin Key /\ p \in Int /\ m \in Int /\ k \in Int
      /\ way[p] = IF k < p THEN l[p] ELSE r[p]
      /\ way[m] = IF k < m THEN l[m] ELSE r[m]
  BY BstAssumption DEF Towards
<1>3. \A n \in Key \ {p} : new[n] = IF way[n] = p THEN m ELSE way[n]
  <2> TAKE n \in Key \ {p}
  <2>1. n \in Int /\ k \in Int /\ p # NULL
    BY BstAssumption
  <2>2. /\ Redirected(l, p, m)[n] = IF l[n] = p THEN m ELSE l[n]
        /\ Redirected(r, p, m)[n] = IF r[n] = p THEN m ELSE r[n]
    BY <1>1, RedirectedType
  <2> QED
    BY <2>1, <2>2 DEF Towards
<1> SUFFICES ASSUME NEW S \in SUBSET Key, y \in S \cup {NULL},
                    \A n \in S : new[n] \in S \cup {NULL}
             PROVE  k \in S
  BY <1>1, <1>2, FromAll
<1> DEFINE Q == IF m \notin S THEN S \ {p}
                ELSE IF p < k /\ k < m /\ m # r[p] THEN S \cup {p} \cup From(r[p], l)
                ELSE S \cup {p}
<1>4. Q \in SUBSET Key /\ x \in Q \cup {NULL} /\ \A n \in Q : way[n] \in Q \cup {NULL}
  <2>1. CASE m \notin S
    BY <1>0, <1>3, <2>1
  <2>2. CASE m \in S /\ p < k /\ k < m /\ m # r[p]
    <3>1. From(r[p], l) \in SUBSET Key /\ r[p] \in From(r[p], l) \cup {NULL}
      BY <1>1, FromClosed
    <3>2. ASSUME NEW n \in From(r[p], l) PROVE way[n] \in From(r[p], l) \cup {NULL}
      <4>1. n \in Int /\ n \in Key /\ n > m
        BY <1>0, <2>2, <3>1
      <4>2. k < n
        BY <1>0, <2>2, <4>1
      <4>3. way[n] = l[n]
        BY <4>1, <4>2 DEF Towards
      <4> QED
        BY <1>1, <4>3, FromClosed
    <3>3. way[p] = r[p]
      BY <1>0, <2>2
    <3>4. Q = S \cup {p} \cup From(r[p], l)
      BY <2>2
    <3>5. \A n \in S : n # p => way[n] = p \/ way[n] \in S \cup {NULL}
      BY <1>3
    <3> HIDE DEF Q, way
    <3> QED
      BY <3>1, <3>2, <3>3, <3>4, <3>5
  <2>3. CASE m \in S /\ ~(p < k /\ k < m /\ m # r[p])
    <3>1. new[m] \in S \cup {NULL} /\ m # p
      BY <1>0, <2>3
    <3>2. way[p] \in S \cup {NULL}
      BY <1>0, <1>3, <2>3, <3>1
    <3> QED
      BY <1>0, <1>3, <2>3, <3>2
  <2> QED
    BY <2>1, <2>2, <2>3
<1>5. k \in Q => k \in S
  BY <1>0
<1> HIDE DEF Q
<1>6. From(x, way) \subseteq Q
  BY <1>2, <1>4, FromLeast
<1> QED
  BY <1>5, <1>6

\* And m is on its path wherever p was.
LEMMA MinInPlace ==
  ASSUME NEW l \in Links, NEW r \in Links, NEW p \in Key, NEW m \in Key, p # m,
         NEW x \in Pointer, p \in From(x, Towards(m, l, r))
  PROVE  m \in From(IF x = p THEN m ELSE x,
                   Towards(m, Redirected(l, p, m), Redirected(r, p, m)))
<1> DEFINE way == Towards(m, l, r)
           new == Towards(m, Redirected(l, p, m), Redirected(r, p, m))
           y == IF x = p THEN m ELSE x
<1>1. m \in Pointer /\ y \in Pointer
  BY DEF Links, Pointer
<1>2. way \in Links /\ new \in Links
  BY <1>1, TowardsType, RedirectedType
<1>3. \A n \in Key \ {p} : new[n] = IF way[n] = p THEN m ELSE way[n]
  <2> TAKE n \in Key \ {p}
  <2>1. n \in Int /\ m \in Int /\ p # NULL
    BY BstAssumption
  <2>2. /\ Redirected(l, p, m)[n] = IF l[n] = p THEN m ELSE l[n]
        /\ Redirected(r, p, m)[n] = IF r[n] = p THEN m ELSE r[n]
    BY <1>1, RedirectedType
  <2> QED
    BY <2>1, <2>2 DEF Towards
<1>4. m # NULL
  BY BstAssumption
<1> SUFFICES ASSUME NEW S \in SUBSET Key, y \in S \cup {NULL},
                    \A n \in S : new[n] \in S \cup {NULL}, m \notin S
             PROVE  FALSE
  BY <1>1, <1>2, FromAll
<1> DEFINE Q == S \ {p}
<1>5. Q \in SUBSET Key /\ x \in Q \cup {NULL} /\ \A n \in Q : way[n] \in Q \cup {NULL}
  BY <1>3, <1>4
<1> HIDE DEF Q
<1>6. From(x, way) \subseteq Q
  BY <1>2, <1>5, FromLeast
<1> QED
  BY <1>6 DEF Q

-----------------------------------------------------------------------------
(* The order of the names, from the paths.                                 *)

LEMMA FromPrevious ==
  ASSUME NEW next \in Links, NEW x \in Key
  PROVE  From(next[x], next) \subseteq From(x, next)
<1>1. next[x] \in Pointer /\ x \in Pointer /\ x # NULL
  BY BstAssumption DEF Links, Pointer
<1>2. /\ From(x, next) \in SUBSET Key
      /\ x \in From(x, next)
      /\ \A p \in From(x, next) : next[p] \in From(x, next) \cup {NULL}
  BY <1>1, FromClosed
<1> QED
  BY <1>1, <1>2, FromLeast

LEMMA Unreached ==
  ASSUME NEW next \in Links, NEW x \in Pointer, NEW m \in Key, x # m,
         \A n \in Key : next[n] # m
  PROVE  m \notin From(x, next)
<1> DEFINE S == Key \ {m}
<1>1. S \in SUBSET Key /\ x \in S \cup {NULL} /\ \A n \in S : next[n] \in S \cup {NULL}
  BY DEF Links, Pointer
<1> HIDE DEF S
<1>2. From(x, next) \subseteq S
  BY <1>1, FromLeast
<1> QED
  BY <1>2 DEF S

\* Of two nodes apart, a path enters the child of one from no other node, and
\* on its side.
LEMMA OneWayPair ==
  ASSUME NEW l \in Links, NEW r \in Links, NEW k \in Key,
         NEW q \in Key, NEW n \in Key, Apart(q, n, l, r), Apart(n, q, l, r)
  PROVE  /\ l[q] # NULL /\ Towards(k, l, r)[n] = l[q] => n = q /\ k < q
         /\ r[q] # NULL /\ Towards(k, l, r)[n] = r[q] => n = q /\ q < k
<1>1. n \in Int /\ k \in Int
  BY BstAssumption
<1>2. Towards(k, l, r)[n] = IF k < n THEN l[n] ELSE IF k > n THEN r[n] ELSE NULL
  BY <1>1 DEF Towards
<1> QED
  BY <1>1, <1>2 DEF Apart

\* The same of all nodes, when they are apart.
LEMMA OneWay ==
  ASSUME NEW l \in Links, NEW r \in Links,
         \A a \in Key, b \in Key : Apart(a, b, l, r), NEW k \in Key
  PROVE  \A q \in Key, n \in Key :
            /\ l[q] # NULL /\ Towards(k, l, r)[n] = l[q] => n = q /\ k < q
            /\ r[q] # NULL /\ Towards(k, l, r)[n] = r[q] => n = q /\ q < k
<1> TAKE q \in Key, n \in Key
<1>1. Apart(q, n, l, r) /\ Apart(n, q, l, r)
  OBVIOUS
<1> QED
  BY <1>1, OneWayPair

\* What find_min returns is greater than the node removed, which is on its
\* path, and smaller than the nodes it was reached by.
LEMMA MinIsBetween ==
  ASSUME NEW l \in Links, NEW r \in Links, NEW x \in Pointer,
         \A a \in Key, b \in Key : Apart(a, b, l, r),
         x # NULL => \A a \in Key : l[a] # x /\ r[a] # x,
         NEW p \in Key, NEW m \in From(r[p], l), l[m] = NULL,
         m \in From(x, Towards(m, l, r))
  PROVE  /\ p < m /\ p \in From(x, Towards(m, l, r))
         /\ \A y \in From(r[p], l) : y = m \/ m < y
<1> DEFINE way == Towards(m, l, r)
<1>1. m \in Key /\ r[p] \in Pointer /\ r[p] \in Key
  BY FromNull, FromClosed DEF Links, Pointer
<1>2. way \in Links
  BY <1>1, TowardsType
<1>3. From(x, way) \subseteq Key /\ From(r[p], l) \subseteq Key /\ NULL \notin Key
  BY <1>1, <1>2, FromClosed, BstAssumption
<1>4. \A q \in Key, n \in Key :
            /\ l[q] # NULL /\ way[n] = l[q] => n = q /\ m < q
            /\ r[q] # NULL /\ way[n] = r[q] => n = q /\ q < m
  BY <1>1, OneWay
<1>5. \A q \in Key : l[q] # NULL => l[q] # x
  OBVIOUS
<1> HIDE DEF way
<1>6. r[p] \in From(x, way)
  BY <1>1, <1>2, <1>3, <1>4, <1>5, Climb DEF way
<1>7. p \in From(x, way) /\ way[p] = r[p]
  BY <1>1, <1>2, <1>3, <1>4, <1>6, ThroughParent
<1>8. p < m
  BY <1>1, <1>3, <1>4, <1>7
<1>9. ASSUME NEW y \in From(r[p], l), y # m PROVE m < y
  <2>1. m \in From(y, l) /\ y \in Pointer /\ y \in Key
    BY <1>1, <1>3, Onward DEF Pointer
  <2>2. m \in From(l[y], l)
    BY <1>9, <2>1, FromNext
  <2>3. l[y] \in Key
    BY <2>1, <2>2, FromNull DEF Links, Pointer
  <2>4. From(l[y], l) \subseteq Key
    BY <2>3, FromClosed DEF Pointer
  <2>5. l[y] \in From(x, way)
    BY <1>2, <1>3, <1>4, <1>5, <2>2, <2>3, <2>4, Climb DEF way
  <2>6. way[y] = l[y]
    BY <1>2, <1>3, <1>4, <1>5, <2>1, <2>3, <2>5, ThroughParent
  <2> QED
    BY <1>3, <1>4, <2>1, <2>3, <2>6
<1> QED
  BY <1>7, <1>8, <1>9 DEF way

\* What is left of its right child is greater.
LEMMA RightIsGreater ==
  ASSUME NEW l \in Links, NEW r \in Links, NEW x \in Pointer,
         \A a \in Key, b \in Key : Apart(a, b, l, r),
         x # NULL => \A a \in Key : l[a] # x /\ r[a] # x,
         NEW m \in Key, NEW y \in From(r[m], l), y \in From(x, Towards(y, l, r))
  PROVE  m < y
<1> DEFINE way == Towards(y, l, r)
<1>1. y \in Key /\ r[m] \in Pointer /\ r[m] \in Key
  BY FromNull, FromClosed DEF Links, Pointer
<1>2. way \in Links
  BY <1>1, TowardsType
<1>3. From(x, way) \subseteq Key /\ From(r[m], l) \subseteq Key /\ NULL \notin Key
  BY <1>1, <1>2, FromClosed, BstAssumption
<1>4. \A q \in Key, n \in Key :
            /\ l[q] # NULL /\ way[n] = l[q] => n = q /\ y < q
            /\ r[q] # NULL /\ way[n] = r[q] => n = q /\ q < y
  BY <1>1, OneWay
<1> HIDE DEF way
<1>5. r[m] \in From(x, way)
  BY <1>1, <1>2, <1>3, <1>4, Climb DEF way
<1>6. way[m] = r[m]
  BY <1>1, <1>2, <1>3, <1>4, <1>5, ThroughParent
<1> QED
  BY <1>1, <1>3, <1>4, <1>6

\* Once m is cut off, what a search still finds from it is found from the right
\* child of the removed node too.
LEMMA ThroughMin ==
  ASSUME NEW l \in Links, NEW r \in Links, NEW x \in Pointer,
         NEW p \in Key, NEW m \in Key,
         \A a \in Key \ {m}, b \in Key \ {m} : Apart(a, b, l, r),
         x # NULL => \A a \in Key : l[a] # x /\ r[a] # x,
         x # m, \A n \in Key : l[n] # m /\ r[n] # m,
         l[m] = NULL, r[m] \in From(r[p], l) \cup {NULL},
         NEW k \in Key, k # m, k \in From(x, Towards(k, l, r)), k \in From(m, Towards(k, l, r))
  PROVE  m < k /\ k \in From(r[p], Towards(k, l, r))
<1> DEFINE way == Towards(k, l, r)
<1>1. way \in Links
  BY TowardsType
<1>2. /\ way[k] = NULL
      /\ way[m] = IF k < m THEN NULL ELSE r[m]
      /\ \A n \in Key : way[n] # m
      /\ k \in Int /\ m \in Int /\ NULL \notin Key
  BY BstAssumption DEF Towards
<1>3. m \in Pointer /\ r[p] \in Pointer /\ r[p] # m /\ r[m] # m
  BY DEF Links, Pointer
<1> HIDE DEF way
<1>4. k \in From(way[m], way)
  BY <1>1, <1>3, FromNext DEF way
<1>5. way[m] = r[m] /\ m < k /\ r[m] # NULL
  BY <1>1, <1>2, <1>4, FromNull
<1>6. r[m] \in Key /\ r[m] \in Pointer /\ r[p] \in Key
  BY <1>3, <1>5, FromNull DEF Links, Pointer
<1>7. /\ From(x, way) \subseteq Key \ {m}
      /\ From(r[m], way) \subseteq Key \ {m}
      /\ From(r[p], l) \subseteq Key \ {m}
  BY <1>1, <1>2, <1>3, <1>6, FromClosed, Unreached
<1>8. \A q \in Key \ {m}, n \in Key \ {m} :
            /\ l[q] # NULL /\ way[n] = l[q] => n = q
            /\ way[q] # NULL /\ way[n] = way[q] => n = q
  <2>1. ASSUME NEW q \in Key \ {m}, NEW n \in Key \ {m}
        PROVE  /\ l[q] # NULL /\ way[n] = l[q] => n = q
               /\ r[q] # NULL /\ way[n] = r[q] => n = q
    <3>1. Apart(q, n, l, r) /\ Apart(n, q, l, r)
      OBVIOUS
    <3> QED
      BY <3>1, OneWayPair DEF way
  <2>2. \A q \in Key : way[q] \in {l[q], r[q], NULL}
    BY DEF way, Towards
  <2> QED
    BY <2>1, <2>2
<1>9. \A q \in Key : /\ l[q] # NULL => l[q] # x
                     /\ way[q] # NULL => way[q] # x
  BY BstAssumption DEF way, Towards
<1>10. r[m] \in From(x, way)
  <2>1. k \in From(r[m], way) /\ k \in From(x, way)
    BY <1>4, <1>5 DEF way
  <2> QED
    BY <1>1, <1>6, <1>7, <1>8, <1>9, <2>1, Climb
<1>11. r[p] \in From(x, way)
  <2>1. r[m] \in From(r[p], l)
    BY <1>5
  <2> QED
    BY <1>1, <1>6, <1>7, <1>8, <1>9, <1>10, <2>1, Climb
<1>12. k \in From(r[p], way)
  BY <1>1, <1>2, <1>11, Onward DEF way
<1> QED
  BY <1>5, <1>12 DEF way

-----------------------------------------------------------------------------
(* The tree at each step.                                                  *)

LEMMA PathType ==
  ASSUME TypeOK, NEW k \in Key
  PROVE  /\ root \in Pointer /\ Towards(k, left, right) \in Links
         /\ Path(k) \subseteq Key
  BY TowardsType, FromClosed DEF TypeOK, Path

\* Every way leads to nodes.
LEMMA FromInNodes ==
  ASSUME TypeOK, Linked, NEW next \in Links, NEW x \in Nodes \cup {NULL},
         \A p \in Key : next[p] \in {left[p], right[p], NULL}
  PROVE  From(x, next) \subseteq Nodes
<1>1. Nodes \in SUBSET Key /\ x \in Pointer
  BY DEF Nodes, TypeOK, Pointer
<1>2. \A p \in Nodes : next[p] \in Nodes \cup {NULL}
  BY <1>1 DEF Linked
<1> QED
  BY <1>1, <1>2, FromLeast

LEMMA PathInNodes ==
  ASSUME TypeOK, Linked, NEW k \in Key
  PROVE  Path(k) \subseteq Nodes
<1>1. \A p \in Key : Towards(k, left, right)[p] \in {left[p], right[p], NULL}
  BY DEF Towards
<1>2. root \in Nodes \cup {NULL} /\ Towards(k, left, right) \in Links
  BY PathType DEF Linked
<1> QED
  BY <1>1, <1>2, FromInNodes DEF Path

\* With no removal, the tree is the map: the invariant gives IsTheMap.
LEMMA ShapeIsTheMap ==
  ASSUME Shape
  PROVE  IsTheMap
<1> SUFFICES ASSUME removing = NULL, NEW k \in Key
             PROVE  map[k] = IF k \in Path(k) THEN inumber[k] ELSE ABSENT
  BY DEF IsTheMap
<1>1. k \in Path(k) => map[k] # ABSENT
  BY PathInNodes, BstAssumption DEF Shape, Nodes
<1>2. map[k] # ABSENT => k \in Path(k)
  BY BstAssumption DEF Shape, Found, Idle
<1> QED
  BY <1>1, <1>2 DEF Shape

LEMMA InitShape ==
  ASSUME Init
  PROVE  Shape
<1>1. TypeOK
  BY BstAssumption DEF Init, TypeOK, Pointer, Links, ABSENT
<1>2. inumber = map /\ Linked /\ OneParent
  BY DEF Init, Linked, OneParent, Apart
<1>3. Found /\ Idle /\ Freed /\ Moving
  BY DEF Init, Found, Idle, Freed, Moving
<1> QED
  BY <1>1, <1>2, <1>3 DEF Shape

\* A search changes nothing of it.
LEMMA SearchShape ==
  ASSUME Shape, UNCHANGED <<links, inumber, removal, map>>, TypeOK'
  PROVE  Shape'
<1> USE DEF links, removal
<1>1. Nodes' = Nodes /\ (\A k : Path(k)' = Path(k)) /\ Spine' = Spine
  BY DEF Nodes, Path, Spine
<1>2. inumber' = map' /\ Linked' /\ Idle' /\ Freed' /\ Found'
  BY <1>1 DEF Shape, Linked, Idle, Freed, Found
<1>3. OneParent'
  BY DEF Shape, OneParent, Sharing
<1>4. Moving'
  BY <1>1 DEF Shape, Moving
<1> QED
  BY <1>2, <1>3, <1>4 DEF Shape

LEMMA RememberType ==
  ASSUME TypeOK, map' \in [Key -> Inumber \cup {ABSENT}], key' = key, Remember
  PROVE  valid' \in SUBSET (Inumber \cup {ABSENT})
<1>1. map'[key] \in Inumber \cup {ABSENT}
  BY DEF TypeOK
<1> QED
  BY <1>1 DEF TypeOK, Remember

\* Links to p that now lead to q, which no other node leads to.
LEMMA RedirectedApart ==
  ASSUME NEW l \in Links, NEW r \in Links, NEW p \in Key, NEW q \in Pointer,
         \A a \in Key \ {p}, b \in Key \ {p} : Apart(a, b, l, r),
         q # NULL => \A n \in Key \ {p} : l[n] # q /\ r[n] # q
  PROVE  \A a \in Key, b \in Key : Apart(a, b, Redirected(l, p, q), Redirected(r, p, q))
<1> TAKE a \in Key, b \in Key
<1>1. /\ Redirected(l, p, q)[a] = IF a = p THEN NULL ELSE IF l[a] = p THEN q ELSE l[a]
      /\ Redirected(l, p, q)[b] = IF b = p THEN NULL ELSE IF l[b] = p THEN q ELSE l[b]
      /\ Redirected(r, p, q)[a] = IF a = p THEN NULL ELSE IF r[a] = p THEN q ELSE r[a]
      /\ Redirected(r, p, q)[b] = IF b = p THEN NULL ELSE IF r[b] = p THEN q ELSE r[b]
  BY DEF Redirected
<1>2. p # NULL
  BY BstAssumption
<1>3. CASE a = p \/ b = p
  BY <1>1, <1>3 DEF Apart
<1>4. CASE a # p /\ b # p
  <2>1. Apart(a, b, l, r)
    BY <1>4
  <2> QED
    BY <1>1, <1>2, <1>4, <2>1 DEF Apart
<1> QED
  BY <1>3, <1>4

\* A new node is linked where its path ends, whichever link that is.
LEMMA LinkShape ==
  ASSUME Shape, removing = NULL, NEW k \in Key, k \notin Path(k), Link(k)
  PROVE  /\ root' \in Pointer /\ left' \in Links /\ right' \in Links
         /\ \A a \in Key, b \in Key : Apart(a, b, left', right')
         /\ root' # NULL => \A a \in Key : left'[a] # root' /\ right'[a] # root'
         /\ \A j \in Key, x \in Pointer :
               From(x, Towards(j, left, right)) \subseteq From(x, Towards(j, left', right'))
         /\ k \in Path(k)' /\ \A j \in Key : Path(j) \subseteq Path(j)'
         /\ root' \in {root, k}
         /\ \A p \in Key : /\ left'[p] \in {left[p], k} /\ right'[p] \in {right[p], k}
                           /\ p \notin Nodes => left'[p] = left[p] /\ right'[p] = right[p]
<1>1. /\ TypeOK /\ Linked /\ Found /\ min = NULL /\ stores = 0
      /\ \A a \in Key, b \in Key : Apart(a, b, left, right)
      /\ root # NULL => \A a \in Key : left[a] # root /\ right[a] # root
      /\ root \in Pointer /\ left \in Links /\ right \in Links
  BY DEF Shape, Idle, OneParent, Sharing, TypeOK
<1>2. k \in Pointer /\ k \in Int /\ k # NULL /\ NULL \in Pointer /\ Key \subseteq Int
  BY BstAssumption DEF Pointer
<1>3. map[k] = ABSENT /\ k \notin Nodes
  BY <1>1, <1>2 DEF Found, Nodes
<1>4. root # k /\ \A a \in Key : left[a] # k /\ right[a] # k
  BY <1>1, <1>2, <1>3 DEF Linked
<1>5. left[k] = NULL /\ right[k] = NULL
  BY <1>1, <1>3 DEF Linked
<1>6. CASE root = NULL
  <2>1. root' = k /\ left' = left /\ right' = right
    BY <1>6 DEF Link
  <2>2. Path(k)' = From(k, Towards(k, left, right))
    BY <2>1 DEF Path
  <2>3. k \in Path(k)'
    BY <1>1, <1>2, <2>2, TowardsType, FromClosed
  <2>4. \A j \in Key : Path(j) = {}
    BY <1>1, <1>6, TowardsType, FromNull DEF Path
  <2> QED
    BY <1>1, <1>2, <1>4, <2>1, <2>3, <2>4
<1>7. CASE root # NULL
  <2>1. PICK p \in Path(k) :
          /\ Towards(k, left, right)[p] = NULL
          /\ IF k < p THEN left' = [left EXCEPT ![p] = k] /\ UNCHANGED <<root, right>>
                      ELSE right' = [right EXCEPT ![p] = k] /\ UNCHANGED <<root, left>>
    BY <1>7 DEF Link
  <2>2. p \in Key /\ p # k /\ p \in Nodes /\ p \in Int
    BY <1>1, <1>2, PathType, PathInNodes
  <2>3. /\ k < p => left[p] = NULL
        /\ ~(k < p) => right[p] = NULL
    BY <1>2, <2>1, <2>2 DEF Towards
  <2>4. /\ root' = root /\ left' \in Links /\ right' \in Links
        /\ \A a \in Key : /\ left'[a] = IF k < p /\ a = p THEN k ELSE left[a]
                          /\ right'[a] = IF ~(k < p) /\ a = p THEN k ELSE right[a]
    BY <1>1, <1>2, <2>1, <2>2 DEF Links
  <2>5. \A a \in Key, b \in Key : Apart(a, b, left', right')
    <3> TAKE a \in Key, b \in Key
    <3>1. Apart(a, b, left, right)
      BY <1>1
    <3> QED
      BY <1>2, <1>4, <2>3, <2>4, <3>1 DEF Apart
  <2>6. \A a \in Key : left'[a] # root' /\ right'[a] # root'
    BY <1>1, <1>4, <1>7, <2>4
  <2>7. \A a \in Key : /\ left[a] = NULL \/ left'[a] = left[a]
                       /\ right[a] = NULL \/ right'[a] = right[a]
    BY <2>3, <2>4
  <2>8. \A j \in Key, x \in Pointer :
          From(x, Towards(j, left, right)) \subseteq From(x, Towards(j, left', right'))
    <3> TAKE j \in Key, x \in Pointer
    <3>1. left \in Links /\ right \in Links /\ left' \in Links /\ right' \in Links
      BY <1>1, <2>4
    <3> QED
      BY <2>7, <3>1, TowardsGrows
  <2>9. \A j \in Key : Path(j) \subseteq Path(j)'
    BY <1>1, <2>4, <2>8 DEF Path
  <2>10. Towards(k, left', right')[p] = k
    BY <1>2, <2>2, <2>4 DEF Towards
  <2>11. k \in Path(k)'
    <3>1. Path(k)' = From(root, Towards(k, left', right')) /\ Towards(k, left', right') \in Links
      BY <2>4, TowardsType DEF Path
    <3>2. p \in From(root, Towards(k, left', right'))
      BY <2>1, <2>9, <3>1
    <3>3. k \in From(root, Towards(k, left', right')) \cup {NULL}
      BY <1>1, <2>10, <3>1, <3>2, FromClosed
    <3> QED
      BY <1>2, <3>1, <3>3
  <2> QED
    BY <1>1, <2>2, <2>4, <2>5, <2>6, <2>8, <2>9, <2>11
<1> QED
  BY <1>6, <1>7

LEMMA InsertShape ==
  ASSUME Shape, NEW k \in Key, NEW i \in Inumber, Insert(k, i)
  PROVE  Shape'
<1>1. /\ TypeOK /\ Linked /\ OneParent /\ Found /\ Idle /\ inumber = map
      /\ removing = NULL /\ min = NULL /\ stores = 0
  BY DEF Shape, Insert, Idle
<1>2. /\ map' = [map EXCEPT ![k] = i] /\ inumber' = [inumber EXCEPT ![k] = i] /\ Remember
      /\ removing' = NULL /\ min' = NULL /\ stores' = 0
      /\ key' = key /\ at' = at /\ result' = result
  BY <1>1 DEF Insert, removal, search
<1>3. map' \in [Key -> Inumber \cup {ABSENT}]
  BY <1>1, <1>2 DEF TypeOK
<1>4. i # ABSENT /\ k # NULL
  BY BstAssumption DEF ABSENT
<1>5. \A j \in Key : map'[j] # ABSENT <=> map[j] # ABSENT \/ j = k
  BY <1>1, <1>2, <1>4 DEF TypeOK
<1>6. Nodes' = Nodes \cup {k}
  BY <1>1, <1>2, <1>5 DEF Nodes
<1>7. /\ root' \in Pointer /\ left' \in Links /\ right' \in Links
      /\ \A a \in Key, b \in Key : Apart(a, b, left', right')
      /\ root' # NULL => \A a \in Key : left'[a] # root' /\ right'[a] # root'
      /\ k \in Path(k)' /\ \A j \in Key : Path(j) \subseteq Path(j)'
      /\ root' \in {root, k}
      /\ \A p \in Key : /\ left'[p] \in {left[p], k} /\ right'[p] \in {right[p], k}
                        /\ p \notin Nodes => left'[p] = left[p] /\ right'[p] = right[p]
  <2>1. CASE k \in Path(k)
    <3>1. root' = root /\ left' = left /\ right' = right
      BY <2>1 DEF Insert, links
    <3>2. \A j \in Key : Path(j)' = Path(j)
      BY <3>1 DEF Path
    <3> QED
      BY <1>1, <2>1, <3>1, <3>2 DEF TypeOK, OneParent, Sharing
  <2>2. CASE k \notin Path(k)
    <3>1. Link(k)
      BY <2>2 DEF Insert
    <3> QED
      BY <1>1, <2>2, <3>1, LinkShape
  <2> QED
    BY <2>1, <2>2
<1>8. TypeOK'
  BY <1>1, <1>2, <1>3, <1>7, RememberType DEF TypeOK
<1>9. Linked'
  <2>1. root' \in Nodes' \cup {NULL}
    BY <1>1, <1>6, <1>7 DEF Linked
  <2>2. ASSUME NEW p \in Key
        PROVE  /\ left'[p] \in Nodes' \cup {NULL} /\ right'[p] \in Nodes' \cup {NULL}
               /\ p \notin Nodes' => left'[p] = NULL /\ right'[p] = NULL
    <3>1. /\ left[p] \in Nodes \cup {NULL} /\ right[p] \in Nodes \cup {NULL}
          /\ p \notin Nodes => left[p] = NULL /\ right[p] = NULL
      BY <1>1 DEF Linked
    <3>2. /\ left'[p] \in {left[p], k} /\ right'[p] \in {right[p], k}
          /\ p \notin Nodes => left'[p] = left[p] /\ right'[p] = right[p]
      BY <1>7
    <3> QED
      BY <1>6, <3>1, <3>2
  <2> QED
    BY <2>1, <2>2 DEF Linked
<1>10. OneParent'
  BY <1>2, <1>7 DEF OneParent
<1>11. Found'
  BY <1>1, <1>2, <1>5, <1>7 DEF Found
<1>12. Idle' /\ Freed' /\ Moving'
  BY <1>2 DEF Idle, Freed, Moving
<1>13. inumber' = map'
  BY <1>1, <1>2
<1> QED
  BY <1>8, <1>9, <1>10, <1>11, <1>12, <1>13 DEF Shape

LEMMA FreeShape ==
  ASSUME Shape, NEW k \in Key, Free(k)
  PROVE  Shape'
<1>1. /\ TypeOK /\ Linked /\ Found /\ inumber = map
      /\ removing = NULL /\ min = NULL /\ stores = 0
      /\ \A a \in Key, b \in Key : Apart(a, b, left, right)
      /\ root # NULL => \A a \in Key : left[a] # root /\ right[a] # root
      /\ root \in Pointer /\ left \in Links /\ right \in Links
  BY DEF Shape, Free, Idle, OneParent, Sharing, TypeOK
<1>2. /\ root' = root /\ left' = left /\ right' = right
      /\ removing' = k /\ stores' = 0 /\ key' = key /\ at' = at
      /\ result' \in {result, LOST}
      /\ map' = [map EXCEPT ![k] = ABSENT] /\ inumber' = [inumber EXCEPT ![k] = ABSENT]
      /\ Remember /\ k \in Path(k)
  BY DEF Free, links, search
<1>3. /\ right[k] = NULL => min' = NULL
      /\ right[k] # NULL => min' \in From(right[k], left) /\ left[min'] = NULL
  BY DEF Free
<1>4. right[k] \in Pointer /\ k # NULL /\ NULL \notin Key
  BY <1>1, BstAssumption DEF Links
<1>5. From(right[k], left) \subseteq Nodes /\ Nodes \subseteq Key
  <2>1. right[k] \in Nodes \cup {NULL}
    BY <1>1 DEF Linked
  <2> QED
    BY <1>1, <2>1, FromInNodes DEF Nodes, TypeOK, Pointer
<1>6. map' \in [Key -> Inumber \cup {ABSENT}] /\ min' \in Pointer
  BY <1>1, <1>2, <1>3, <1>4, <1>5 DEF TypeOK, Pointer
<1>7. TypeOK'
  BY <1>1, <1>2, <1>6, RememberType DEF TypeOK, Pointer
<1>8. \A j \in Key : map'[j] # ABSENT <=> map[j] # ABSENT /\ j # k
  BY <1>1, <1>2 DEF TypeOK
<1>9. k \in Nodes
  BY <1>1, <1>2, PathInNodes
<1>10. Nodes' = Nodes
  BY <1>1, <1>2, <1>4, <1>8, <1>9 DEF Nodes
<1>11. Linked'
  BY <1>1, <1>2, <1>10 DEF Linked
<1>12. OneParent'
  BY <1>1, <1>2 DEF OneParent
<1>13. \A j \in Key : Path(j)' = Path(j)
  BY <1>2 DEF Path
<1>14. \A j \in Nodes : j \in Path(j)
  BY <1>1, BstAssumption DEF Nodes, Found
<1>15. Found'
  BY <1>1, <1>4, <1>8, <1>13 DEF Found
<1>16. left[k] # k /\ right[k] # k
  <2> SUFFICES ASSUME left[k] = k \/ right[k] = k PROVE FALSE
    OBVIOUS
  <2>1. root # k
    BY <1>1, <1>4
  <2>2. Towards(k, left, right) \in Links
    BY <1>1, TowardsType
  <2>3. Towards(k, left, right)[k] = NULL
    BY BstAssumption DEF Towards
  <2>4. \A n \in Path(k) : Towards(k, left, right)[n] = k => n = k
    <3> TAKE n \in Path(k)
    <3>1. n \in Key
      BY <1>1, PathType
    <3>2. Apart(n, k, left, right) /\ Apart(k, n, left, right)
      BY <1>1, <3>1
    <3>3. Towards(k, left, right)[n] \in {left[n], right[n], NULL}
      BY <3>1 DEF Towards
    <3> QED
      BY <1>4, <3>2, <3>3 DEF Apart
  <2>5. Towards(k, left, right)[k] = k
    BY <1>1, <1>2, <2>1, <2>2, <2>4, ThroughParent DEF Path
  <2> QED
    BY <1>4, <2>3, <2>5
<1>17. Idle' /\ Freed'
  BY <1>1, <1>2, <1>3, <1>4, <1>5, <1>16 DEF Idle, Freed, TypeOK
<1>18. Moving'
  <2> SUFFICES ASSUME right[k] # NULL PROVE Moving'
    BY <1>3 DEF Moving
  <2> DEFINE m == min'
  <2>1. m \in From(right[k], left) /\ m \in Key /\ m \in Nodes /\ left[m] = NULL
    BY <1>3, <1>5
  <2>2. m \in From(root, Towards(m, left, right))
    BY <1>14, <2>1 DEF Path
  <2> HIDE DEF m
  <2>3. /\ k < m /\ k \in From(root, Towards(m, left, right))
        /\ \A y \in From(right[k], left) : y = m \/ m < y
    BY <1>1, <2>1, <2>2, MinIsBetween
  <2>4. ASSUME NEW y \in From(right[m], left) PROVE m < y
    <3>1. y \in Nodes
      <4>1. right[m] \in Nodes \cup {NULL}
        BY <1>1, <2>1 DEF Linked
      <4> QED
        BY <1>1, <4>1, FromInNodes
    <3>2. y \in From(root, Towards(y, left, right))
      BY <1>14, <3>1 DEF Path
    <3> QED
      BY <1>1, <2>1, <3>2, RightIsGreater
  <2>5. m # k /\ map'[m] # ABSENT
    BY <1>1, <1>4, <1>8, <2>1, <2>3, BstAssumption DEF Nodes
  <2>6. k \in Path(min)'
    BY <1>2, <2>3 DEF Path, m
  <2>7. Spine' = From(right[k], left)
    BY <1>2 DEF Spine
  <2>8. \A y \in Spine' : y > m \/ y = m
    BY <2>3, <2>7
  <2>9. \A y \in From(right'[m], left') : y > m
    BY <1>2, <2>4
  <2> QED
    BY <1>2, <2>1, <2>3, <2>5, <2>6, <2>7, <2>8, <2>9 DEF Moving, m
<1>19. inumber' = map'
  BY <1>1, <1>2
<1> QED
  BY <1>7, <1>11, <1>12, <1>15, <1>17, <1>18, <1>19 DEF Shape

-----------------------------------------------------------------------------
(* The stores of a removal.                                                *)

\* What holds at every store, and what none of them changes.
Storing ==
  /\ Shape /\ removing # NULL /\ min # NULL
  /\ UNCHANGED <<root, inumber, removing, min, search, map>>
  /\ Remember

LEMMA StoringFacts ==
  ASSUME Storing
  PROVE  /\ removing \in Key /\ min \in Key /\ removing # min
         /\ removing < min /\ map[removing] = ABSENT /\ map[min] # ABSENT
         /\ right[removing] \in Key /\ right[removing] # removing /\ left[removing] # removing
         /\ root \in Pointer /\ left \in Links /\ right \in Links
         /\ removing \in Path(min) /\ TypeOK /\ Linked /\ Found
         /\ min \in Nodes /\ removing \in Nodes /\ Nodes \subseteq Key
         /\ Nodes' = Nodes /\ root' = root /\ min' = min /\ removing' = removing /\ map' = map
         /\ \A y \in Spine : y \in Key
         /\ left[removing] \in Pointer /\ right[min] \in Pointer
         /\ Key \subseteq Int /\ NULL \notin Key
<1>1. /\ TypeOK /\ Linked /\ Found /\ Idle /\ Freed /\ Moving
      /\ removing # NULL /\ min # NULL
      /\ root' = root /\ min' = min /\ removing' = removing /\ map' = map
  BY DEF Storing, Shape
<1>2. removing \in Key /\ min \in Key /\ Key \subseteq Int /\ NULL \notin Key
  BY <1>1, BstAssumption DEF TypeOK, Pointer
<1>3. left[removing] \in Pointer /\ right[min] \in Pointer /\ right[removing] \in Pointer
  BY <1>1, <1>2 DEF TypeOK, Links
<1>4. right[removing] \in Key
  BY <1>1, <1>3 DEF Freed, Pointer
<1>5. \A y \in Spine : y \in Key
  BY <1>1, <1>3, FromClosed DEF Spine, TypeOK
<1>6. Nodes' = Nodes /\ min \in Nodes /\ removing \in Nodes /\ Nodes \subseteq Key
  BY <1>1, <1>2 DEF Nodes, Moving
<1>7. removing < min /\ map[removing] = ABSENT /\ map[min] # ABSENT /\ removing \in Path(min)
  BY <1>1 DEF Moving, Freed
<1> QED
  BY <1>1, <1>2, <1>3, <1>4, <1>5, <1>6, <1>7 DEF TypeOK, Freed

\* What a store has to be checked for.
LEMMA StoreShape ==
  ASSUME Storing, left' \in Links, right' \in Links, stores' \in 1..3,
         Linked', OneParent', Moving',
         \A j \in Key : map[j] # ABSENT /\ j # min => j \in Path(j)',
         left'[removing] # removing, right'[removing] = right[removing]
  PROVE  Shape'
<1>1. TypeOK /\ inumber' = map' /\ Idle /\ Freed /\ map' = map
  BY DEF Storing, Shape
<1>2. TypeOK'
  <2>1. map' \in [Key -> Inumber \cup {ABSENT}] /\ key' = key /\ Remember
    BY <1>1 DEF Storing, TypeOK, search
  <2>2. valid' \in SUBSET (Inumber \cup {ABSENT})
    BY <1>1, <2>1, RememberType
  <2> QED
    BY <1>1, <2>1, <2>2 DEF Storing, TypeOK, search
<1>3. Found'
  BY <1>1 DEF Storing, Found
<1>4. Idle' /\ Freed'
  BY <1>1, StoringFacts DEF Storing, Idle, Freed
<1> QED
  BY <1>1, <1>2, <1>3, <1>4 DEF Shape

\* remove_min takes min out of the subtree, unless it is its root.
LEMMA CutShape ==
  ASSUME Storing, stores = 0, stores' = 1, Cut
  PROVE  Shape'
<1> DEFINE r == removing
           m == min
<1>1. /\ \A a \in Key, b \in Key : Apart(a, b, left, right)
      /\ root # NULL => \A a \in Key : left[a] # root /\ right[a] # root
      /\ left[m] = NULL /\ m \in Spine
      /\ \A y \in From(right[m], left) : y > m
      /\ m # right[r] => \A y \in Spine : y >= m
  <2>1. OneParent /\ Moving /\ min # NULL
    BY DEF Storing, Shape
  <2>2. \A y \in Spine : y \in Int
    BY StoringFacts
  <2>3. \A a \in Key, b \in Key : Apart(a, b, left, right)
    BY <2>1 DEF OneParent, Sharing
  <2>4. /\ root # NULL => \A a \in Key : left[a] # root /\ right[a] # root
        /\ left[m] = NULL /\ m \in Spine
        /\ \A y \in From(right[m], left) : y > m
    BY <2>1 DEF OneParent, Moving
  <2>5. m # right[r] => \A y \in Spine : y > m \/ y = m
    BY <2>1 DEF Moving
  <2>6. m \in Int
    BY StoringFacts
  <2> QED
    BY <2>2, <2>3, <2>4, <2>5, <2>6
<1>2. /\ r \in Key /\ m \in Key /\ r # m /\ r < m
      /\ right[r] \in Key /\ right[r] # r /\ left[r] # r
      /\ root \in Pointer /\ left \in Links /\ right \in Links
      /\ Nodes' = Nodes /\ root' = root /\ min' = m /\ removing' = r
      /\ Key \subseteq Int /\ NULL \notin Key /\ Linked /\ Found /\ TypeOK
      /\ removing \in Path(min) /\ map[m] # ABSENT /\ map' = map
  BY StoringFacts
<1>3. CASE m = right[r]
  <2>1. left' = left /\ right' = right
    BY <1>3 DEF Cut, links
  <2>2. /\ root # m
        /\ \A n \in Key : left[n] # m /\ (right[n] = m => n = r)
    <3>1. root # m
      BY <1>1, <1>2, <1>3
    <3>2. ASSUME NEW n \in Key PROVE left[n] # m /\ (right[n] = m => n = r)
      <4>1. Apart(n, r, left, right)
        BY <1>1, <1>2
      <4> QED
        BY <1>2, <1>3, <4>1 DEF Apart
    <3> QED
      BY <3>1, <3>2
  <2>3. OneParent'
    BY <1>1, <1>2, <2>1 DEF OneParent
  <2>4. Linked'
    BY <1>2, <2>1 DEF Linked
  <2>5. \A j \in Key : Path(j)' = Path(j)
    BY <1>2, <2>1 DEF Path
  <2>6. Path(min)' = Path(min)
    BY <1>2, <2>1 DEF Path
  <2>7. Moving'
    BY <1>1, <1>2, <1>3, <2>1, <2>2, <2>6 DEF Moving
  <2>8. \A j \in Key : map[j] # ABSENT /\ j # min => j \in Path(j)'
    BY <1>2, <2>5 DEF Found
  <2> QED
    BY <1>2, <2>1, <2>3, <2>4, <2>7, <2>8, StoreShape
<1>4. CASE m # right[r]
  <2>1. left' = CutOff(left, right, m) /\ right' = right
    BY <1>4 DEF Cut, CutOff
  <2>2. left' \in Links /\ \A n \in Key : left'[n] = IF left[n] = m THEN right[m] ELSE left[n]
    BY <1>2, <2>1 DEF CutOff, Links
  <2>3. PICK n \in Spine : left[n] = m
    <3> SUFFICES ASSUME \A n \in Spine : left[n] # m PROVE FALSE
      OBVIOUS
    <3> DEFINE S == Spine \ {m}
    <3>1. /\ Spine \in SUBSET Key /\ right[r] \in Spine \cup {NULL} /\ right[r] \in Pointer
          /\ \A y \in Spine : left[y] \in Spine \cup {NULL}
      BY <1>2, FromClosed DEF Spine, Pointer
    <3>2. S \in SUBSET Key /\ right[r] \in S \cup {NULL} /\ \A y \in S : left[y] \in S \cup {NULL}
      BY <1>4, <3>1
    <3> HIDE DEF S
    <3>3. From(right[r], left) \subseteq S
      BY <1>2, <3>1, <3>2, FromLeast
    <3> QED
      BY <1>1, <3>3 DEF S, Spine
  <2>4. n \in Key /\ n > m /\ n # r /\ n # m
    <3>1. n \in Key /\ n >= m /\ n # m
      BY <1>1, <1>2, <1>4, <2>3, StoringFacts
    <3> QED
      BY <1>2, <3>1
  <2>5. /\ root # m
        /\ \A a \in Key : right[a] # m /\ (left[a] = m => a = n)
    <3>1. root # m
      BY <1>1, <1>2, <2>3, <2>4
    <3>2. ASSUME NEW a \in Key PROVE right[a] # m /\ (left[a] = m => a = n)
      <4>1. Apart(n, a, left, right)
        BY <1>1, <2>4
      <4> QED
        BY <1>2, <2>3, <4>1 DEF Apart
    <3> QED
      BY <3>1, <3>2
  <2>6. left'[r] = left[r] /\ left'[m] = NULL
    BY <1>1, <1>2, <2>2, <2>4, <2>5
  <2>7. Linked'
    BY <1>2, <2>1, <2>2 DEF Linked
  <2>8. OneParent'
    <3>1. ASSUME NEW a \in Key, NEW b \in Key, a # m, b # m
          PROVE  Apart(a, b, left', right)
      <4>1. Apart(a, b, left, right) /\ Apart(a, m, left, right) /\ Apart(b, m, left, right)
            /\ Apart(m, a, left, right) /\ Apart(m, b, left, right)
        BY <1>1, <1>2
      <4>2. (left[a] = m => a = n) /\ (left[b] = m => b = n)
        BY <2>5
      <4>3. /\ left'[a] = IF left[a] = m THEN right[m] ELSE left[a]
            /\ left'[b] = IF left[b] = m THEN right[m] ELSE left[b]
        BY <2>2
      <4> QED
        BY <3>1, <4>1, <4>2, <4>3 DEF Apart
    <3>2. root # NULL => \A a \in Key : left'[a] # root /\ right[a] # root
      BY <1>1, <1>2, <2>2
    <3>3. \A a \in Key, b \in Key : a = m \/ b = m => Sharing(a, b)'
      BY <1>2, <1>4, <2>1 DEF Sharing
    <3> QED
      BY <1>2, <2>1, <3>1, <3>2, <3>3 DEF OneParent
  <2>9. \A j \in Key, k \in Key : j # m /\ j \in Path(k) => j \in Path(k)'
    BY <1>1, <1>2, <2>1, KeptByCut DEF Path
  <2>10. \A j \in Key : map[j] # ABSENT /\ j # min => j \in Path(j)'
    BY <1>2, <2>9 DEF Found
  <2>11. removing \in Path(min)'
    <3>1. Path(min)' = From(root, Towards(min, left', right'))
      BY <1>2 DEF Path
    <3>2. removing \in From(root, Towards(min, left', right'))
      BY <1>1, <1>2, <2>1, KeptByCut DEF Path
    <3> QED
      BY <3>1, <3>2
  <2>12. \A y \in Spine' : y > m
    <3> DEFINE S == (Spine \ {m}) \cup From(right[m], left)
    <3>1. /\ Spine \in SUBSET Key /\ right[r] \in Spine \cup {NULL} /\ right[r] \in Pointer
          /\ \A y \in Spine : left[y] \in Spine \cup {NULL}
      BY <1>2, FromClosed DEF Spine, Pointer
    <3>2. right[m] \in Pointer
      BY StoringFacts
    <3>3. /\ From(right[m], left) \in SUBSET Key
          /\ right[m] \in From(right[m], left) \cup {NULL}
          /\ \A y \in From(right[m], left) : left[y] \in From(right[m], left) \cup {NULL}
      BY <1>2, <3>2, FromClosed
    <3>4. S \in SUBSET Key /\ right[r] \in S \cup {NULL} /\ \A y \in S : left'[y] \in S \cup {NULL}
      BY <1>4, <2>2, <3>1, <3>3
    <3>5. \A y \in S : y > m
      <4> TAKE y \in S
      <4>1. y \in Int /\ m \in Int
        BY <1>2, <3>4
      <4> QED
        BY <1>1, <1>4, <4>1
    <3> HIDE DEF S
    <3>6. From(right[r], left') \subseteq S
      BY <2>2, <3>1, <3>4, FromLeast
    <3>7. Spine' = From(right[r], left')
      BY <1>2, <2>1 DEF Spine
    <3> QED
      BY <3>5, <3>6, <3>7
  <2>13. right[m] \in Spine' \cup {NULL}
    <3> SUFFICES ASSUME right[m] \notin Spine' \cup {NULL} PROVE FALSE
      OBVIOUS
    <3>1. Spine' = From(right[r], left') /\ right[r] \in Pointer
      BY <1>2, <2>1 DEF Spine, Pointer
    <3>2. /\ Spine' \in SUBSET Key /\ right[r] \in Spine' \cup {NULL}
          /\ \A y \in Spine' : left'[y] \in Spine' \cup {NULL}
      BY <2>2, <3>1, FromClosed
    <3>3. \A y \in Spine' : left[y] \in Spine' \cup {NULL}
      BY <2>2, <3>2
    <3>4. Spine \subseteq Spine'
      BY <1>2, <3>1, <3>2, <3>3, FromLeast DEF Spine
    <3>5. m > m /\ m \in Int
      BY <1>1, <1>2, <2>12, <3>4
    <3> QED
      BY <3>5
  <2>14. Moving'
    <3>1. \A a \in Key : left'[a] # m /\ (right'[a] = m => a = r)
      BY <1>2, <2>1, <2>2, <2>5
    <3> QED
      BY <1>2, <1>4, <2>1, <2>5, <2>6, <2>11, <2>12, <2>13, <3>1 DEF Moving
  <2> QED
    BY <1>2, <2>1, <2>2, <2>6, <2>7, <2>8, <2>10, <2>14, StoreShape
<1> QED
  BY <1>3, <1>4

\* min gets the right child of the freed node.
LEMMA SetRightShape ==
  ASSUME Storing, stores = 1, stores' = 2, SetRight
  PROVE  Shape'
<1> DEFINE r == removing
           m == min
<1>1. /\ r \in Key /\ m \in Key /\ r # m /\ r < m
      /\ right[r] \in Key /\ right[r] # r /\ left[r] # r
      /\ root \in Pointer /\ left \in Links /\ right \in Links
      /\ Nodes' = Nodes /\ root' = root /\ min' = m /\ removing' = r
      /\ NULL \notin Key /\ Linked /\ Found /\ TypeOK /\ m \in Nodes
      /\ removing \in Path(min) /\ map[m] # ABSENT /\ map' = map
  BY StoringFacts
<1>2. /\ OneParent
      /\ left[m] = NULL /\ root # m
      /\ \A n \in Key : left[n] # m /\ (right[n] = m => n = r)
      /\ m # right[r] => \A y \in Spine : y > m
  BY DEF Storing, Shape, Moving
<1>3. left' = left
  BY DEF SetRight
<1>4. CASE m = right[r]
  <2>1. right' = right
    BY <1>4 DEF SetRight
  <2>2. \A a \in Key, b \in Key : Apart(a, b, left, right)
    BY <1>2, <1>4 DEF OneParent, Sharing
  <2>3. OneParent'
    BY <1>1, <1>2, <1>3, <2>1, <2>2 DEF OneParent
  <2>4. Linked'
    BY <1>1, <1>3, <2>1 DEF Linked
  <2>5. \A j \in Key : Path(j)' = Path(j)
    BY <1>1, <1>3, <2>1 DEF Path
  <2>6. Path(min)' = Path(min)
    BY <1>1, <1>3, <2>1 DEF Path
  <2>7. Moving'
    BY <1>1, <1>2, <1>3, <1>4, <2>1, <2>6 DEF Moving
  <2>8. \A j \in Key : map[j] # ABSENT /\ j # min => j \in Path(j)'
    BY <1>1, <2>5 DEF Found
  <2> QED
    BY <1>1, <1>3, <2>1, <2>3, <2>4, <2>7, <2>8, StoreShape
<1>5. CASE m # right[r]
  <2>1. right' = [right EXCEPT ![m] = right[r]] /\ right' \in Links
    BY <1>1, <1>5 DEF SetRight, Links, Pointer
  <2>2. \A n \in Key : right'[n] = IF n = m THEN right[r] ELSE right[n]
    BY <1>1, <2>1 DEF Links
  <2>3. \A n \in Key : left[n] # m /\ right[n] # m /\ (n = m \/ right'[n] = right[n])
    BY <1>2, <1>5, <2>2
  <2>4. Linked'
    BY <1>1, <1>3, <2>2 DEF Linked
  <2>5. OneParent'
    <3>1. ASSUME NEW a \in Key, NEW b \in Key, ~(a # b /\ a \in {r, m} /\ b \in {r, m})
          PROVE  Apart(a, b, left, right')
      <4>1. a # m /\ b # m => Apart(a, b, left, right)
        BY <1>2, <3>1 DEF OneParent, Sharing
      <4>2. /\ a # m => Apart(a, r, left, right) /\ Apart(r, a, left, right)
            /\ b # m => Apart(b, r, left, right) /\ Apart(r, b, left, right)
        BY <1>1, <1>2, <3>1 DEF OneParent, Sharing
      <4>3. /\ right'[a] = IF a = m THEN right[r] ELSE right[a]
            /\ right'[b] = IF b = m THEN right[r] ELSE right[b]
        BY <2>2
      <4>4. CASE a # m /\ b # m
        BY <4>1, <4>3, <4>4 DEF Apart
      <4>5. CASE a = m /\ b = m
        BY <1>2, <4>5 DEF Apart
      <4>6. CASE a = m /\ b # m
        BY <1>1, <1>2, <3>1, <4>2, <4>3, <4>6 DEF Apart
      <4>7. CASE a # m /\ b = m
        BY <1>1, <1>2, <3>1, <4>2, <4>3, <4>7 DEF Apart
      <4> QED
        BY <4>4, <4>5, <4>6, <4>7
    <3>2. root # NULL => \A a \in Key : left[a] # root /\ right'[a] # root
      BY <1>1, <1>2, <2>2 DEF OneParent
    <3>3. right'[r] = right[r]
      BY <1>1, <2>2
    <3>4. \A a \in Key, b \in Key : a # b /\ a \in {r, m} /\ b \in {r, m} => Sharing(a, b)'
      BY <1>1, <1>5, <3>3 DEF Sharing
    <3>5. \A a \in Key, b \in Key : Apart(a, b, left, right)' = Apart(a, b, left, right')
      BY <1>3 DEF Apart
    <3> QED
      BY <1>1, <1>3, <3>1, <3>2, <3>4, <3>5 DEF OneParent
  <2>6. \A k \in Key, x \in Pointer :
          x # m => From(x, Towards(k, left, right)) \subseteq From(x, Towards(k, left', right'))
    <3> SUFFICES ASSUME NEW k \in Key, NEW x \in Pointer, x # m
                 PROVE  From(x, Towards(k, left, right)) \subseteq From(x, Towards(k, left, right'))
      BY <1>3
    <3>1. left \in Links /\ right \in Links /\ right' \in Links /\ m \in Key
      BY <1>1, <2>1
    <3> HIDE DEF m
    <3> QED
      BY <2>3, <3>1, KeptByUnreached
  <2>7. \A j \in Key : map[j] # ABSENT /\ j # min => j \in Path(j)'
    BY <1>1, <1>2, <2>6 DEF Path, Found
  <2>8. removing \in Path(min)'
    <3>1. Path(min)' = From(root, Towards(min, left', right'))
      BY <1>1 DEF Path
    <3>2. removing \in From(root, Towards(min, left', right'))
      BY <1>1, <1>2, <2>6 DEF Path
    <3> QED
      BY <3>1, <3>2
  <2>9. right'[r] = right[r]
    BY <1>1, <2>2
  <2>10. Spine' = Spine
    BY <1>1, <1>3, <2>9 DEF Spine
  <2>11. Moving'
    <3>1. \A n \in Key : left'[n] # m /\ (right'[n] = m => n = r)
      BY <1>3, <1>5, <2>2, <2>3
    <3>2. right'[m] = right'[r]
      BY <1>1, <2>2, <2>9
    <3> QED
      BY <1>1, <1>2, <1>3, <1>5, <2>8, <2>9, <2>10, <3>1, <3>2 DEF Moving
  <2> QED
    BY <1>1, <1>3, <2>1, <2>4, <2>5, <2>7, <2>9, <2>11, StoreShape
<1> QED
  BY <1>4, <1>5

\* And its left child.
LEMMA SetLeftShape ==
  ASSUME Storing, stores = 2, stores' = 3, SetLeft
  PROVE  Shape'
<1> DEFINE r == removing
           m == min
<1>1. /\ r \in Key /\ m \in Key /\ r # m /\ r < m
      /\ right[r] \in Key /\ right[r] # r /\ left[r] # r /\ left[r] \in Pointer
      /\ root \in Pointer /\ left \in Links /\ right \in Links
      /\ Nodes' = Nodes /\ root' = root /\ min' = m /\ removing' = r
      /\ Key \subseteq Int /\ NULL \notin Key /\ Linked /\ Found /\ TypeOK /\ m \in Nodes
      /\ removing \in Path(min) /\ map[m] # ABSENT /\ map' = map
  BY StoringFacts
<1>2. /\ OneParent
      /\ left[m] = NULL /\ root # m
      /\ \A n \in Key : left[n] # m /\ (right[n] = m => n = r)
      /\ m # right[r] => right[m] = right[r] /\ \A y \in Spine : y > m
  BY DEF Storing, Shape, Moving
<1>3. right' = right /\ left' \in Links
  BY <1>1 DEF SetLeft, Links
<1>4. \A n \in Key : left'[n] = IF n = m THEN left[r] ELSE left[n]
  BY <1>1 DEF SetLeft, Links
<1>5. left'[r] = left[r] /\ left'[m] = left[r] /\ left[r] # m
  BY <1>1, <1>2, <1>4
<1>6. Linked'
  BY <1>1, <1>3, <1>4 DEF Linked
<1>7. OneParent'
  <2>1. ASSUME NEW a \in Key, NEW b \in Key, ~(a # b /\ a \in {r, m} /\ b \in {r, m})
        PROVE  Apart(a, b, left', right)
    <3>1. Apart(a, b, left, right)
      BY <1>2, <2>1 DEF OneParent, Sharing
    <3>2. /\ a # m => Apart(a, r, left, right) /\ Apart(r, a, left, right)
          /\ b # m => Apart(b, r, left, right) /\ Apart(r, b, left, right)
      BY <1>1, <1>2, <2>1 DEF OneParent, Sharing
    <3>3. left[r] # NULL => left[r] # right[m]
      <4>1. Apart(r, r, left, right)
        BY <1>1, <1>2 DEF OneParent, Sharing
      <4>2. m = right[r] => Apart(r, m, left, right)
        BY <1>1, <1>2 DEF OneParent, Sharing
      <4> QED
        BY <1>2, <4>1, <4>2 DEF Apart
    <3>4. /\ left'[a] = IF a = m THEN left[r] ELSE left[a]
          /\ left'[b] = IF b = m THEN left[r] ELSE left[b]
      BY <1>4
    <3>5. CASE a # m /\ b # m
      BY <3>1, <3>4, <3>5 DEF Apart
    <3>6. CASE a = m /\ b = m
      BY <3>1, <3>3, <3>4, <3>6 DEF Apart
    <3>7. CASE a = m /\ b # m
      BY <1>1, <2>1, <3>1, <3>2, <3>4, <3>7 DEF Apart
    <3>8. CASE a # m /\ b = m
      BY <1>1, <2>1, <3>1, <3>2, <3>4, <3>8 DEF Apart
    <3> QED
      BY <3>5, <3>6, <3>7, <3>8
  <2>2. root # NULL => \A a \in Key : left'[a] # root /\ right[a] # root
    BY <1>1, <1>2, <1>4 DEF OneParent
  <2>3. \A a \in Key, b \in Key : a # b /\ a \in {r, m} /\ b \in {r, m} => Sharing(a, b)'
    BY <1>1 DEF Sharing
  <2>4. \A a \in Key, b \in Key : Apart(a, b, left, right)' = Apart(a, b, left', right)
    BY <1>3 DEF Apart
  <2> QED
    BY <1>1, <1>3, <2>1, <2>2, <2>3, <2>4 DEF OneParent
<1>8. \A k \in Key, x \in Pointer :
        From(x, Towards(k, left, right)) \subseteq From(x, Towards(k, left', right'))
  <2>1. \A p \in Key : (left[p] = NULL \/ left'[p] = left[p]) /\ (right[p] = NULL \/ right'[p] = right[p])
    BY <1>2, <1>3, <1>4
  <2> QED
    BY <1>1, <1>3, <2>1, TowardsGrows
<1>9. \A j \in Key : map[j] # ABSENT /\ j # min => j \in Path(j)'
  BY <1>1, <1>8 DEF Path, Found
<1>10. removing \in Path(min)'
  <2>1. Path(min)' = From(root, Towards(min, left', right'))
    BY <1>1 DEF Path
  <2>2. removing \in From(root, Towards(min, left', right'))
    BY <1>1, <1>8 DEF Path
  <2> QED
    BY <2>1, <2>2
<1>11. m # right[r] => \A y \in Spine' : y > m
  <2> SUFFICES ASSUME m # right[r] PROVE \A y \in Spine' : y > m
    OBVIOUS
  <2>1. /\ Spine \in SUBSET Key /\ right[r] \in Spine \cup {NULL} /\ right[r] \in Pointer
        /\ \A y \in Spine : left[y] \in Spine \cup {NULL}
    BY <1>1, FromClosed DEF Spine, Pointer
  <2>2. m \notin Spine
    <3>1. m \in Int /\ ~(m > m)
      BY <1>1
    <3> QED
      BY <1>2, <3>1
  <2>3. \A y \in Spine : left'[y] \in Spine \cup {NULL}
    BY <1>4, <2>1, <2>2
  <2>4. From(right[r], left') \subseteq Spine
    BY <1>3, <2>1, <2>3, FromLeast
  <2>5. Spine' = From(right[r], left')
    BY <1>1, <1>3 DEF Spine
  <2> QED
    BY <1>2, <2>4, <2>5
<1>12. Moving'
  <2>1. \A n \in Key : left'[n] # m /\ (right'[n] = m => n = r)
    BY <1>2, <1>3, <1>4, <1>5
  <2> QED
    BY <1>1, <1>2, <1>3, <1>5, <1>10, <1>11, <2>1 DEF Moving
<1> QED
  BY <1>1, <1>3, <1>5, <1>6, <1>7, <1>9, <1>12, StoreShape

LEMMA StoresShape ==
  ASSUME Shape, Store
  PROVE  Shape'
<1>1. Storing
  <2>1. root' = root
    BY DEF Store, Cut, SetRight, SetLeft, links
  <2> QED
    BY <2>1 DEF Store, Storing
<1>2. CASE stores = 0 /\ Cut
  BY <1>1, <1>2, CutShape DEF Store
<1>3. CASE stores = 1 /\ SetRight
  BY <1>1, <1>3, SetRightShape DEF Store
<1>4. CASE stores = 2 /\ SetLeft
  BY <1>1, <1>4, SetLeftShape DEF Store
<1> QED
  BY <1>2, <1>3, <1>4 DEF Store

\* What takes the place of the freed node: its left child, or the least node of
\* its right subtree.  No other node leads to it.
Successor == IF min = NULL THEN left[removing] ELSE min

LEMMA RelinkFacts ==
  ASSUME Shape, Relink
  PROVE  /\ removing \in Key /\ map[removing] = ABSENT
         /\ left \in Links /\ right \in Links /\ root \in Pointer
         /\ left[removing] # removing
         /\ Successor \in Nodes \cup {NULL} /\ Successor # removing /\ Successor \in Pointer
         /\ left' = Redirected(left, removing, Successor)
         /\ right' = Redirected(right, removing, Successor)
         /\ root' = IF root = removing THEN Successor ELSE root
         /\ left' \in Links /\ right' \in Links /\ root' \in Pointer
         /\ removing' = NULL /\ min' = NULL /\ stores' = 0
         /\ key' = key /\ at' = at /\ result' = result
         /\ map' = map /\ inumber' = inumber /\ Remember
         /\ \A a \in Key \ {removing}, b \in Key \ {removing} : Apart(a, b, left, right)
         /\ Successor # NULL =>
              \A n \in Key \ {removing} : left[n] # Successor /\ right[n] # Successor
         /\ root # NULL => \A a \in Key : left[a] # root /\ right[a] # root
         /\ min # NULL => Successor # root
         /\ NULL \notin Key /\ TypeOK /\ Linked /\ Found /\ inumber = map
<1>1. /\ TypeOK /\ Linked /\ Found /\ Idle /\ Freed /\ Moving /\ OneParent /\ inumber = map
      /\ removing # NULL
      /\ Redirect(removing, Successor)
      /\ removing' = NULL /\ min' = NULL /\ stores' = 0
      /\ key' = key /\ at' = at /\ result' = result
      /\ map' = map /\ inumber' = inumber /\ Remember
  BY DEF Shape, Relink, Successor, search
<1>2. /\ removing \in Key /\ map[removing] = ABSENT /\ NULL \notin Key
      /\ left \in Links /\ right \in Links /\ root \in Pointer
      /\ left[removing] # removing
  <2>1. removing \in Key /\ NULL \notin Key
    BY <1>1, BstAssumption DEF TypeOK, Pointer
  <2> QED
    BY <1>1, <2>1 DEF TypeOK, Freed
<1>3. Successor \in Nodes \cup {NULL} /\ Successor # removing
  <2>1. min # NULL => min \in Nodes /\ min # removing
    BY <1>1, <1>2 DEF Moving, Nodes, TypeOK, Pointer
  <2>2. left[removing] \in Nodes \cup {NULL}
    BY <1>1, <1>2 DEF Linked
  <2> QED
    BY <1>2, <2>1, <2>2 DEF Successor
<1>4. Successor \in Pointer
  BY <1>3 DEF Pointer, Nodes, TypeOK
<1>5. /\ left' = Redirected(left, removing, Successor)
      /\ right' = Redirected(right, removing, Successor)
      /\ root' = IF root = removing THEN Successor ELSE root
      /\ left' \in Links /\ right' \in Links /\ root' \in Pointer
  <2>1. /\ left' = Redirected(left, removing, Successor)
        /\ right' = Redirected(right, removing, Successor)
        /\ root' = IF root = removing THEN Successor ELSE root
    BY <1>1 DEF Redirect
  <2> QED
    BY <1>2, <1>4, <2>1, RedirectedType
<1>6. \A a \in Key \ {removing}, b \in Key \ {removing} : Apart(a, b, left, right)
  BY <1>1 DEF OneParent, Sharing, Idle, Relink
<1>7. root # NULL => \A a \in Key : left[a] # root /\ right[a] # root
  BY <1>1 DEF OneParent
<1>8. CASE min = NULL
  <2>1. Successor = left[removing]
    BY <1>8 DEF Successor
  <2>2. ASSUME Successor # NULL, NEW n \in Key \ {removing}
        PROVE  left[n] # Successor /\ right[n] # Successor
    <3>1. Apart(removing, n, left, right)
      BY <1>1, <1>2, <1>8 DEF OneParent, Sharing, Idle
    <3> QED
      BY <2>1, <2>2, <3>1 DEF Apart
  <2> QED
    BY <1>1, <1>2, <1>3, <1>4, <1>5, <1>6, <1>7, <1>8, <2>2
<1>9. CASE min # NULL
  <2>1. Successor = min
    BY <1>9 DEF Successor
  <2>2. /\ root # min
        /\ \A n \in Key \ {removing} : left[n] # min /\ right[n] # min
    BY <1>1, <1>9 DEF Moving, Relink
  <2> QED
    BY <1>1, <1>2, <1>3, <1>4, <1>5, <1>6, <1>7, <2>1, <2>2
<1> QED
  BY <1>8, <1>9

\* Wherever a search stands, but on the freed node, every name it would find it
\* still finds, if it is not the one that moved up.
LEMMA RelinkKeeps ==
  ASSUME Shape, Relink, NEW k \in Key, map[k] # ABSENT, k # min, NEW x \in Pointer,
         k \in From(x, Towards(k, left, right))
  PROVE  k \in From(IF x = removing THEN Successor ELSE x, Towards(k, left', right'))
<1>1. /\ removing \in Key /\ k # removing
      /\ left \in Links /\ right \in Links
      /\ left[removing] # removing
      /\ left' = Redirected(left, removing, Successor)
      /\ right' = Redirected(right, removing, Successor)
  BY RelinkFacts
<1>2. CASE min = NULL
  <2>1. Successor = left[removing] /\ right[removing] = NULL
    BY <1>2 DEF Successor, Shape, Freed, Relink
  <2> QED
    BY <1>1, <2>1, KeptByLeft
<1>3. CASE min # NULL
  <2>1. Moving /\ Freed /\ stores = 3 /\ TypeOK /\ removing # NULL
    BY <1>3 DEF Shape, Relink
  <2>2. Successor = min /\ min \in Key
    BY <1>3, <2>1 DEF Successor, TypeOK, Pointer
  <2>3. /\ removing < min /\ right[removing] # removing /\ left[min] = left[removing]
        /\ min # right[removing] =>
              right[min] = right[removing] /\ \A y \in From(right[removing], left) : y > min
    BY <1>3, <2>1 DEF Moving, Freed, Spine
  <2> QED
    BY <1>1, <2>2, <2>3, KeptByMin
<1> QED
  BY <1>2, <1>3

LEMMA RelinkShape ==
  ASSUME Shape, Relink
  PROVE  Shape'
<1>1. /\ removing \in Key /\ map[removing] = ABSENT
      /\ left \in Links /\ right \in Links /\ root \in Pointer
      /\ Successor \in Nodes \cup {NULL} /\ Successor # removing /\ Successor \in Pointer
      /\ left' = Redirected(left, removing, Successor)
      /\ right' = Redirected(right, removing, Successor)
      /\ root' = IF root = removing THEN Successor ELSE root
      /\ left' \in Links /\ right' \in Links /\ root' \in Pointer
      /\ removing' = NULL /\ min' = NULL /\ stores' = 0
      /\ key' = key /\ at' = at /\ result' = result
      /\ map' = map /\ inumber' = inumber /\ Remember
      /\ \A a \in Key \ {removing}, b \in Key \ {removing} : Apart(a, b, left, right)
      /\ Successor # NULL =>
           \A n \in Key \ {removing} : left[n] # Successor /\ right[n] # Successor
      /\ root # NULL => \A a \in Key : left[a] # root /\ right[a] # root
      /\ min # NULL => Successor # root
      /\ NULL \notin Key /\ TypeOK /\ Linked /\ Found /\ inumber = map
  BY RelinkFacts
<1>2. \A n \in Key :
        /\ left'[n] = IF n = removing THEN NULL ELSE IF left[n] = removing THEN Successor ELSE left[n]
        /\ right'[n] = IF n = removing THEN NULL ELSE IF right[n] = removing THEN Successor ELSE right[n]
  <2>1. /\ removing \in Key /\ Successor \in Pointer /\ left \in Links /\ right \in Links
        /\ left' = Redirected(left, removing, Successor)
        /\ right' = Redirected(right, removing, Successor)
    BY <1>1
  <2> QED
    BY <2>1, RedirectedType
<1>3. TypeOK'
  <2>1. map' \in [Key -> Inumber \cup {ABSENT}]
    BY <1>1 DEF TypeOK
  <2>2. valid' \in SUBSET (Inumber \cup {ABSENT})
    BY <1>1, <2>1, RememberType
  <2> QED
    BY <1>1, <2>1, <2>2 DEF TypeOK, Pointer
<1>4. Nodes' = Nodes \ {removing}
  BY <1>1 DEF Nodes
<1>5. Linked'
  BY <1>1, <1>2, <1>4 DEF Linked
<1>6. OneParent'
  <2>1. \A a \in Key, b \in Key : Apart(a, b, left', right')
    BY <1>1, RedirectedApart
  <2>2. root' # NULL => \A a \in Key : left'[a] # root' /\ right'[a] # root'
    <3> SUFFICES ASSUME root' # NULL, NEW a \in Key PROVE left'[a] # root' /\ right'[a] # root'
      OBVIOUS
    <3>1. CASE root = removing
      BY <1>1, <1>2, <3>1
    <3>2. CASE root # removing
      <4>1. Successor = root => min = NULL
        BY <1>1
      <4>2. Successor # root
        BY <1>1, <3>2, <4>1 DEF Successor
      <4> QED
        BY <1>1, <1>2, <3>2, <4>2
    <3> QED
      BY <3>1, <3>2
  <2> QED
    BY <2>1, <2>2 DEF OneParent
<1>7. Found'
  <2> SUFFICES ASSUME NEW k \in Key, map[k] # ABSENT PROVE k \in Path(k)'
    BY <1>1 DEF Found
  <2>1. Path(k)' = From(IF root = removing THEN Successor ELSE root, Towards(k, left', right'))
    BY <1>1 DEF Path
  <2>2. CASE k # min
    <3>1. k \in From(root, Towards(k, left, right))
      BY <1>1, <2>2 DEF Found, Path
    <3> QED
      BY <1>1, <2>1, <2>2, <3>1, RelinkKeeps
  <2>3. CASE k = min
    <3>1. min # NULL /\ Successor = k /\ k # removing
      BY <1>1, <2>3 DEF Successor
    <3>2. removing \in From(root, Towards(k, left, right))
      BY <2>3, <3>1 DEF Shape, Moving, Path
    <3> QED
      BY <1>1, <2>1, <3>1, <3>2, MinInPlace
  <2> QED
    BY <2>2, <2>3
<1>8. Idle' /\ Freed' /\ Moving' /\ inumber' = map'
  BY <1>1 DEF Idle, Freed, Moving
<1> QED
  BY <1>3, <1>5, <1>6, <1>7, <1>8 DEF Shape

-----------------------------------------------------------------------------
(* The search without the lock.                                            *)

LEMMA Remembered ==
  ASSUME TypeOK, Remember
  PROVE  /\ valid \subseteq valid'
         /\ result = PENDING => map'[key] \in valid'
         /\ result = PENDING /\ key = min => ABSENT \in valid'
  BY DEF Remember

\* A change that leaves the search where it is, and its name ahead of it.
LEMMA ChangeAhead ==
  ASSUME Shape, Ahead, OnlySuccessorMissed, Remember,
         key' = key, at' = at, result' = result,
         result = PENDING => at # removing',
         result = PENDING /\ ABSENT \notin valid' =>
            /\ key = min' => stores' = 0
            /\ key \in From(at, Towards(key, left', right'))
  PROVE  Ahead' /\ OnlySuccessorMissed'
<1>1. TypeOK
  BY DEF Shape
<1>2. OnlySuccessorMissed'
  BY <1>1, Remembered DEF OnlySuccessorMissed
<1>3. Ahead'
  BY <1>1, Remembered DEF Ahead
<1> QED
  BY <1>2, <1>3

LEMMA InsertAhead ==
  ASSUME Shape, Ahead, OnlySuccessorMissed, NEW k \in Key, NEW i \in Inumber, Insert(k, i)
  PROVE  Ahead' /\ OnlySuccessorMissed'
<1>1. /\ removing = NULL /\ removing' = removing /\ min' = min /\ stores' = stores /\ Remember
      /\ key' = key /\ at' = at /\ result' = result /\ TypeOK
  BY DEF Insert, removal, search, Shape
<1>2. ASSUME result = PENDING, ABSENT \notin valid'
      PROVE  /\ key = min' => stores' = 0
             /\ key \in From(at, Towards(key, left', right'))
  <2>1. ABSENT \notin valid
    BY <1>1, <1>2, Remembered
  <2>2. /\ key = min => stores = 0
        /\ key \in From(at, Towards(key, left, right))
        /\ at \in Pointer /\ key \in Key
    BY <1>1, <1>2, <2>1 DEF Ahead, TypeOK
  <2>3. CASE k \in Path(k)
    BY <1>1, <2>2, <2>3 DEF Insert, links
  <2>4. CASE k \notin Path(k)
    <3>1. Link(k)
      BY <2>4 DEF Insert
    <3>2. \A j \in Key, x \in Pointer :
            From(x, Towards(j, left, right)) \subseteq From(x, Towards(j, left', right'))
      BY <1>1, <2>4, <3>1, LinkShape
    <3> QED
      BY <1>1, <2>2, <3>2
  <2> QED
    BY <2>3, <2>4
<1>3. result = PENDING => at # removing'
  BY <1>1 DEF Ahead
<1> QED
  BY <1>1, <1>2, <1>3, ChangeAhead

LEMMA FreeAhead ==
  ASSUME Shape, Ahead, OnlySuccessorMissed, NEW k \in Key, Free(k)
  PROVE  Ahead' /\ OnlySuccessorMissed'
<1>1. /\ removing' = k /\ stores' = 0 /\ Remember /\ left' = left /\ right' = right
      /\ key' = key /\ at' = at /\ TypeOK
  BY DEF Free, links, search, Shape
<1>2. CASE result = PENDING /\ at = k
  <2>1. result' = LOST
    BY <1>2 DEF Free
  <2> QED
    BY <2>1 DEF Ahead, OnlySuccessorMissed, LOST, PENDING
<1>3. CASE ~(result = PENDING /\ at = k)
  <2>1. result' = result
    BY <1>3 DEF Free, search
  <2>2. ASSUME result = PENDING, ABSENT \notin valid'
        PROVE  /\ key = min' => stores' = 0
               /\ key \in From(at, Towards(key, left', right'))
    <3>1. ABSENT \notin valid
      BY <1>1, <2>2, Remembered
    <3> QED
      BY <1>1, <2>2, <3>1 DEF Ahead
  <2> QED
    BY <1>1, <1>3, <2>1, <2>2, ChangeAhead
<1> QED
  BY <1>2, <1>3

LEMMA StoreAhead ==
  ASSUME Shape, Ahead, OnlySuccessorMissed, Store
  PROVE  Ahead' /\ OnlySuccessorMissed'
<1>1. /\ Storing /\ stores \in {0, 1, 2} /\ stores' = stores + 1 /\ TypeOK
  <2>1. root' = root
    BY DEF Store, Cut, SetRight, SetLeft, links
  <2> QED
    BY <2>1 DEF Store, Storing, Shape, TypeOK
<1>2. /\ key' = key /\ at' = at /\ result' = result /\ Remember
      /\ removing' = removing /\ min' = min
  BY <1>1 DEF Storing, search
<1>3. ASSUME result = PENDING, ABSENT \notin valid'
      PROVE  /\ key = min' => stores' = 0
             /\ key \in From(at, Towards(key, left', right'))
  <2>1. ABSENT \notin valid /\ key # min
    BY <1>1, <1>2, <1>3, Remembered
  <2>2. /\ key \in From(at, Towards(key, left, right))
        /\ map[key] # ABSENT /\ at \in Pointer /\ key \in Key /\ at \in Key
    BY <1>1, <1>3, <2>1 DEF Ahead, TypeOK
  <2>3. key \in From(root, Towards(key, left, right))
    BY <2>1, <2>2 DEF Shape, Found, Path
  <2>4. /\ left \in Links /\ right \in Links /\ root \in Pointer
        /\ min \in Key /\ removing \in Key /\ right[removing] \in Key
        /\ NULL \notin Key
    BY <1>1, StoringFacts
  <2>5. key # min'
    BY <1>2, <2>1
  <2> SUFFICES key \in From(at, Towards(key, left', right'))
    BY <2>5
  <2>6. CASE stores = 0 /\ Cut
    <3>1. CASE min = right[removing]
      BY <2>2, <2>6, <3>1 DEF Cut, links
    <3>2. CASE min # right[removing]
      <4>1. left' = CutOff(left, right, min) /\ right' = right
        BY <2>6, <3>2 DEF Cut, CutOff
      <4>2. left[min] = NULL
        BY <2>4, <2>6 DEF Shape, Moving
      <4> QED
        BY <2>1, <2>2, <2>4, <4>1, <4>2, KeptByCut
    <3> QED
      BY <3>1, <3>2
  <2>7. CASE stores = 1 /\ SetRight
    <3>1. left' = left
      BY <2>7 DEF SetRight
    <3>2. CASE min = right[removing]
      BY <2>2, <2>7, <3>1, <3>2 DEF SetRight
    <3>3. CASE min # right[removing]
      <4>1. right' = [right EXCEPT ![min] = right[removing]] /\ right' \in Links
        BY <2>4, <2>7, <3>3 DEF SetRight, Links, Pointer
      <4>2. /\ root # min /\ left[min] = NULL
            /\ \A n \in Key : left[n] # min /\ right[n] # min
            /\ right[min] \in From(right[removing], left) \cup {NULL}
        <5>1. Moving /\ min # NULL
          BY <1>1 DEF Storing, Shape
        <5> QED
          BY <2>7, <3>3, <5>1 DEF Moving, Spine
      <4>3. /\ \A a \in Key \ {min}, b \in Key \ {min} : Apart(a, b, left, right)
            /\ root # NULL => \A a \in Key : left[a] # root /\ right[a] # root
        <5>1. OneParent
          BY DEF Shape
        <5> QED
          BY <2>7, <5>1 DEF OneParent, Sharing
      <4>4. \A n \in Key : n = min \/ right'[n] = right[n]
        BY <2>4, <4>1 DEF Links
      <4>5. right'[min] = right[removing]
        BY <2>4, <4>1 DEF Links
      <4>6. \A x \in Pointer : x # min =>
              From(x, Towards(key, left, right)) \subseteq From(x, Towards(key, left, right'))
        <5> TAKE x \in Pointer
        <5> HAVE x # min
        <5>1. \A n \in Key : left[n] # min /\ right[n] # min /\ (n = min \/ right'[n] = right[n])
          BY <4>2, <4>4
        <5>2. left \in Links /\ right \in Links /\ right' \in Links /\ min \in Key /\ key \in Key
          BY <2>2, <2>4, <4>1
        <5> QED
          BY <5>1, <5>2, KeptByUnreached
      <4>7. CASE at # min
        BY <2>2, <3>1, <4>6, <4>7
      <4>8. CASE at = min
        <5>1. key \in From(min, Towards(key, left, right))
          BY <2>2, <4>8
        <5>2. min < key /\ key \in From(right[removing], Towards(key, left, right))
          BY <2>1, <2>2, <2>3, <2>4, <4>2, <4>3, <5>1, ThroughMin
        <5>3. key \in From(right[removing], Towards(key, left, right'))
          BY <2>4, <3>3, <4>6, <5>2 DEF Pointer
        <5>4. Towards(key, left, right') \in Links
          BY <2>2, <2>4, <4>1, TowardsType
        <5>5. Towards(key, left, right')[min] = right[removing]
          <6>1. key \in Int /\ min \in Int
            BY <2>2, <2>4, BstAssumption
          <6>2. key > min /\ ~(key < min)
            BY <5>2, <6>1
          <6> QED
            BY <2>4, <4>5, <6>2 DEF Towards
        <5>6. key \in From(min, Towards(key, left, right'))
          BY <2>4, <5>3, <5>4, <5>5, FromPrevious
        <5> QED
          BY <3>1, <4>8, <5>6
      <4> QED
        BY <1>2, <2>1, <4>7, <4>8
    <3> QED
      BY <1>2, <2>1, <3>2, <3>3
  <2>8. CASE stores = 2 /\ SetLeft
    <3>1. right' = right /\ left' = [left EXCEPT ![min] = left[removing]] /\ left' \in Links
      BY <2>4, <2>8 DEF SetLeft, Links
    <3>2. left[min] = NULL
      BY <2>4, <2>8 DEF Shape, Moving
    <3>3. \A p \in Key : (left[p] = NULL \/ left'[p] = left[p]) /\ (right[p] = NULL \/ right'[p] = right[p])
      BY <2>4, <3>1, <3>2 DEF Links
    <3>4. /\ left \in Links /\ right \in Links /\ left' \in Links /\ right' \in Links
          /\ key \in Key /\ at \in Pointer
      BY <2>2, <2>4, <3>1
    <3>5. From(at, Towards(key, left, right)) \subseteq From(at, Towards(key, left', right'))
      BY <3>3, <3>4, TowardsGrows
    <3> QED
      BY <2>2, <3>5
  <2> QED
    BY <2>6, <2>7, <2>8 DEF Store
<1>4. result = PENDING => at # removing'
  BY <1>2 DEF Ahead
<1> QED
  BY <1>2, <1>3, <1>4, ChangeAhead

LEMMA RelinkAhead ==
  ASSUME Shape, Ahead, OnlySuccessorMissed, Relink
  PROVE  Ahead' /\ OnlySuccessorMissed'
<1>1. /\ removing' = NULL /\ min' = NULL /\ stores' = 0 /\ Remember
      /\ key' = key /\ at' = at /\ result' = result /\ TypeOK /\ NULL \notin Key
  BY RelinkFacts
<1>2. ASSUME result = PENDING, ABSENT \notin valid'
      PROVE  key \in From(at, Towards(key, left', right'))
  <2>1. ABSENT \notin valid /\ key # min
    BY <1>1, <1>2, Remembered
  <2>2. /\ key \in From(at, Towards(key, left, right))
        /\ map[key] # ABSENT /\ at \in Pointer /\ key \in Key /\ at # removing
    BY <1>1, <1>2, <2>1 DEF Ahead, TypeOK
  <2> QED
    BY <2>1, <2>2, RelinkKeeps
<1>3. result = PENDING => at # removing'
  BY <1>1 DEF Ahead
<1> QED
  BY <1>1, <1>2, <1>3, ChangeAhead

\* A search that starts has its name on its path, and one that follows a link
\* has it behind that link.
LEMMA SearchAhead ==
  ASSUME Shape, Ahead, OnlySuccessorMissed, (\E k \in Key : Start(k)) \/ Step
  PROVE  Shape' /\ Ahead' /\ OnlySuccessorMissed'
<1>1. /\ TypeOK /\ Found /\ UNCHANGED <<links, inumber, removal, map>>
      /\ root' = root /\ left' = left /\ right' = right /\ removing' = removing
      /\ min' = min /\ stores' = stores /\ map' = map /\ inumber = map
  BY DEF Shape, Start, Step, links, removal
<1>2. /\ root \in Pointer /\ left \in Links /\ right \in Links /\ NULL \notin Key
      /\ Key \subseteq Int
      /\ PENDING # ABSENT /\ PENDING # LOST /\ PENDING \notin Inumber
  BY <1>1, BstAssumption DEF TypeOK, ABSENT, PENDING, LOST
<1>3. ASSUME NEW k \in Key, Start(k)
      PROVE  TypeOK' /\ Ahead' /\ OnlySuccessorMissed'
  <2>1. /\ key' = k /\ at' = root
        /\ valid' = {map[k]} \cup (IF k = min THEN {ABSENT} ELSE {})
        /\ root = NULL => result' = ABSENT
        /\ root # NULL /\ root = removing => result' = LOST
        /\ root # NULL /\ root # removing => result' = PENDING
    BY <1>3 DEF Start, Arrive
  <2>2. map[k] \in Inumber \cup {ABSENT}
    BY <1>1 DEF TypeOK
  <2>3. TypeOK'
    BY <1>1, <2>1, <2>2 DEF TypeOK
  <2>4. ABSENT \notin valid' => k # min /\ k \in From(root, Towards(k, left, right))
    BY <1>1, <2>1 DEF Found, Path
  <2>5. root = NULL => ABSENT \in valid'
    <3>1. Towards(k, left, right) \in Links
      BY <1>2, TowardsType
    <3> QED
      BY <2>4, <3>1, FromNull
  <2>6. Ahead'
    <3> SUFFICES ASSUME result' = PENDING
                 PROVE  /\ at' \in Key /\ at' # removing'
                        /\ map'[key'] \in valid'
                        /\ ABSENT \notin valid' => /\ key' = min' => stores' = 0
                                                   /\ key' \in From(at', Towards(key', left', right'))
      BY DEF Ahead
    <3>1. root # NULL /\ root # removing
      BY <1>2, <2>1
    <3>2. at' \in Key
      BY <1>2, <2>1, <3>1 DEF Pointer
    <3> QED
      BY <1>1, <2>1, <2>4, <3>1, <3>2
  <2>7. OnlySuccessorMissed'
    BY <2>1, <2>5 DEF OnlySuccessorMissed
  <2> QED
    BY <2>3, <2>6, <2>7
<1>4. ASSUME Step
      PROVE  TypeOK' /\ Ahead' /\ OnlySuccessorMissed'
  <2>1. /\ result = PENDING /\ key' = key /\ valid' = valid
        /\ at \in Key /\ key \in Key /\ at # removing /\ map[key] \in valid
        /\ map[key] \in Inumber \cup {ABSENT}
    BY <1>1, <1>4 DEF Step, Ahead, TypeOK
  <2>2. ABSENT \notin valid => /\ key = min => stores = 0
                               /\ key \in From(at, Towards(key, left, right))
    BY <2>1 DEF Ahead
  <2>3. CASE key = at /\ result' = inumber[at] /\ UNCHANGED at
    BY <1>1, <1>2, <2>1, <2>3 DEF TypeOK, Ahead, OnlySuccessorMissed
  <2>4. ASSUME NEW q \in Pointer, key # at, Arrive(q), q = Towards(key, left, right)[at]
        PROVE  TypeOK' /\ Ahead' /\ OnlySuccessorMissed'
    <3>1. /\ at' = q
          /\ q = NULL => result' = ABSENT
          /\ q # NULL /\ q = removing => result' = LOST
          /\ q # NULL /\ q # removing => result' = PENDING
      BY <2>4 DEF Arrive
    <3>2. TypeOK'
      BY <1>1, <2>1, <3>1 DEF TypeOK
    <3>3. Towards(key, left, right) \in Links /\ at \in Pointer
      BY <1>2, <2>1, TowardsType DEF Pointer
    <3>4. ABSENT \notin valid => key \in From(q, Towards(key, left, right))
      BY <2>2, <2>4, <3>3, FromNext
    <3>5. q = NULL => ABSENT \in valid
      BY <3>3, <3>4, FromNull
    <3>6. OnlySuccessorMissed'
      BY <2>1, <3>1, <3>5 DEF OnlySuccessorMissed
    <3>7. Ahead'
      <4> SUFFICES ASSUME result' = PENDING
                   PROVE  /\ at' \in Key /\ at' # removing'
                          /\ map'[key'] \in valid'
                          /\ ABSENT \notin valid' => /\ key' = min' => stores' = 0
                                                     /\ key' \in From(at', Towards(key', left', right'))
        BY DEF Ahead
      <4>1. q # NULL /\ q # removing
        BY <1>2, <3>1 DEF LOST, PENDING
      <4>2. q \in Key
        BY <4>1 DEF Pointer
      <4> QED
        BY <1>1, <2>1, <2>2, <3>1, <3>4, <4>1, <4>2
    <3> QED
      BY <3>2, <3>6, <3>7
  <2>5. CASE key < at /\ Arrive(left[at])
    <3>1. key \in Int /\ at \in Int /\ key # at
      BY <1>2, <2>1, <2>5
    <3>2. left[at] \in Pointer /\ Towards(key, left, right)[at] = left[at]
      BY <1>2, <2>1, <2>5, <3>1 DEF Towards, Links
    <3> QED
      BY <2>4, <2>5, <3>1, <3>2
  <2>6. CASE key > at /\ Arrive(right[at])
    <3>1. key \in Int /\ at \in Int /\ key # at /\ ~(key < at)
      BY <1>2, <2>1, <2>6
    <3>2. right[at] \in Pointer /\ Towards(key, left, right)[at] = right[at]
      BY <1>2, <2>1, <2>6, <3>1 DEF Towards, Links
    <3> QED
      BY <2>4, <2>6, <3>1, <3>2
  <2> QED
    BY <1>4, <2>3, <2>5, <2>6 DEF Step
<1>5. TypeOK' /\ Ahead' /\ OnlySuccessorMissed'
  BY <1>3, <1>4
<1> QED
  BY <1>1, <1>5, SearchShape

-----------------------------------------------------------------------------
(* No cycles.                                                              *)

\* Nodes that no link enters from outside are on no path.
LEMMA ClosedOff ==
  ASSUME TypeOK, NEW B \in SUBSET Key, root \notin B,
         \A n \in Key \ B : left[n] \notin B /\ right[n] \notin B,
         NEW k \in Key
  PROVE  Path(k) \cap B = {}
<1> DEFINE S == Key \ B
           way == Towards(k, left, right)
<1>1. root \in Pointer /\ way \in Links /\ NULL \notin Key
  BY PathType, BstAssumption
<1>2. \A n \in S : way[n] \in {left[n], right[n], NULL}
  BY DEF Towards
<1>3. S \in SUBSET Key /\ root \in S \cup {NULL}
  BY <1>1 DEF Pointer
<1>4. \A n \in S : way[n] \in S \cup {NULL}
  BY <1>1, <1>2 DEF Links, Pointer
<1> HIDE DEF S, way
<1>5. From(root, way) \subseteq S
  BY <1>1, <1>3, <1>4, FromLeast
<1> QED
  BY <1>5 DEF S, way, Path

\* Nodes with a parent among themselves are entered from outside only by the
\* two nodes that share a child while a removal is on its way.
LEMMA ParentsInside ==
  ASSUME TypeOK, OneParent, NEW S \in SUBSET Key,
         \A q \in S : \E p \in S : q \in {left[p], right[p]},
         NEW B \in SUBSET Key, S \subseteq B,
         \A m \in S, n \in Key \ B : ~Sharing(m, n)
  PROVE  /\ root \notin S
         /\ \A n \in Key \ B : left[n] \notin S /\ right[n] \notin S
<1>1. NULL \notin S /\ root \notin S
  BY BstAssumption DEF OneParent
<1>2. ASSUME NEW n \in Key \ B, NEW q \in S, q \in {left[n], right[n]} PROVE FALSE
  <2>1. PICK m \in S : q \in {left[m], right[m]}
    OBVIOUS
  <2>2. m \in Key /\ n \in Key /\ m # n /\ q # NULL
    BY <1>1
  <2>3. Apart(m, n, left, right) /\ (Sharing(n, m) \/ Apart(n, m, left, right))
    BY <2>2 DEF OneParent
  <2>4. ~Sharing(n, m)
    BY DEF Sharing
  <2> QED
    BY <1>2, <2>1, <2>2, <2>3, <2>4 DEF Apart
<1> QED
  BY <1>1, <1>2

LEMMA ShapeHasNoCycle ==
  ASSUME Shape
  PROVE  NoCycle
<1> SUFFICES ASSUME NEW S \in SUBSET Key, S # {},
                    \A q \in S : \E p \in S : q \in {left[p], right[p]}
             PROVE  FALSE
  BY DEF NoCycle
<1>1. TypeOK /\ Linked /\ OneParent /\ Found /\ Idle /\ Freed /\ Moving /\ NULL \notin Key
  BY BstAssumption DEF Shape
<1>2. S \subseteq Nodes
  BY <1>1 DEF Linked
<1>3. PICK c \in S : c # removing
  <2>1. PICK q \in S : TRUE
    OBVIOUS
  <2>2. PICK p \in S : q \in {left[p], right[p]}
    OBVIOUS
  <2>3. q # removing \/ p # removing
    BY <1>1, <2>2 DEF Freed
  <2> QED
    BY <2>3
<1>4. map[c] # ABSENT
  BY <1>2, <1>3 DEF Nodes
\* The node that moves has no parent but the freed one.
<1>5. ASSUME stores >= 1
      PROVE  /\ min \in Key /\ min # root
             /\ min \in S => removing \in S /\ right[removing] = min
             /\ \A n \in Key : left[n] # min /\ (right[n] = min => n = removing)
  <2>1. min # NULL
    BY <1>1, <1>5 DEF Idle, TypeOK
  <2>2. \A n \in Key : left[n] # min /\ (right[n] = min => n = removing)
    BY <1>1, <1>5, <2>1 DEF Moving
  <2> QED
    BY <1>1, <1>5, <2>1, <2>2 DEF Moving, TypeOK, Pointer
<1>6. CASE stores = 0
  <2>1. \A m \in S, n \in Key \ S : ~Sharing(m, n)
    BY <1>6 DEF Sharing
  <2>2. root \notin S /\ \A n \in Key \ S : left[n] \notin S /\ right[n] \notin S
    BY <1>1, <2>1, ParentsInside
  <2>3. Path(c) \cap S = {}
    BY <1>1, <2>2, ClosedOff
  <2>4. c \in Path(c)
    BY <1>1, <1>4, <1>6 DEF Found
  <2> QED
    BY <2>3, <2>4
<1>7. CASE stores >= 1 /\ removing \in S
  <2> DEFINE B == S \cup {min}
  <2>1. B \in SUBSET Key /\ S \subseteq B
    BY <1>5, <1>7
  <2>2. \A m \in S, n \in Key \ B : ~Sharing(m, n)
    BY <1>5, <1>7 DEF Sharing
  <2>3. root \notin B /\ \A n \in Key \ B : left[n] \notin B /\ right[n] \notin B
    <3>1. root \notin S /\ \A n \in Key \ B : left[n] \notin S /\ right[n] \notin S
      <4> HIDE DEF B
      <4> QED
        BY <1>1, <2>1, <2>2, ParentsInside
    <3> QED
      BY <1>5, <1>7, <3>1
  <2> HIDE DEF B
  <2>4. Path(c) \cap B = {} /\ Path(min) \cap B = {}
    BY <1>1, <1>5, <1>7, <2>1, <2>3, ClosedOff
  <2>5. c = min \/ c \in Path(c)
    BY <1>1, <1>4 DEF Found
  <2>6. removing \in Path(min)
    BY <1>1, <1>5, <1>7 DEF Moving
  <2> QED
    BY <1>7, <2>1, <2>4, <2>5, <2>6
<1>8. CASE stores >= 1 /\ removing \notin S
  <2>1. min \notin S /\ c \in Path(c)
    BY <1>1, <1>4, <1>5, <1>8 DEF Found
  <2> DEFINE B == IF stores = 1 /\ min # right[removing] THEN S \cup {min} ELSE S
  <2>2. B \in SUBSET Key /\ S \subseteq B
    BY <1>5, <1>8
  <2>3. \A m \in S, n \in Key \ B : ~Sharing(m, n)
    BY <1>8, <2>1 DEF Sharing
  <2>4. root \notin B /\ \A n \in Key \ B : left[n] \notin B /\ right[n] \notin B
    <3>1. root \notin S /\ \A n \in Key \ B : left[n] \notin S /\ right[n] \notin S
      <4> HIDE DEF B
      <4> QED
        BY <1>1, <2>2, <2>3, ParentsInside
    <3> QED
      BY <1>5, <1>8, <3>1
  <2> HIDE DEF B
  <2>5. Path(c) \cap B = {}
    BY <1>1, <2>2, <2>4, ClosedOff
  <2> QED
    BY <2>1, <2>2, <2>5
<1> QED
  BY <1>1, <1>6, <1>7, <1>8 DEF TypeOK

-----------------------------------------------------------------------------
(* The theorems.                                                           *)

LEMMA IInvHolds == Spec => []IInv
<1>1. Init => IInv
  <2> SUFFICES ASSUME Init PROVE IInv
    OBVIOUS
  <2>1. Ahead /\ OnlySuccessorMissed
    BY DEF Init, Ahead, OnlySuccessorMissed, PENDING, ABSENT
  <2> QED
    BY <2>1, InitShape DEF IInv
<1>2. IInv /\ [Next]_vars => IInv'
  <2> SUFFICES ASSUME IInv, [Next]_vars PROVE IInv'
    OBVIOUS
  <2> USE DEF IInv
  <2>1. ASSUME NEW k \in Key, NEW i \in Inumber, Insert(k, i) PROVE IInv'
    BY <2>1, InsertShape, InsertAhead
  <2>2. ASSUME NEW k \in Key, Free(k) PROVE IInv'
    BY <2>2, FreeShape, FreeAhead
  <2>3. CASE Store
    BY <2>3, StoresShape, StoreAhead
  <2>4. CASE Relink
    BY <2>4, RelinkShape, RelinkAhead
  <2>5. CASE (\E k \in Key : Start(k)) \/ Step
    BY <2>5, SearchAhead
  <2>6. CASE UNCHANGED vars
    <3>1. /\ root' = root /\ left' = left /\ right' = right /\ inumber' = inumber
          /\ removing' = removing /\ min' = min /\ stores' = stores
          /\ key' = key /\ at' = at /\ result' = result /\ map' = map /\ valid' = valid
      BY <2>6 DEF vars, links, removal, search
    <3>2. Shape'
      <4>1. TypeOK'
        BY <3>1 DEF Shape, TypeOK
      <4> QED
        BY <3>1, <4>1, SearchShape DEF links, removal
    <3>3. Ahead' /\ OnlySuccessorMissed'
      BY <3>1 DEF Ahead, OnlySuccessorMissed
    <3> QED
      BY <3>2, <3>3
  <2> QED
    BY <2>1, <2>2, <2>3, <2>4, <2>5, <2>6 DEF Next, Change
<1> QED
  BY <1>1, <1>2, PTL DEF Spec

\* For every set of names: whenever no removal is in progress, search finds
\* exactly the names that were inserted and not removed since, each with its
\* last i-number (insert, search and remove_item of bst.c).
THEOREM TreeIsTheMap == Spec => []IsTheMap
<1>1. IInv => IsTheMap
  BY ShapeIsTheMap DEF IInv
<1> QED
  BY <1>1, IInvHolds, PTL

\* For every set of names: a search without the lock that meets no freed node
\* returns what was right at some moment since it began, unless it looks for the
\* node that remove_item moves up, which it may miss.
THEOREM SearchMissesOnlySuccessor == Spec => []OnlySuccessorMissed
<1>1. IInv => OnlySuccessorMissed
  BY DEF IInv
<1> QED
  BY <1>1, IInvHolds, PTL

\* For every set of names: at every store of insert and remove_item the links
\* form no cycle, so that a search without the lock does not turn for ever in a
\* tree that nobody changes any more.
THEOREM TreeHasNoCycle == Spec => []NoCycle
<1>1. IInv => NoCycle
  BY ShapeHasNoCycle DEF IInv
<1> QED
  BY <1>1, IInvHolds, PTL
=============================================================================

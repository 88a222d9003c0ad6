---------------------------- MODULE ContactTree ----------------------------
(***************************************************************************)
(* The contacts of module2/4/4.3 (and of module3/03, which keeps them in a *)
(* file): a binary search tree that rotates to stay balanced.  A node is a *)
(* record that holds its subtrees.  Shown to implement ContactBook.        *)
(***************************************************************************)
EXTENDS Integers, FiniteSets

CONSTANTS Ids, Contacts, NULL

ConstantAssumption ==
    Ids \subseteq Int /\ Ids # {} /\ Contacts # {} /\ NULL \notin Contacts \cup {0, 1}

VARIABLES
    root,
    result    \* what the last operation returned

Init == root = NULL /\ result = NULL

-----------------------------------------------------------------------------
(* Trees. *)

getHeight(t) == IF t = NULL THEN 0 ELSE t.height

Higher(l, r) == IF getHeight(l) > getHeight(r) THEN getHeight(l) ELSE getHeight(r)

\* A node whose height is computed from its subtrees.
Tree(id, contact, l, r) ==
    [id |-> id, contact |-> contact, left |-> l, right |-> r, height |-> 1 + Higher(l, r)]

With(t, l, r) == Tree(t.id, t.contact, l, r)

getBalance(t) == IF t = NULL THEN 0 ELSE getHeight(t.left) - getHeight(t.right)

rotateRight(t) == With(t.left, t.left.left, With(t, t.left.right, t.right))

rotateLeft(t) == With(t.right, With(t, t.left, t.right.left), t.right.right)

RECURSIVE findNode(_, _)
findNode(t, i) ==
    IF t = NULL THEN NULL
    ELSE IF i > t.id THEN findNode(t.right, i)
    ELSE IF i < t.id THEN findNode(t.left, i)
    ELSE t

\* Which rotation, from the balance and from which side of the child is the higher.
Rotated(t, leftOfLeft, rightOfRight) ==
    CASE getBalance(t) > 1 /\ leftOfLeft -> rotateRight(t)
      [] getBalance(t) > 1 /\ ~ leftOfLeft -> rotateRight(With(t, rotateLeft(t.left), t.right))
      [] getBalance(t) < -1 /\ rightOfRight -> rotateLeft(t)
      [] getBalance(t) < -1 /\ ~ rightOfRight -> rotateLeft(With(t, t.left, rotateRight(t.right)))
      [] OTHER -> t

\* The id goes to a leaf.  (It is not in the tree: saveContact has looked.)
RECURSIVE insertNode(_, _)
insertNode(t, i) ==
    IF t = NULL THEN Tree(i, NULL, NULL, NULL)
    ELSE LET u == IF i < t.id THEN With(t, insertNode(t.left, i), t.right)
                  ELSE With(t, t.left, insertNode(t.right, i))
         IN  Rotated(u, i < t.id /\ u.left # NULL /\ i < u.left.id,
                        i > t.id /\ u.right # NULL /\ i > u.right.id)

RECURSIVE findMinValueNode(_)
findMinValueNode(t) == IF t.left = NULL THEN t ELSE findMinValueNode(t.left)

\* Mutant: only a left side that is too high is seen.
RebalancedLeft(t) == IF getBalance(t) > 1 THEN Rotated(t, getBalance(t.left) >= 0, TRUE) ELSE t

Rebalanced(t) == Rotated(t, getBalance(t.left) >= 0, getBalance(t.right) <= 0)

\* A node with two subtrees takes the contact that follows and loses that node instead.
RECURSIVE deleteNode(_, _)
deleteNode(t, i) ==
    IF t = NULL THEN NULL
    ELSE IF i < t.id THEN Rebalanced(With(t, deleteNode(t.left, i), t.right))
    ELSE IF i > t.id THEN Rebalanced(With(t, t.left, deleteNode(t.right, i)))
    ELSE IF t.left = NULL /\ t.right = NULL THEN NULL
    ELSE IF t.right = NULL THEN Rebalanced(t.left)
    ELSE IF t.left = NULL THEN Rebalanced(t.right)
    ELSE LET m == findMinValueNode(t.right)
         IN  Rebalanced(Tree(m.id, m.contact, t.left, deleteNode(t.right, m.id)))

RECURSIVE Copied(_, _, _)
\* The tree with the contact of one of its ids replaced.
Copied(t, i, c) ==
    IF t.id = i THEN [t EXCEPT !.contact = c]
    ELSE IF i < t.id THEN [t EXCEPT !.left = Copied(t.left, i, c)]
    ELSE [t EXCEPT !.right = Copied(t.right, i, c)]

\* Mutant: an old contact is left as it is.
SavedOnce(t, i, c) == IF findNode(t, i) # NULL THEN t ELSE Copied(insertNode(t, i), i, c)

Saved(t, i, c) == Copied(IF findNode(t, i) # NULL THEN t ELSE insertNode(t, i), i, c)

-----------------------------------------------------------------------------
(* Operations. *)

FindContactByID(i) ==
    /\ result' = IF findNode(root, i) = NULL THEN NULL ELSE findNode(root, i).contact
    /\ UNCHANGED root

SaveContact(i, c) ==
    IF i < 0 THEN result' = NULL /\ UNCHANGED root
    ELSE root' = Saved(root, i, c) /\ result' = c

DeleteContactByID(i) ==
    IF i < 0 \/ findNode(root, i) = NULL THEN result' = 0 /\ UNCHANGED root
    ELSE root' = deleteNode(root, i) /\ result' = 1

\* The database is forgotten.  (Of its nodes only two are freed; memory is not modelled.)
Clear == root' = NULL /\ UNCHANGED result

Next ==
    \/ \E i \in Ids : \/ FindContactByID(i) \/ DeleteContactByID(i)
                      \/ \E c \in Contacts : SaveContact(i, c)
    \/ Clear

Spec == Init /\ [][Next]_<<root, result>>

-----------------------------------------------------------------------------
(* Properties. *)

RECURSIVE NodesOf(_)
NodesOf(t) == IF t = NULL THEN {} ELSE {t} \cup NodesOf(t.left) \cup NodesOf(t.right)

\* Nodes are records of an id, a contact and a height, with a node or none on each side.
TypeOK ==
    /\ \A t \in NodesOf(root) :
          /\ DOMAIN t = {"id", "contact", "left", "right", "height"}
          /\ t.id \in Ids \cap Nat /\ t.contact \in Contacts /\ t.height \in Nat
    /\ result \in Contacts \cup {NULL, 0, 1}

\* The height stored in every node is its real height, and its two subtrees differ by at
\* most one: no path of insertions and deletions degenerates the tree.
Balanced ==
    \A t \in NodesOf(root) :
       /\ t.height = 1 + Higher(t.left, t.right)
       /\ getBalance(t) \in -1 .. 1

\* A search never goes to the wrong side: on the left of every node smaller ids, on the
\* right larger ones ("key is data.id", contact_db.h).
SearchTree ==
    \A t \in NodesOf(root) :
       /\ \A u \in NodesOf(t.left) : u.id < t.id
       /\ \A u \in NodesOf(t.right) : u.id > t.id

book ==
    LET nodes == NodesOf(root)
    IN  [i \in {t.id : t \in nodes} |-> (CHOOSE t \in nodes : t.id = i).contact]

Book == INSTANCE ContactBook

\* The tree is a contact book, whatever it rotates.
BookSpec == Book!Spec
=============================================================================

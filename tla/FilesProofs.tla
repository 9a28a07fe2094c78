---------------------------- MODULE FilesProofs ----------------------------
(***************************************************************************)
(* RamFS, for every size of the node table and of its directories, for any *)
(* words, and whatever the shell, spkg and the applications do: parents    *)
(* and children agree, the shell stays in a directory, no entry disappears *)
(* but by its own removal, no call but mv doubles a name it can find, and  *)
(* the calls on a descriptor leave it within its file.                     *)
(***************************************************************************)
EXTENDS Files, WellFoundedInduction, TLAPS

Node == [type : {"FREE", "FILE", "DIR"}, name : Strings, size : Sizes,
         parent : Nodes \cup {NULL}, children : Seq(Nodes)]

Table == [Nodes -> Node]

(* A typed table in which parents and children agree, with a root. *)
Sound(t) ==
  /\ t \in Table
  /\ ListedByParent(t) /\ ListedOnce(t)
  /\ t[Root].type = "DIR" /\ t[Root].parent = Root

(***************************************************************************)
(* S holds the root and, with a directory, all that it lists; and what is  *)
(* in S has its parent there, a directory that lists it.  A walk from the  *)
(* root or from the current directory stays in such a set, so it never     *)
(* ends in a free node, though a node below a file may have a free parent. *)
(***************************************************************************)
Rooted(t, S) ==
  /\ S \subseteq Live(t) /\ Root \in S
  /\ \A d \in S : t[d].type = "DIR" => Listed(t, d) \subseteq S
  /\ \A n \in S \ {Root} : /\ t[n].parent \in S /\ t[t[n].parent].type = "DIR"
                          /\ n \in Listed(t, t[n].parent)

(***************************************************************************)
(* What the calls that make nodes, and the ones that change sizes, keep    *)
(* from a table t to a table u.                                            *)
(***************************************************************************)
NodesKept(t, u) ==
  \A m \in Live(t) : /\ m \in Live(u) /\ u[m].type = t[m].type
                     /\ u[m].name = t[m].name /\ u[m].parent = t[m].parent

EntriesKept(t, u) ==
  \A d \in Nodes : t[d].type = "DIR" => Listed(t, d) \subseteq Listed(u, d)

NoNewTwins(t, u) ==
  \A d \in Nodes : u[d].type = "DIR" =>
    Twins(u, d) = {} \/ (t[d].type = "DIR" /\ Twins(u, d) \subseteq Twins(t, d))

RootedKept(t, u) ==
  \A S : Rooted(t, S) => \E R : S \subseteq R /\ Rooted(u, R)

Keeps(t, u) ==
  /\ Sound(u)
  /\ NodesKept(t, u) /\ EntriesKept(t, u) /\ NoNewTwins(t, u) /\ RootedKept(t, u)

----------------------------------------------------------------------------
LEMMA NodeFacts ==
  /\ Nodes \subseteq Nat /\ NULL \notin Nodes /\ Root \in Nodes /\ 1 \in Nodes /\ 2 \in Nodes
BY FilesAssumption DEF Nodes, NULL, Root

(* The least element that a search stops at. *)
LEMMA SmallestIsIn ==
  ASSUME NEW S \in SUBSET Nat, S # {}
  PROVE  Smallest(S) \in S /\ \A j \in S : Smallest(S) <= j
<1>1. PICK i \in S : \A j \in S : ~ (<<j, i>> \in OpToRel(<, Nat))
  BY NatLessThanWellFounded, WFMin
<1>2. \A j \in S : ~ (j < i)
  BY <1>1 DEF OpToRel
<1>3. \A j \in S : i <= j
  BY <1>2
<1> QED
  BY <1>3 DEF Smallest

(* Induction up to n, over a set, and the function that recursion makes. *)
LEMMA Counting ==
  ASSUME NEW n \in Nat, NEW S, 0 \in S, \A i \in 1 .. n : i - 1 \in S => i \in S
  PROVE  \A i \in 0 .. n : i \in S
<1> DEFINE T == {i \in 0 .. n : i \notin S}
<1> SUFFICES ASSUME T # {} PROVE FALSE
  OBVIOUS
<1>1. T \in SUBSET Nat
  BY SMT
<1>2. PICK k \in T : \A j \in T : ~ (<<j, k>> \in OpToRel(<, Nat))
  BY <1>1, NatLessThanWellFounded, WFMin
<1>3. \A j \in T : ~ (j < k)
  BY <1>1, <1>2 DEF OpToRel
<1>4. k \in 0 .. n /\ k \notin S
  BY Zenon
<1>5. k \in 1 .. n /\ k - 1 \in 0 .. n /\ k - 1 < k
  BY <1>4, SMT
<1>6. k - 1 \notin T
  BY <1>3, <1>5, Zenon
<1> QED
  BY <1>4, <1>5, <1>6, Zenon

Built(f, n, W, b, step) ==
  f \in [0 .. n -> W] /\ f[0] = b /\ \A i \in 1 .. n : f[i] = step[i][f[i - 1]]

LEMMA Recursion ==
  ASSUME NEW n \in Nat, NEW W, NEW b \in W, NEW step \in [1 .. n -> [W -> W]]
  PROVE  \E f : Built(f, n, W, b, step)
<1> DEFINE Ok(k, f) == f[0] = b /\ \A i \in 1 .. k : f[i] = step[i][f[i - 1]]
            S == {k \in 0 .. n : \E f \in [0 .. n -> W] : Ok(k, f)}
<1>1. 0 \in S
  <2>1. [i \in 0 .. n |-> b] \in [0 .. n -> W] /\ [i \in 0 .. n |-> b][0] = b
    BY SMT
  <2>2. 1 .. 0 = {}
    BY SMT
  <2>3. 0 \in 0 .. n
    BY SMT
  <2>4. Ok(0, [i \in 0 .. n |-> b])
    BY <2>1, <2>2, Zenon
  <2> HIDE DEF Ok
  <2> QED
    BY <2>1, <2>3, <2>4, Zenon
<1>2. ASSUME NEW k \in 1 .. n, k - 1 \in S PROVE k \in S
  <2>1. PICK f \in [0 .. n -> W] : Ok(k - 1, f)
    BY <1>2, Zenon
  <2> DEFINE g == [f EXCEPT ![k] = step[k][f[k - 1]]]
  <2>2. k \in 0 .. n /\ k - 1 \in 0 .. n /\ 0 # k /\ 0 \in 0 .. n
    BY SMT
  <2>3. step[k][f[k - 1]] \in W
    BY <2>2, Zenon
  <2>4. g \in [0 .. n -> W] /\ g[k] = step[k][f[k - 1]] /\ \A i \in 0 .. n : i # k => g[i] = f[i]
    BY <2>2, <2>3, Zenon
  <2> HIDE DEF g
  <2>5. ASSUME NEW i \in 1 .. k PROVE g[i] = step[i][g[i - 1]]
    <3>1. i \in 0 .. n /\ i - 1 \in 0 .. n /\ i - 1 # k /\ (i # k => i \in 1 .. k - 1)
      BY SMT
    <3>2. g[i - 1] = f[i - 1]
      BY <2>4, <3>1, Zenon
    <3>3. CASE i = k
      BY <2>4, <3>2, <3>3, Zenon
    <3>4. CASE i # k
      BY <2>1, <2>4, <3>1, <3>2, <3>4, Zenon
    <3> QED
      BY <3>3, <3>4
  <2>6. Ok(k, g)
    BY <2>1, <2>2, <2>4, <2>5, Zenon
  <2> HIDE DEF Ok
  <2> QED
    BY <2>2, <2>4, <2>6, Zenon
<1>3. n \in S
  <2> HIDE DEF S
  <2>1. \A i \in 0 .. n : i \in S
    BY <1>1, <1>2, Counting, Zenon
  <2>2. n \in 0 .. n
    BY SMT
  <2> QED
    BY <2>1, <2>2, Zenon
<1>4. PICK f \in [0 .. n -> W] : Ok(n, f)
  BY <1>3, Zenon
<1>5. Built(f, n, W, b, step)
  BY <1>4, Zenon DEF Built
<1> QED
  BY <1>5, Zenon

(* The names of nodes. *)
LEMMA NameFacts ==
  /\ \A c \in Parts : <<c>> \in Strings
  /\ \A w \in Strings : Kept(w) \in Strings /\ w \in Seq(Parts)
  /\ <<Empty>> \in Strings /\ <<Empty, Empty>> \in Strings
  /\ {Empty, Here, Up, Home, User} \subseteq Parts
<1>1. \A c \in Parts : <<c>> \in Strings
  BY DEF Strings
<1>2. \A w \in Strings : Kept(w) \in Strings /\ w \in Seq(Parts)
  BY FilesAssumption DEF Strings, Kept
<1>3. {Empty, Here, Up, Home, User} \subseteq Parts
  BY FilesAssumption
<1>4. <<Empty, Empty>> \in Strings
  BY <1>3 DEF Strings
<1> QED
  BY <1>1, <1>2, <1>3, <1>4

LEMMA FreeNode ==
  ASSUME NEW t, FreeNodes(t) # {}
  PROVE  Smallest(FreeNodes(t)) \in Nodes /\ t[Smallest(FreeNodes(t))].type = "FREE"
<1>1. FreeNodes(t) \subseteq Nat
  BY NodeFacts DEF FreeNodes
<1> QED
  BY <1>1, SmallestIsIn DEF FreeNodes

(* What ramfs_find returns: NULL, or an entry of a directory. *)
LEMMA FindFacts ==
  ASSUME NEW t, Sound(t), NEW d, NEW nm
  PROVE  \/ ramfs_find(t, d, nm) = NULL
         \/ /\ d \in Nodes /\ t[d].type = "DIR"
            /\ ramfs_find(t, d, nm) \in Listed(t, d)
            /\ ramfs_find(t, d, nm) \in Live(t)
            /\ ramfs_find(t, d, nm) \in Nodes
<1>1. CASE d \in Nodes /\ t[d].type = "DIR" /\ Child(t, d, nm) # {}
  <2>1. t[d].children \in Seq(Nodes)
    BY <1>1 DEF Sound, Table, Node
  <2>2. Child(t, d, nm) \subseteq Nat /\ Child(t, d, nm) \subseteq DOMAIN t[d].children
    BY <2>1 DEF Child
  <2>3. Smallest(Child(t, d, nm)) \in DOMAIN t[d].children
    BY <1>1, <2>2, SmallestIsIn
  <2> QED
    BY <1>1, <2>3 DEF ramfs_find, Sound, ListedByParent, Live, Listed
<1>2. CASE ~(d \in Nodes /\ t[d].type = "DIR" /\ Child(t, d, nm) # {})
  BY <1>2 DEF ramfs_find
<1> QED
  BY <1>1, <1>2

(* A name that ramfs_find does not find in a directory is not listed there. *)
LEMMA NotFound ==
  ASSUME NEW t, Sound(t), NEW d \in Nodes, t[d].type = "DIR", NEW nm,
         ramfs_find(t, d, nm) \notin Nodes
  PROVE  \A m \in Listed(t, d) : t[m].name # nm
<1>1. t[d].children \in Seq(Nodes)
  BY DEF Sound, Table, Node
<1>2. CASE Child(t, d, nm) # {}
  <2>1. Child(t, d, nm) \subseteq Nat /\ Child(t, d, nm) \subseteq DOMAIN t[d].children
    BY <1>1 DEF Child
  <2>2. Smallest(Child(t, d, nm)) \in DOMAIN t[d].children
    BY <1>2, <2>1, SmallestIsIn
  <2>3. t[d].children[Smallest(Child(t, d, nm))] \in Nodes
    BY <1>1, <2>2
  <2> QED
    BY <1>2, <2>3 DEF ramfs_find
<1>3. CASE Child(t, d, nm) = {}
  BY <1>3 DEF Child, Listed
<1> QED
  BY <1>2, <1>3

----------------------------------------------------------------------------
(***************************************************************************)
(* A new node, taken from the free ones and appended to the children of a  *)
(* node in use.  A file keeps the list of the node it replaces, whose      *)
(* entries have it as their parent.                                        *)
(***************************************************************************)
LEMMA AddedTable ==
  ASSUME NEW t, Sound(t), NEW d \in Live(t), FreeNodes(t) # {},
         NEW nm \in Strings, NEW kind \in {"DIR", "FILE"}, NEW n, NEW u,
         n = Smallest(FreeNodes(t)), u = Added(t, d, nm, kind)
  PROVE  /\ n \in Nodes \ Live(t) /\ n # d /\ n # Root /\ d \in Nodes
         /\ Live(u) = Live(t) \cup {n}
         /\ u \in Table
         /\ u[n].type = kind /\ u[n].name = nm /\ u[n].size = 0 /\ u[n].parent = d
         /\ Listed(u, n) = IF kind = "DIR" THEN {} ELSE Listed(t, n)
         /\ u[n].children = IF kind = "DIR" THEN <<>> ELSE t[n].children
         /\ u[d].children = Append(t[d].children, n)
         /\ Listed(u, d) = Listed(t, d) \cup {n}
         /\ \A m \in Nodes \ {n} : /\ u[m].type = t[m].type /\ u[m].name = t[m].name
                                   /\ u[m].size = t[m].size /\ u[m].parent = t[m].parent
         /\ \A m \in Nodes \ {n, d} : u[m].children = t[m].children
                                      /\ Listed(u, m) = Listed(t, m)
<1>1. n \in Nodes /\ t[n].type = "FREE" /\ d \in Nodes /\ t[d].type # "FREE"
  BY FreeNode DEF Live
<1>2. n # d /\ n # Root /\ n \in Nodes \ Live(t)
  BY <1>1 DEF Sound, Live
<1> DEFINE new == [type |-> kind, name |-> nm, size |-> 0, parent |-> d,
                   children |-> IF kind = "DIR" THEN <<>> ELSE t[n].children]
           old == [t[d] EXCEPT !.children = Append(t[d].children, n)]
<1>3. t[n] \in Node /\ t[d] \in Node /\ t \in [Nodes -> Node]
  BY <1>1 DEF Sound, Table
<1>4. 0 \in Sizes /\ <<>> \in Seq(Nodes)
  BY FilesAssumption DEF Sizes
<1>5. new \in Node
  BY <1>1, <1>3, <1>4 DEF Node
<1>6. t[d].children \in Seq(Nodes)
  BY <1>3 DEF Node
<1>7. Append(t[d].children, n) \in Seq(Nodes)
  BY <1>1, <1>6
<1>8. /\ old \in Node /\ old.children = Append(t[d].children, n)
      /\ old.type = t[d].type /\ old.name = t[d].name /\ old.size = t[d].size
      /\ old.parent = t[d].parent
  BY <1>3, <1>7 DEF Node
<1>9. /\ new.type = kind /\ new.name = nm /\ new.size = 0 /\ new.parent = d
      /\ new.children = IF kind = "DIR" THEN <<>> ELSE t[n].children
  OBVIOUS
<1>10. u = [t EXCEPT ![n] = new, ![d] = old]
  BY <1>1, <1>2, <1>3 DEF Added
<1> HIDE DEF new, old
<1>11. /\ u \in [Nodes -> Node] /\ u[n] = new /\ u[d] = old
       /\ \A m \in Nodes \ {n, d} : u[m] = t[m]
  BY <1>1, <1>2, <1>3, <1>5, <1>8, <1>10
<1>12. Listed(u, d) = Listed(t, d) \cup {n}
  <2> DEFINE c == t[d].children
  <2>1. u[d].children = Append(c, n)
    BY <1>8, <1>11
  <2>2. /\ DOMAIN Append(c, n) = DOMAIN c \cup {Len(c) + 1}
        /\ Append(c, n)[Len(c) + 1] = n
        /\ \A i \in DOMAIN c : Append(c, n)[i] = c[i]
    BY <1>1, <1>6
  <2> HIDE DEF c
  <2>3. Listed(u, d) = {Append(c, n)[i] : i \in DOMAIN Append(c, n)}
    BY <2>1, Zenon DEF Listed
  <2>4. Listed(t, d) = {c[i] : i \in DOMAIN c}
    BY DEF Listed, c
  <2> QED
    BY <2>2, <2>3, <2>4
<1>13. Listed(u, n) = IF kind = "DIR" THEN {} ELSE Listed(t, n)
  BY <1>9, <1>11 DEF Listed
<1>14. \A m \in Nodes \ {n, d} : Listed(u, m) = Listed(t, m)
  BY <1>11 DEF Listed
<1>15. Live(u) = Live(t) \cup {n}
  BY <1>1, <1>8, <1>9, <1>11 DEF Live
<1>16. \A m \in Nodes \ {n} : /\ u[m].type = t[m].type /\ u[m].name = t[m].name
                             /\ u[m].size = t[m].size /\ u[m].parent = t[m].parent
  BY <1>8, <1>11
<1> QED
  BY <1>1, <1>2, <1>8, <1>9, <1>11, <1>12, <1>13, <1>14, <1>15, <1>16 DEF Table

(* It keeps all there is, and doubles no name unless d lists that name. *)
LEMMA AddedKeeps ==
  ASSUME NEW t, Sound(t), NEW d \in Live(t), FreeNodes(t) # {},
         NEW nm \in Strings, NEW kind \in {"DIR", "FILE"},
         t[d].type = "DIR" => nm \in CutNames \/ \A m \in Listed(t, d) : t[m].name # nm
  PROVE  /\ Keeps(t, Added(t, d, nm, kind))
         /\ Smallest(FreeNodes(t)) \in Live(Added(t, d, nm, kind))
<1> DEFINE n == Smallest(FreeNodes(t))
           u == Added(t, d, nm, kind)
<1>1. /\ n \in Nodes \ Live(t) /\ n # d /\ n # Root /\ d \in Nodes
      /\ Live(u) = Live(t) \cup {n}
      /\ u \in Table
      /\ u[n].type = kind /\ u[n].name = nm /\ u[n].size = 0 /\ u[n].parent = d
      /\ Listed(u, n) = IF kind = "DIR" THEN {} ELSE Listed(t, n)
      /\ u[n].children = IF kind = "DIR" THEN <<>> ELSE t[n].children
      /\ u[d].children = Append(t[d].children, n)
      /\ Listed(u, d) = Listed(t, d) \cup {n}
  BY AddedTable
<1>2. /\ \A m \in Nodes \ {n} : /\ u[m].type = t[m].type /\ u[m].name = t[m].name
                                /\ u[m].size = t[m].size /\ u[m].parent = t[m].parent
      /\ \A m \in Nodes \ {n, d} : u[m].children = t[m].children
                                   /\ Listed(u, m) = Listed(t, m)
  BY AddedTable
<1> HIDE DEF n, u
<1>3. \A e \in Nodes : /\ Listed(t, e) \subseteq Live(t) \ {Root}
                       /\ \A m \in Listed(t, e) : t[m].parent = e
  BY DEF Sound, ListedByParent, Listed
<1>4. /\ t[d].children \in Seq(Nodes)
      /\ DOMAIN u[d].children = 1 .. Len(t[d].children) + 1
      /\ DOMAIN t[d].children = 1 .. Len(t[d].children)
      /\ \A i \in DOMAIN t[d].children : u[d].children[i] = t[d].children[i]
      /\ u[d].children[Len(t[d].children) + 1] = n
      /\ Len(t[d].children) \in Nat
  <2>1. t[d].children \in Seq(Nodes)
    BY <1>1 DEF Sound, Table, Node
  <2> QED
    BY <1>1, <2>1
<1>5. Live(t) \subseteq Nodes \ {n} /\ Live(u) \subseteq Nodes
  BY <1>1 DEF Live
<1>6. ListedByParent(u)
  <2> SUFFICES ASSUME NEW e \in Nodes, NEW m \in Listed(u, e)
               PROVE  m \in Live(u) \ {Root} /\ u[m].parent = e
    BY DEF ListedByParent, Listed
  <2>1. CASE m \in Listed(t, e)
    BY <2>1, <1>1, <1>2, <1>3, <1>5
  <2>2. CASE m \notin Listed(t, e)
    <3>1. e = d /\ m = n
      BY <2>2, <1>1, <1>2
    <3> QED
      BY <3>1, <1>1
  <2> QED
    BY <2>1, <2>2
<1>7. ListedOnce(u)
  <2> SUFFICES ASSUME NEW e \in Nodes, NEW i \in DOMAIN u[e].children,
                      NEW j \in DOMAIN u[e].children,
                      u[e].children[i] = u[e].children[j]
               PROVE  i = j
    BY DEF ListedOnce
  <2>1. CASE e = d
    <3>1. \A k \in DOMAIN t[d].children : t[d].children[k] # n
      BY <1>1, <1>3 DEF Listed
    <3>2. \A k, l \in DOMAIN t[d].children :
            t[d].children[k] = t[d].children[l] => k = l
      BY <1>1 DEF Sound, ListedOnce
    <3>3. \A k \in DOMAIN u[d].children :
            k \in DOMAIN t[d].children \/ k = Len(t[d].children) + 1
      BY <1>4
    <3>4. CASE i \in DOMAIN t[d].children /\ j \in DOMAIN t[d].children
      BY <2>1, <3>2, <3>4, <1>4
    <3>5. CASE i \notin DOMAIN t[d].children \/ j \notin DOMAIN t[d].children
      BY <2>1, <3>1, <3>3, <3>5, <1>4, Zenon
    <3> QED
      BY <3>4, <3>5
  <2>2. CASE e = n
    <3>1. \A k, l \in DOMAIN t[n].children :
            t[n].children[k] = t[n].children[l] => k = l
      BY <1>1 DEF Sound, ListedOnce
    <3> QED
      BY <2>2, <3>1, <1>1
  <2>3. CASE e \notin {n, d}
    BY <2>3, <1>2 DEF Sound, ListedOnce
  <2> QED
    BY <2>1, <2>2, <2>3
<1>8. Sound(u)
  BY <1>1, <1>2, <1>6, <1>7, NodeFacts DEF Sound
<1>9. NodesKept(t, u)
  BY <1>1, <1>2, <1>5 DEF NodesKept
<1>10. EntriesKept(t, u)
  <2> SUFFICES ASSUME NEW e \in Nodes, t[e].type = "DIR"
               PROVE  Listed(t, e) \subseteq Listed(u, e)
    BY DEF EntriesKept
  <2>1. e # n
    BY <1>1 DEF Live
  <2> QED
    BY <2>1, <1>1, <1>2
<1>11. NoNewTwins(t, u)
  <2> SUFFICES ASSUME NEW e \in Nodes, u[e].type = "DIR"
               PROVE  Twins(u, e) = {} \/ (t[e].type = "DIR" /\ Twins(u, e) \subseteq Twins(t, e))
    BY DEF NoNewTwins
  <2>1. CASE e = n
    BY <2>1, <1>1 DEF Twins
  <2>2. CASE e # n
    <3>1. t[e].type = "DIR" /\ (e # d => Listed(u, e) = Listed(t, e))
      BY <2>2, <1>2
    <3>2. ASSUME NEW m1 \in Listed(u, e), NEW m2 \in Listed(u, e), m1 # m2,
                 u[m1].name = u[m2].name, u[m1].name \notin CutNames
          PROVE  <<m1, m2>> \in Twins(t, e)
      <4>1. \A m \in Listed(t, e) : m \in Nodes \ {n} /\ u[m].name = t[m].name
        BY <1>2, <1>3, <1>5
      <4>2. \A m \in Listed(u, e) : m \in Listed(t, e) \/ (m = n /\ e = d)
        BY <3>1, <1>1
      <4>3. m1 \in Listed(t, e) /\ m2 \in Listed(t, e)
        BY <3>1, <3>2, <4>1, <4>2, <1>1
      <4> QED
        BY <3>2, <4>1, <4>3 DEF Twins
    <3>3. ASSUME NEW mn \in Twins(u, e) PROVE mn \in Twins(t, e)
      <4>1. PICK m1 \in Listed(u, e), m2 \in Listed(u, e) : mn = <<m1, m2>>
        BY <3>3 DEF Twins
      <4>2. m1 # m2 /\ u[m1].name = u[m2].name /\ u[m1].name \notin CutNames
        BY <3>3, <4>1 DEF Twins
      <4> QED
        BY <3>2, <4>1, <4>2
    <3> QED
      BY <3>1, <3>3
  <2> QED
    BY <2>1, <2>2
<1>12. RootedKept(t, u)
  <2> SUFFICES ASSUME NEW S, Rooted(t, S)
               PROVE  \E R : S \subseteq R /\ Rooted(u, R)
    BY DEF RootedKept
  <2>1. S \subseteq Live(t) /\ Root \in S /\ n \notin S
    BY <1>1 DEF Rooted
  <2>2. CASE d \in S /\ t[d].type = "DIR"
    <3>1. Rooted(u, S \cup {n})
      <4>1. \A e \in S \cup {n} : u[e].type = "DIR" => Listed(u, e) \subseteq S \cup {n}
        BY <2>1, <1>1, <1>2, <1>5 DEF Rooted
      <4>2. \A m \in S \ {Root} : /\ u[m].parent \in S /\ u[u[m].parent].type = "DIR"
                                  /\ m \in Listed(u, u[m].parent)
        BY <2>1, <1>1, <1>2, <1>5 DEF Rooted
      <4>3. /\ u[n].parent \in S /\ u[u[n].parent].type = "DIR"
            /\ n \in Listed(u, u[n].parent)
        BY <2>2, <1>1, <1>2
      <4> QED
        BY <2>1, <4>1, <4>2, <4>3, <1>1 DEF Rooted
    <3> QED
      BY <3>1
  <2>3. CASE ~(d \in S /\ t[d].type = "DIR")
    <3>1. \A e \in S : u[e].type = "DIR" => Listed(u, e) = Listed(t, e) /\ t[e].type = "DIR"
      BY <2>1, <2>3, <1>1, <1>2, <1>5
    <3>2. \A m \in S \ {Root} : /\ u[m].parent \in S /\ u[u[m].parent].type = "DIR"
                                /\ m \in Listed(u, u[m].parent)
      <4> SUFFICES ASSUME NEW m \in S \ {Root}
                   PROVE  /\ u[m].parent \in S /\ u[u[m].parent].type = "DIR"
                          /\ m \in Listed(u, u[m].parent)
        OBVIOUS
      <4>1. /\ t[m].parent \in S /\ t[t[m].parent].type = "DIR"
            /\ m \in Listed(t, t[m].parent) /\ u[m].parent = t[m].parent
        BY <2>1, <1>2, <1>5 DEF Rooted
      <4> QED
        BY <4>1, <2>1, <2>3, <1>2, <1>5
    <3>3. Rooted(u, S)
      BY <2>1, <3>1, <3>2, <1>1 DEF Rooted
    <3> QED
      BY <3>3
  <2> QED
    BY <2>2, <2>3
<1> QED
  BY <1>1, <1>8, <1>9, <1>10, <1>11, <1>12 DEF Keeps, n, u
----------------------------------------------------------------------------
(* Only sizes change. *)
LEMMA SameShape ==
  ASSUME NEW t, Sound(t), NEW u \in Table,
         \A m \in Nodes : /\ u[m].type = t[m].type /\ u[m].name = t[m].name
                          /\ u[m].parent = t[m].parent /\ u[m].children = t[m].children
  PROVE  Keeps(t, u) /\ Live(u) = Live(t)
<1>1. Live(u) = Live(t) /\ \A d \in Nodes : Listed(u, d) = Listed(t, d)
  BY DEF Live, Listed
<1>2. \A d \in Nodes : Listed(t, d) \subseteq Nodes
  BY DEF Listed, Sound, ListedByParent, Live
<1>3. Sound(u)
  <2>1. ListedByParent(u)
    BY <1>1, <1>2 DEF Sound, ListedByParent, Listed
  <2>2. ListedOnce(u)
    BY DEF Sound, ListedOnce
  <2> QED
    BY <2>1, <2>2, NodeFacts DEF Sound
<1>4. NodesKept(t, u) /\ EntriesKept(t, u)
  BY <1>1 DEF NodesKept, EntriesKept, Live
<1>5. NoNewTwins(t, u)
  <2>1. \A d \in Nodes : Twins(u, d) = Twins(t, d)
    BY <1>1, <1>2 DEF Twins
  <2> QED
    BY <2>1 DEF NoNewTwins
<1>6. \A S : Rooted(t, S) => Rooted(u, S)
  BY <1>1 DEF Rooted, Live
<1>7. RootedKept(t, u)
  BY <1>6 DEF RootedKept
<1> QED
  BY <1>1, <1>3, <1>4, <1>5, <1>7 DEF Keeps

LEMMA Resized ==
  ASSUME NEW t, Sound(t), NEW f \in Nodes, NEW size \in Sizes
  PROVE  /\ Keeps(t, [t EXCEPT ![f].size = size])
         /\ Live([t EXCEPT ![f].size = size]) = Live(t)
<1> DEFINE u == [t EXCEPT ![f].size = size]
<1>1. /\ u \in Table
      /\ \A m \in Nodes : /\ u[m].type = t[m].type /\ u[m].name = t[m].name
                          /\ u[m].parent = t[m].parent /\ u[m].children = t[m].children
  BY DEF Sound, Table, Node
<1> HIDE DEF u
<1>2. Keeps(t, u) /\ Live(u) = Live(t)
  BY <1>1, SameShape
<1> QED
  BY <1>2 DEF u

LEMMA KeepsSelf ==
  ASSUME NEW t, Sound(t)
  PROVE  Keeps(t, t)
BY DEF Keeps, NodesKept, EntriesKept, NoNewTwins, RootedKept

LEMMA KeepsOn ==
  ASSUME NEW t, NEW u, NEW v, Keeps(t, u), Keeps(u, v)
  PROVE  Keeps(t, v)
<1>1. NodesKept(t, v) /\ Sound(v)
  BY DEF Keeps, NodesKept
<1>2. EntriesKept(t, v)
  <2> SUFFICES ASSUME NEW d \in Nodes, t[d].type = "DIR"
               PROVE  Listed(t, d) \subseteq Listed(v, d)
    BY DEF EntriesKept
  <2>1. u[d].type = "DIR"
    BY DEF Keeps, NodesKept, Live
  <2> QED
    BY <2>1 DEF Keeps, EntriesKept
<1>3. NoNewTwins(t, v)
  <2> SUFFICES ASSUME NEW d \in Nodes, v[d].type = "DIR", Twins(v, d) # {}
               PROVE  t[d].type = "DIR" /\ Twins(v, d) \subseteq Twins(t, d)
    BY DEF NoNewTwins
  <2>1. u[d].type = "DIR" /\ Twins(v, d) \subseteq Twins(u, d)
    BY DEF Keeps, NoNewTwins
  <2>2. t[d].type = "DIR" /\ Twins(u, d) \subseteq Twins(t, d)
    BY <2>1 DEF Keeps, NoNewTwins
  <2> QED
    BY <2>1, <2>2
<1>4. RootedKept(t, v)
  <2> SUFFICES ASSUME NEW S, Rooted(t, S)
               PROVE  \E R : S \subseteq R /\ Rooted(v, R)
    BY DEF RootedKept
  <2>1. PICK Q : S \subseteq Q /\ Rooted(u, Q)
    BY DEF Keeps, RootedKept
  <2>2. PICK R : Q \subseteq R /\ Rooted(v, R)
    BY <2>1 DEF Keeps, RootedKept
  <2> QED
    BY <2>1, <2>2
<1> QED
  BY <1>1, <1>2, <1>3, <1>4 DEF Keeps

----------------------------------------------------------------------------
(* What a call that makes a node returns: a node in use, or NULL. *)
MadeWell(t, made) ==
  /\ Keeps(t, made.table)
  /\ made.node \in Live(made.table) \cup {NULL}

LEMMA FreshWell ==
  ASSUME NEW t, Sound(t), NEW d \in Live(t), FreeNodes(t) # {}, NEW nm \in Strings,
         NEW kind \in {"DIR", "FILE"}, ramfs_find(t, d, nm) \notin Nodes
  PROVE  MadeWell(t, Fresh(t, d, nm, kind))
<1>1. ASSUME t[d].type = "DIR"
      PROVE  Kept(nm) \in CutNames \/ \A m \in Listed(t, d) : t[m].name # Kept(nm)
  <2>1. d \in Nodes
    BY DEF Live
  <2>2. \A m \in Listed(t, d) : t[m].name # nm
    BY <1>1, <2>1, NotFound
  <2>3. Kept(nm) = nm \/ Kept(nm) \in CutNames
    BY DEF Kept, CutNames
  <2> QED
    BY <2>2, <2>3
<1>2. Kept(nm) \in Strings
  BY NameFacts
<1>3. /\ Keeps(t, Added(t, d, Kept(nm), kind))
      /\ Smallest(FreeNodes(t)) \in Live(Added(t, d, Kept(nm), kind))
  BY <1>1, <1>2, AddedKeeps
<1> QED
  BY <1>3 DEF Fresh, MadeWell

LEMMA FailedWell ==
  ASSUME NEW t, Sound(t)
  PROVE  MadeWell(t, Failed(t))
BY KeepsSelf DEF Failed, MadeWell

LEMMA FoundWell ==
  ASSUME NEW t, Sound(t), NEW d, NEW nm
  PROVE  MadeWell(t, [node |-> ramfs_find(t, d, nm), table |-> t])
<1>1. ramfs_find(t, d, nm) \in Live(t) \cup {NULL}
  BY FindFacts
<1> QED
  BY <1>1, KeepsSelf DEF MadeWell

LEMMA MkdirWell ==
  ASSUME NEW t, Sound(t), NEW d \in Live(t), NEW nm \in Strings
  PROVE  MadeWell(t, ramfs_mkdir(t, d, nm))
BY FreshWell, FailedWell DEF ramfs_mkdir

LEMMA CreateWell ==
  ASSUME NEW t, Sound(t), NEW d \in Live(t), NEW nm \in Strings
  PROVE  MadeWell(t, ramfs_create(t, d, nm))
BY FreshWell, FoundWell, FailedWell, Zenon DEF ramfs_create

LEMMA FindOrCreateWell ==
  ASSUME NEW t, Sound(t), NEW d \in Live(t), NEW nm \in Strings
  PROVE  MadeWell(t, FindOrCreate(t, d, nm))
BY CreateWell, FoundWell, Zenon DEF FindOrCreate
----------------------------------------------------------------------------
(* The walk of ramfs_resolve: what it reaches stays in any set that Enter keeps. *)
Walk(at, t, path, W) ==
  /\ at \in [0 .. Len(path) -> W]
  /\ at[0] = Root
  /\ \A i \in 1 .. Len(path) : at[i] = Enter(t, at[i - 1], path[i])
  /\ ramfs_resolve(t, path) = at[Len(path)]

LEMMA ResolveSteps ==
  ASSUME NEW t, NEW V, NEW path \in Seq(V), NEW W, Root \in W,
         \A d \in W, c \in V : Enter(t, d, c) \in W
  PROVE  \E at : Walk(at, t, path, W)
<1> DEFINE n == Len(path)
            step == [i \in 1 .. n |-> [d \in W |-> Enter(t, d, path[i])]]
            F(f) == [i \in 0 .. n |-> IF i = 0 THEN Root ELSE Enter(t, f[i - 1], path[i])]
            at == CHOOSE f : f = F(f)
<1>1. n \in Nat /\ \A i \in 1 .. n : path[i] \in V
  BY SMT
<1>2. step \in [1 .. n -> [W -> W]]
  BY <1>1, Zenon
<1>3. ramfs_resolve(t, path) = IF path = <<>> THEN Root ELSE at[n]
  BY Zenon DEF ramfs_resolve
<1>4. path = <<>> => n = 0
  BY SMT
<1> HIDE DEF n
<1> HIDE DEF step
<1>0. PICK f : Built(f, n, W, Root, step)
  BY <1>1, <1>2, Recursion, Zenon
<1> USE DEF step
<1>5. f \in [0 .. n -> W] /\ f[0] = Root /\ \A i \in 1 .. n : f[i] = step[i][f[i - 1]]
  BY <1>0, Zenon DEF Built
<1>6. \A i \in 1 .. n : i - 1 \in 0 .. n /\ i # 0 /\ i \in 0 .. n
  BY <1>1, SMT
<1>7. \A i \in 1 .. n : f[i] = Enter(t, f[i - 1], path[i])
  BY <1>5, <1>6, Zenon
<1>8. \A i \in 0 .. n : i = 0 \/ i \in 1 .. n
  BY <1>1, SMT
<1>9. \A i \in 0 .. n : f[i] = IF i = 0 THEN Root ELSE Enter(t, f[i - 1], path[i])
  BY <1>5, <1>7, <1>8, Zenon
<1>10. f = F(f)
  BY <1>5, <1>9, Zenon
<1>11. at = F(at)
  BY <1>10, Zenon
<1> HIDE DEF at
<1>12. 0 \in 0 .. n /\ n \in 0 .. n
  BY <1>1, SMT
<1>13. at[0] = Root /\ \A i \in 1 .. n : at[i] = Enter(t, at[i - 1], path[i])
  BY <1>6, <1>11, <1>12, Zenon
<1>14. at \in [0 .. n -> W]
  <2> DEFINE S == {i \in 0 .. n : at[i] \in W}
  <2>1. 0 \in S
    BY <1>12, <1>13, Zenon
  <2>2. ASSUME NEW i \in 1 .. n, i - 1 \in S PROVE i \in S
    BY <1>1, <1>6, <1>13, <2>2, Zenon
  <2>3. \A i \in 0 .. n : i \in S
    <3> HIDE DEF S
    <3> QED
      BY <1>1, <2>1, <2>2, Counting, Zenon
  <2>4. \A i \in 0 .. n : at[i] \in W
    BY <2>3, Zenon
  <2> QED
    BY <1>11, <2>4, Zenon
<1>15. ramfs_resolve(t, path) = at[n]
  BY <1>3, <1>4, <1>13, Zenon
<1>16. Walk(at, t, path, W)
  BY <1>13, <1>14, <1>15, Zenon DEF Walk, n
<1> QED
  BY <1>16, Zenon

LEMMA ResolveStays ==
  ASSUME NEW t, Sound(t), NEW S, Rooted(t, S), NEW path \in Seq(Parts)
  PROVE  ramfs_resolve(t, path) \in S \cup {NULL}
<1> DEFINE W == S \cup {NULL}
<1>1. ASSUME NEW d \in W, NEW c \in Parts PROVE Enter(t, d, c) \in W
  <2>1. d \in Nodes => d \in S
    BY NodeFacts
  <2>2. ramfs_find(t, d, <<c>>) \in W
    BY <2>1, FindFacts, Zenon DEF Rooted
  <2>3. d \in Nodes => d = Root \/ t[d].parent \in S
    BY <2>1 DEF Rooted
  <2>4. t[Root].parent = Root /\ Root \in S
    BY DEF Sound, Rooted
  <2> QED
    BY <2>2, <2>3, <2>4 DEF Enter
<1>2. PICK at : Walk(at, t, path, W)
  <2>1. Root \in W
    BY DEF Rooted
  <2> HIDE DEF W
  <2> QED
    BY <1>1, <2>1, ResolveSteps, Zenon
<1>3. Len(path) \in 0 .. Len(path)
  OBVIOUS
<1> QED
  BY <1>2, <1>3 DEF Walk

(* The equations of PathParts, and its type. *)
LEMMA PathEquations ==
  ASSUME NEW t \in Table
  PROVE  /\ PathParts(t) \in [0 .. MaxParts -> [Nodes \cup {NULL} -> Seq(Parts)]]
         /\ \A k \in 0 .. MaxParts, m \in Nodes \cup {NULL} :
              PathParts(t)[k][m] = IF k = 0 \/ m \in {Root, NULL} THEN <<>>
                                   ELSE PathParts(t)[k - 1][t[m].parent] \o t[m].name
<1> DEFINE M == Nodes \cup {NULL}
            W == [M -> Seq(Parts)]
            Longer(g) == [m \in M |-> IF m \in {Root, NULL} THEN <<>>
                                     ELSE g[t[m].parent] \o t[m].name]
            none == [m \in M |-> <<>>]
            step == [k \in 1 .. MaxParts |-> [g \in W |-> Longer(g)]]
            F(f) == [k \in 0 .. MaxParts |-> [m \in M |->
                       IF k = 0 \/ m \in {Root, NULL} THEN <<>>
                       ELSE f[k - 1][t[m].parent] \o t[m].name]]
            parts == CHOOSE f : f = F(f)
<1>1. MaxParts \in Nat
  BY FilesAssumption
<1>2. none \in W
  BY SMT
<1>3. ASSUME NEW g \in W PROVE Longer(g) \in W
  <2>1. ASSUME NEW m \in M, m \notin {Root, NULL}
        PROVE  g[t[m].parent] \o t[m].name \in Seq(Parts)
    <3>1. t[m].parent \in M /\ t[m].name \in Seq(Parts)
      BY <2>1, NameFacts DEF Table, Node
    <3>2. g[t[m].parent] \in Seq(Parts)
      BY <3>1
    <3> HIDE DEF M
    <3> QED
      BY <3>1, <3>2
  <2>2. <<>> \in Seq(Parts)
    BY SMT
  <2> QED
    BY <2>1, <2>2, Zenon
<1>4. step \in [1 .. MaxParts -> [W -> W]]
  BY <1>3, Zenon
<1> HIDE DEF W, none, step
<1>0. PICK f : Built(f, MaxParts, W, none, step)
  BY <1>1, <1>2, <1>4, Recursion, Zenon
<1>5. /\ f \in [0 .. MaxParts -> W] /\ f[0] = none
      /\ \A k \in 1 .. MaxParts : f[k] = step[k][f[k - 1]]
  BY <1>0, Zenon DEF Built
<1> USE DEF W, none, step
<1>6. \A k \in 1 .. MaxParts : k - 1 \in 0 .. MaxParts /\ k # 0 /\ k \in 0 .. MaxParts
  BY <1>1, SMT
<1>7. \A k \in 1 .. MaxParts : f[k] = Longer(f[k - 1])
  <2> HIDE DEF W, Longer
  <2> QED
    BY <1>5, <1>6, Zenon
<1>8. \A k \in 0 .. MaxParts : k = 0 \/ k \in 1 .. MaxParts
  BY <1>1, SMT
<1>9. \A k \in 0 .. MaxParts : f[k] = F(f)[k]
  <2>1. ASSUME NEW k \in 1 .. MaxParts PROVE f[k] = F(f)[k]
    <3>1. F(f)[k] = [m \in M |-> IF m \in {Root, NULL} THEN <<>>
                                ELSE f[k - 1][t[m].parent] \o t[m].name]
      BY <1>6, Zenon
    <3> QED
      BY <1>7, <3>1, Zenon
  <2>2. 0 \in 0 .. MaxParts
    BY <1>1, SMT
  <2>3. F(f)[0] = none
    BY <2>2, Zenon
  <2> QED
    BY <1>5, <1>8, <2>1, <2>3, Zenon
<1>10. f = F(f)
  BY <1>5, <1>9, Zenon
<1>11. parts = F(parts)
  BY <1>10, Zenon
<1> HIDE DEF parts
<1>12. \A k \in 0 .. MaxParts, m \in M :
         parts[k][m] = IF k = 0 \/ m \in {Root, NULL} THEN <<>>
                       ELSE parts[k - 1][t[m].parent] \o t[m].name
  <2>1. \A k \in 0 .. MaxParts : parts[k] = F(parts)[k]
    BY <1>11, Zenon
  <2> QED
    BY <2>1, Zenon
<1>13. 0 \in 0 .. MaxParts
  BY <1>1, SMT
<1>14. parts[0] = none
  BY <1>11, <1>13, Zenon
<1>15. ASSUME NEW k \in 1 .. MaxParts PROVE parts[k] = Longer(parts[k - 1])
  <2>1. parts[k] = [m \in M |-> IF k = 0 \/ m \in {Root, NULL} THEN <<>>
                               ELSE parts[k - 1][t[m].parent] \o t[m].name]
    BY <1>6, <1>11, Zenon
  <2>2. k # 0
    BY <1>6
  <2> QED
    BY <2>1, <2>2, Zenon
<1>16. parts \in [0 .. MaxParts -> W]
  <2> DEFINE S == {k \in 0 .. MaxParts : parts[k] \in W}
  <2> HIDE DEF W, Longer, none
  <2>1. 0 \in S
    BY <1>2, <1>13, <1>14, Zenon
  <2>2. ASSUME NEW k \in 1 .. MaxParts, k - 1 \in S PROVE k \in S
    BY <1>3, <1>6, <1>15, <2>2, Zenon
  <2>3. \A k \in 0 .. MaxParts : k \in S
    <3> HIDE DEF S
    <3> QED
      BY <1>1, <2>1, <2>2, Counting, Zenon
  <2>4. \A k \in 0 .. MaxParts : parts[k] \in W
    BY <2>3, Zenon
  <2> QED
    BY <1>11, <2>4, Zenon
<1>17. PathParts(t) = parts
  BY Zenon DEF PathParts, parts
<1> QED
  BY <1>12, <1>16, <1>17, Zenon

LEMMA AbsPathType ==
  ASSUME NEW t, Sound(t), NEW n \in Nodes
  PROVE  ramfs_abs_path(t, n) \in Strings
<1>1. MaxParts \in 0 .. MaxParts
  BY FilesAssumption
<1>2. PathParts(t)[MaxParts][n] \in Seq(Parts)
  BY <1>1, PathEquations DEF Sound
<1>3. <<Empty>> \in Seq(Parts)
  BY NameFacts
<1> QED
  BY <1>2, <1>3 DEF ramfs_abs_path, Strings

LEMMA DirnameType ==
  ASSUME NEW path \in Strings
  PROVE  Dirname(path) \in Seq(Parts) /\ <<Basename(path)>> \in Strings
<1>1. Len(path) \in 1 .. Len(path)
  BY DEF Strings
<1> QED
  BY <1>1 DEF Dirname, Basename, Strings

LEMMA FullType ==
  ASSUME cwd_path \in Strings, NEW w \in Words
  PROVE  Full(w) \in Seq(Parts) /\ w \in Strings
<1>1. w \in Strings
  BY FilesAssumption
<1> QED
  BY <1>1 DEF Full, Strings

----------------------------------------------------------------------------
(***************************************************************************)
(* The inductive invariant.  Tree and CwdIsDirectory alone are not         *)
(* inductive: rm of a file with entries leaves nodes whose parent is free, *)
(* and a new node below a free one could be that node.  No walk gets       *)
(* there: where the shell is, all the way up to the root is in use.        *)
(***************************************************************************)
Descriptors == [Fds -> [used : BOOLEAN, offset : 0 .. Word - 1, node : Nodes \cup {NULL}]]

IInv ==
  /\ Sound(nodes)
  /\ cwd_node \in Nodes /\ nodes[cwd_node].type = "DIR"
  /\ \E S : Rooted(nodes, S) /\ cwd_node \in S
  /\ cwd_path \in Strings /\ fds \in Descriptors /\ overrun \in BOOLEAN

(* The steps that EntriesStay and TwinsByRename allow. *)
EntriesHold ==
  \A d \in Nodes : nodes[d].type = "DIR" =>
    \A n \in Listed(nodes, d) :
      \/ nodes'[n].type = "FREE"
      \/ nodes'[d].type = "DIR" /\ n \in Listed(nodes', d)

TwinsHold ==
  \A d \in Nodes : nodes'[d].type = "DIR" =>
    \A mn \in Twins(nodes', d) :
      mn \in Twins(nodes, d) \/ IsRenamed(mn[1]) \/ IsRenamed(mn[2])

StepHolds == IInv' /\ EntriesHold /\ TwinsHold

LEMMA KeepsStep ==
  ASSUME IInv, Keeps(nodes, nodes'), cwd_node' = cwd_node, cwd_path' = cwd_path,
         fds' \in Descriptors, overrun' \in BOOLEAN
  PROVE  StepHolds
<1>1. PICK S : Rooted(nodes, S) /\ cwd_node \in S
  BY DEF IInv
<1>2. PICK R : S \subseteq R /\ Rooted(nodes', R)
  BY <1>1 DEF Keeps, RootedKept
<1>3. nodes'[cwd_node].type = "DIR" /\ Sound(nodes') /\ cwd_node \in R
  BY <1>1, <1>2 DEF IInv, Keeps, NodesKept, Live
<1>4. IInv'
  <2>1. \E Q : Rooted(nodes', Q) /\ cwd_node' \in Q
    BY <1>2, <1>3
  <2> QED
    BY <1>3, <2>1 DEF IInv, Sound, Rooted, Table, Node, Descriptors, Listed, Live,
                      ListedByParent, ListedOnce
<1>5. EntriesHold
  <2>1. \A d \in Nodes : nodes[d].type = "DIR" => nodes'[d].type = "DIR"
    BY DEF Keeps, NodesKept, Live
  <2> QED
    BY <2>1 DEF EntriesHold, Keeps, EntriesKept
<1>6. TwinsHold
  BY DEF TwinsHold, Keeps, NoNewTwins
<1> QED
  BY <1>4, <1>5, <1>6 DEF StepHolds

LEMMA SameNodes ==
  ASSUME IInv, nodes' = nodes
  PROVE  EntriesHold /\ TwinsHold
BY DEF EntriesHold, TwinsHold

LEMMA OverrunStep ==
  ASSUME IInv, Overruns
  PROVE  StepHolds
<1>1. IInv'
  BY DEF IInv, Overruns
<1> QED
  BY <1>1, SameNodes DEF StepHolds, Overruns

(* A word leads to a node in use, or nowhere. *)
LEMMA ArgumentLive ==
  ASSUME IInv, NEW w \in Words
  PROVE  \A S : Rooted(nodes, S) => resolve_arg(w) \in S \cup {NULL}
<1>1. Full(w) \in Seq(Parts)
  BY FullType DEF IInv
<1> QED
  BY <1>1, ResolveStays DEF resolve_arg, IInv

LEMMA LiveArgument ==
  ASSUME IInv, NEW w \in Words, resolve_arg(w) \in Nodes
  PROVE  resolve_arg(w) \in Live(nodes)
<1>1. PICK S : Rooted(nodes, S)
  BY DEF IInv
<1> QED
  BY <1>1, ArgumentLive, NodeFacts DEF Rooted

LEMMA EntersStep ==
  ASSUME IInv, NEW d, Enters(d), \A S : Rooted(nodes, S) /\ cwd_node \in S => d \in S \cup {NULL}
  PROVE  StepHolds
<1>1. CASE Overruns
  BY <1>1, OverrunStep
<1>2. CASE /\ cwd_node' = d /\ cwd_path' = ramfs_abs_path(nodes, d)
           /\ UNCHANGED <<nodes, fds, overrun>>
  <2>1. d \in Nodes /\ nodes[d].type = "DIR"
    BY DEF Enters
  <2>2. cwd_path' \in Strings
    BY <1>2, <2>1, AbsPathType DEF IInv
  <2>3. \E S : Rooted(nodes, S) /\ d \in S
    BY <2>1, NodeFacts DEF IInv
  <2>4. IInv'
    BY <1>2, <2>1, <2>2, <2>3 DEF IInv
  <2> QED
    BY <1>2, <2>4, SameNodes DEF StepHolds
<1> QED
  BY <1>1, <1>2 DEF Enters

LEMMA CdStep ==
  ASSUME IInv, NEW w \in Words, cmd_cd(w)
  PROVE  StepHolds
<1>1. \A S : Rooted(nodes, S) /\ cwd_node \in S => Above(cwd_node) \in S
  BY DEF Above, Rooted, IInv, Sound
<1> QED
  BY <1>1, EntersStep, ArgumentLive DEF cmd_cd

LEMMA CdRootStep ==
  ASSUME IInv, cd_root
  PROVE  StepHolds
<1>1. IInv'
  <2>1. \A S : Rooted(nodes, S) => Root \in S
    BY DEF Rooted
  <2> QED
    BY <2>1, NodeFacts, NameFacts DEF IInv, Sound, cd_root
<1> QED
  BY <1>1, SameNodes DEF StepHolds, cd_root

----------------------------------------------------------------------------
(* The commands that make a node, and the ones that write to it. *)
LEMMA ChangesStep ==
  ASSUME IInv, NEW t, Keeps(nodes, t), Changes(t)
  PROVE  StepHolds
BY KeepsStep DEF Changes, IInv

LEMMA WritesStep ==
  ASSUME IInv, NEW made, MadeWell(nodes, made), NEW len \in Nat, Writes(made, len)
  PROVE  StepHolds
<1>1. PICK size \in Stored(len) : Changes(ramfs_write(made.table, made.node, size))
  BY DEF Writes
<1>2. size \in Sizes
  BY FilesAssumption DEF Stored, Sizes
<1>3. Sound(made.table)
  BY DEF MadeWell, Keeps
<1>4. Keeps(made.table, ramfs_write(made.table, made.node, size))
  BY <1>2, <1>3, Resized, KeepsSelf DEF ramfs_write
<1>5. Keeps(nodes, ramfs_write(made.table, made.node, size))
  BY <1>4, KeepsOn DEF MadeWell
<1> QED
  BY <1>1, <1>5, ChangesStep

LEMMA CwdLive ==
  ASSUME IInv
  PROVE  cwd_node \in Live(nodes) /\ Root \in Live(nodes) /\ Sound(nodes)
BY NodeFacts DEF IInv, Live, Sound

LEMMA CommandsStep ==
  ASSUME IInv, NEW w \in Words, NEW v \in Words
  PROVE  /\ cmd_touch(w) => StepHolds
         /\ cmd_mkdir(w) => StepHolds
         /\ cmd_cp(w, v) => StepHolds
         /\ \A len \in Sizes : cmd_write(w, len) \/ ed_save(w, len) => StepHolds
<1>1. w \in Strings /\ v \in Strings /\ Kept(w) \in Strings
  BY FilesAssumption, NameFacts
<1>2. /\ MadeWell(nodes, ramfs_create(nodes, cwd_node, w))
      /\ MadeWell(nodes, ramfs_create(nodes, cwd_node, v))
      /\ MadeWell(nodes, ramfs_mkdir(nodes, cwd_node, w))
      /\ MadeWell(nodes, FindOrCreate(nodes, Root, Kept(w)))
  BY <1>1, CwdLive, CreateWell, MkdirWell, FindOrCreateWell
<1>3. cmd_touch(w) => StepHolds
  BY <1>2, ChangesStep DEF cmd_touch, MadeWell
<1>4. cmd_mkdir(w) => StepHolds
  BY <1>2, ChangesStep DEF cmd_mkdir, MadeWell
<1>5. cmd_cp(w, v) => StepHolds
  <2> SUFFICES ASSUME cmd_cp(w, v) PROVE StepHolds
    OBVIOUS
  <2>1. nodes[resolve_arg(w)].size \in Nat
    BY FilesAssumption DEF cmd_cp, IInv, Sound, Table, Node, Sizes
  <2> QED
    BY <2>1, <1>2, WritesStep DEF cmd_cp
<1>6. ASSUME NEW len \in Sizes, cmd_write(w, len) PROVE StepHolds
  <2>1. len \in Nat
    BY FilesAssumption DEF Sizes
  <2>2. CASE resolve_arg(w) \in Nodes
    <3>1. MadeWell(nodes, [node |-> resolve_arg(w), table |-> nodes])
      BY <2>2, LiveArgument, KeepsSelf, CwdLive DEF MadeWell
    <3> QED
      BY <1>6, <2>1, <2>2, <3>1, WritesStep DEF cmd_write
  <2>3. CASE resolve_arg(w) \notin Nodes
    BY <1>2, <1>6, <2>1, <2>3, WritesStep DEF cmd_write
  <2> QED
    BY <2>2, <2>3
<1>7. ASSUME NEW len \in Sizes, ed_save(w, len) PROVE StepHolds
  <2>1. len \in Nat
    BY FilesAssumption DEF Sizes
  <2> QED
    BY <1>2, <1>7, <2>1, WritesStep DEF ed_save
<1> QED
  BY <1>3, <1>4, <1>5, <1>6, <1>7

LEMMA MvStep ==
  ASSUME IInv, NEW w \in Words, NEW v \in Words, cmd_mv(w, v)
  PROVE  StepHolds
<1> DEFINE f == resolve_arg(w)
<1>1. f \in Live(nodes) /\ f \in Nodes /\ Kept(v) \in Strings /\ Sound(nodes)
  BY LiveArgument, FilesAssumption, NameFacts DEF cmd_mv, IInv
<1>2. nodes' = [nodes EXCEPT ![f].name = Kept(v)]
      /\ UNCHANGED <<cwd_node, cwd_path, fds, overrun>>
  BY DEF cmd_mv, Changes
<1> HIDE DEF f
<1>3. /\ nodes' \in Table
      /\ \A m \in Nodes : /\ nodes'[m].type = nodes[m].type
                          /\ nodes'[m].size = nodes[m].size
                          /\ nodes'[m].parent = nodes[m].parent
                          /\ nodes'[m].children = nodes[m].children
      /\ \A m \in Nodes \ {f} : nodes'[m].name = nodes[m].name
  BY <1>1, <1>2 DEF Sound, Table, Node
<1>4. Live(nodes') = Live(nodes) /\ \A d \in Nodes : Listed(nodes', d) = Listed(nodes, d)
  BY <1>3 DEF Live, Listed
<1>5. \A d \in Nodes : Listed(nodes, d) \subseteq Nodes
  BY <1>1 DEF Listed, Sound, ListedByParent, Live
<1>6. Sound(nodes')
  <2>1. ListedByParent(nodes')
    BY <1>1, <1>3, <1>4, <1>5 DEF Sound, ListedByParent, Listed
  <2>2. ListedOnce(nodes')
    BY <1>1, <1>3 DEF Sound, ListedOnce
  <2> QED
    BY <1>1, <1>3, <2>1, <2>2, NodeFacts DEF Sound
<1>7. \A S : Rooted(nodes, S) => Rooted(nodes', S)
  BY <1>3, <1>4 DEF Rooted, Live
<1>8. IInv'
  <2>1. \E S : Rooted(nodes', S) /\ cwd_node' \in S
    BY <1>2, <1>7 DEF IInv
  <2> QED
    BY <1>2, <1>3, <1>6, <2>1 DEF IInv
<1>9. EntriesHold
  BY <1>3, <1>4 DEF EntriesHold
<1>10. TwinsHold
  <2> SUFFICES ASSUME NEW d \in Nodes, NEW mn \in Twins(nodes', d),
                      ~IsRenamed(mn[1]), ~IsRenamed(mn[2])
               PROVE  mn \in Twins(nodes, d)
    BY DEF TwinsHold
  <2>1. /\ mn \in Listed(nodes, d) \X Listed(nodes, d) /\ mn[1] # mn[2]
        /\ nodes'[mn[1]].name = nodes'[mn[2]].name /\ nodes'[mn[1]].name \notin CutNames
        /\ mn[1] \in Nodes /\ mn[2] \in Nodes
    BY <1>4, <1>5 DEF Twins
  <2>2. \A m \in Nodes : ~IsRenamed(m) => nodes'[m].name = nodes[m].name
    BY <1>1, <1>3 DEF IsRenamed, Live
  <2> QED
    BY <2>1, <2>2 DEF Twins
<1> QED
  BY <1>8, <1>9, <1>10 DEF StepHolds
----------------------------------------------------------------------------
(***************************************************************************)
(* rm: the node that goes is not the directory it is in, which has an      *)
(* entry; if it is a directory it has none.                                *)
(***************************************************************************)
LEMMA FreedTable ==
  ASSUME NEW t, Sound(t), NEW d \in Nodes, t[d].type = "DIR", NEW i \in DOMAIN t[d].children,
         Deletable(t, t[d].children[i]), NEW n, NEW u,
         n = t[d].children[i], u = Freed(t, d, i)
  PROVE  /\ n \in Live(t) /\ n # Root /\ n # d /\ n \in Nodes
         /\ u \in Table /\ u[n].type = "FREE"
         /\ Live(u) = Live(t) \ {n}
         /\ \A m \in Nodes \ {n} : /\ u[m].type = t[m].type /\ u[m].name = t[m].name
                                   /\ u[m].size = t[m].size /\ u[m].parent = t[m].parent
         /\ \A m \in Nodes \ {d} : u[m].children = t[m].children
                                   /\ Listed(u, m) = Listed(t, m)
         /\ Listed(u, d) = Listed(t, d) \ {n}
         /\ \A j, k \in DOMAIN u[d].children : u[d].children[j] = u[d].children[k] => j = k
<1> DEFINE c == t[d].children
           last == Len(c)
           rest == WithoutIndex(c, i)
<1>1. /\ t[d] \in Node /\ c \in Seq(Nodes) /\ last \in Nat /\ i \in 1 .. last
      /\ DOMAIN c = 1 .. last
  BY DEF Sound, Table, Node
<1>2. n \in Live(t) /\ n # Root /\ n \in Nodes /\ t[n] \in Node /\ t \in [Nodes -> Node]
  BY <1>1 DEF Sound, ListedByParent, Live, Table
<1>3. n # d
  BY <1>1 DEF Deletable
<1>4. /\ rest \in Seq(Nodes) /\ DOMAIN rest = 1 .. last - 1
      /\ \A j \in 1 .. last - 1 : rest[j] = IF j < i THEN c[j] ELSE c[j + 1]
  <2> DEFINE w == [j \in 1 .. last - 1 |-> IF j < i THEN c[j] ELSE c[j + 1]]
  <2>1. last - 1 \in Nat
    BY <1>1
  <2>2. \A j \in 1 .. last - 1 : w[j] \in Nodes
    BY <1>1
  <2>3. w \in [1 .. last - 1 -> Nodes]
    BY <2>2
  <2>4. w \in Seq(Nodes)
    BY <2>1, <2>3
  <2>5. rest = w
    BY DEF WithoutIndex
  <2> QED
    BY <2>4, <2>5
<1> DEFINE free == [t[n] EXCEPT !.type = "FREE", !.name = <<Empty>>, !.parent = NULL]
           short == [t[d] EXCEPT !.children = rest]
<1>5. free \in Node /\ free.type = "FREE" /\ free.children = t[n].children
  BY <1>2, NameFacts DEF Node
<1>6. /\ short \in Node /\ short.children = rest
      /\ short.type = t[d].type /\ short.parent = t[d].parent /\ short.name = t[d].name
      /\ short.size = t[d].size
  BY <1>1, <1>4 DEF Node
<1>7. u = [t EXCEPT ![n] = free, ![d] = short]
  BY <1>1, <1>2, <1>3 DEF Freed
<1> HIDE DEF free, short, rest
<1>8. u \in [Nodes -> Node] /\ u[n] = free /\ u[d] = short /\ \A m \in Nodes \ {n, d} : u[m] = t[m]
  BY <1>2, <1>3, <1>5, <1>6, <1>7
<1>9. \A j, k \in 1 .. last : c[j] = c[k] => j = k
  BY <1>1 DEF Sound, ListedOnce
<1>10. n = c[i]
  OBVIOUS
<1> HIDE DEF c, last
<1>11. \A j, k \in 1 .. last - 1 : rest[j] = rest[k] => j = k
  <2> SUFFICES ASSUME NEW j \in 1 .. last - 1, NEW k \in 1 .. last - 1, rest[j] = rest[k]
               PROVE  j = k
    OBVIOUS
  <2> QED
    BY <1>1, <1>4, <1>9
<1>12. {rest[j] : j \in 1 .. last - 1} = {c[j] : j \in 1 .. last} \ {n}
  <2>1. ASSUME NEW j \in 1 .. last - 1
        PROVE  \E k \in 1 .. last : rest[j] = c[k] /\ c[k] # n
    <3>1. CASE j < i
      BY <3>1, <1>1, <1>4, <1>9, <1>10
    <3>2. CASE ~(j < i)
      <4>1. j + 1 \in 1 .. last /\ j + 1 # i
        BY <3>2, <1>1
      <4>2. rest[j] = c[j + 1]
        BY <3>2, <1>4
      <4> QED
        BY <4>1, <4>2, <1>1, <1>9, <1>10
    <3> QED
      BY <3>1, <3>2
  <2>2. ASSUME NEW k \in 1 .. last, c[k] # n
        PROVE  \E j \in 1 .. last - 1 : rest[j] = c[k]
    <3>1. k # i
      BY <2>2, <1>10
    <3>2. CASE k < i
      BY <3>2, <1>1, <1>4
    <3>3. CASE k > i
      <4>1. k - 1 \in 1 .. last - 1 /\ ~(k - 1 < i) /\ (k - 1) + 1 = k
        BY <3>3, <1>1
      <4> QED
        BY <4>1, <1>4
    <3> QED
      BY <3>1, <3>2, <3>3, <1>1
  <2> QED
    BY <2>1, <2>2
<1>13. Listed(u, d) = Listed(t, d) \ {n}
  <2>1. Listed(u, d) = {rest[j] : j \in 1 .. last - 1}
    BY <1>4, <1>6, <1>8 DEF Listed
  <2>2. Listed(t, d) = {c[j] : j \in 1 .. last}
    BY <1>1 DEF Listed, c
  <2> QED
    BY <2>1, <2>2, <1>12
<1>14. \A m \in Nodes \ {d} : u[m].children = t[m].children /\ Listed(u, m) = Listed(t, m)
  BY <1>5, <1>8 DEF Listed
<1>15. Live(u) = Live(t) \ {n}
  BY <1>2, <1>5, <1>6, <1>8 DEF Live
<1>16. \A m \in Nodes \ {n} : /\ u[m].type = t[m].type /\ u[m].name = t[m].name
                             /\ u[m].size = t[m].size /\ u[m].parent = t[m].parent
  BY <1>6, <1>8
<1>17. \A j, k \in DOMAIN u[d].children : u[d].children[j] = u[d].children[k] => j = k
  BY <1>4, <1>6, <1>8, <1>11
<1> QED
  BY <1>2, <1>3, <1>5, <1>8, <1>13, <1>14, <1>15, <1>16, <1>17 DEF Table

LEMMA RmStep ==
  ASSUME IInv, NEW w \in Words, cmd_rm(w)
  PROVE  StepHolds
<1> DEFINE i == Smallest(Child(nodes, cwd_node, w))
           n == nodes[cwd_node].children[i]
<1>1. /\ i \in DOMAIN nodes[cwd_node].children /\ Deletable(nodes, n)
      /\ Changes(Freed(nodes, cwd_node, i))
  <2>1. nodes[cwd_node].children \in Seq(Nodes)
    BY DEF IInv, Sound, Table, Node
  <2>2. /\ Child(nodes, cwd_node, w) \subseteq Nat
        /\ Child(nodes, cwd_node, w) \subseteq DOMAIN nodes[cwd_node].children
    BY <2>1 DEF Child
  <2>3. i \in Child(nodes, cwd_node, w)
    BY <2>2, SmallestIsIn DEF cmd_rm
  <2> QED
    BY <2>2, <2>3 DEF cmd_rm
<1>2. nodes' = Freed(nodes, cwd_node, i) /\ UNCHANGED <<cwd_node, cwd_path, fds, overrun>>
  BY <1>1 DEF Changes
<1>3. Sound(nodes) /\ cwd_node \in Nodes /\ nodes[cwd_node].type = "DIR"
  BY DEF IInv
<1>4. /\ n \in Live(nodes) /\ n # Root /\ n # cwd_node /\ n \in Nodes
      /\ nodes' \in Table /\ nodes'[n].type = "FREE"
      /\ Live(nodes') = Live(nodes) \ {n}
      /\ \A m \in Nodes \ {n} :
           /\ nodes'[m].type = nodes[m].type /\ nodes'[m].name = nodes[m].name
           /\ nodes'[m].size = nodes[m].size /\ nodes'[m].parent = nodes[m].parent
      /\ \A m \in Nodes \ {cwd_node} : nodes'[m].children = nodes[m].children
                                       /\ Listed(nodes', m) = Listed(nodes, m)
      /\ Listed(nodes', cwd_node) = Listed(nodes, cwd_node) \ {n}
      /\ \A j, k \in DOMAIN nodes'[cwd_node].children :
           nodes'[cwd_node].children[j] = nodes'[cwd_node].children[k] => j = k
  BY <1>1, <1>2, <1>3, FreedTable
<1>5. nodes[n].parent = cwd_node /\ (nodes[n].type = "DIR" => Listed(nodes, n) = {})
  BY <1>1, <1>3 DEF Sound, ListedByParent, Deletable, Listed
<1> HIDE DEF n, i
<1>6. \A d \in Nodes : /\ Listed(nodes, d) \subseteq Live(nodes) \ {Root}
                       /\ Listed(nodes, d) \subseteq Nodes
                       /\ \A m \in Listed(nodes, d) : nodes[m].parent = d
  BY <1>3 DEF Sound, ListedByParent, Listed, Live
<1>7. \A d \in Nodes : n \notin Listed(nodes', d) /\ Listed(nodes', d) \subseteq Listed(nodes, d)
  BY <1>4, <1>5, <1>6
<1>8. Sound(nodes')
  <2>1. ListedByParent(nodes')
    <3> SUFFICES ASSUME NEW d \in Nodes, NEW m \in Listed(nodes', d)
                 PROVE  m \in Live(nodes') \ {Root} /\ nodes'[m].parent = d
      BY DEF ListedByParent, Listed
    <3>1. m \in Listed(nodes, d) /\ m # n
      BY <1>7
    <3> QED
      BY <3>1, <1>4, <1>6
  <2>2. ListedOnce(nodes')
    BY <1>3, <1>4 DEF Sound, ListedOnce
  <2> QED
    BY <2>1, <2>2, <1>3, <1>4, NodeFacts DEF Sound
<1>9. ASSUME NEW S, Rooted(nodes, S), cwd_node \in S
      PROVE  Rooted(nodes', S \ {n})
  <2>1. S \ {n} \subseteq Live(nodes') /\ Root \in S \ {n} /\ S \subseteq Nodes
    BY <1>4, <1>9 DEF Rooted, Live
  <2>2. \A d \in S \ {n} : nodes'[d].type = "DIR" => Listed(nodes', d) \subseteq S \ {n}
    BY <2>1, <1>4, <1>7, <1>9 DEF Rooted
  <2>3. ASSUME NEW m \in S \ {n, Root}
        PROVE  /\ nodes'[m].parent \in S \ {n} /\ nodes'[nodes'[m].parent].type = "DIR"
               /\ m \in Listed(nodes', nodes'[m].parent)
    <3>1. /\ nodes[m].parent \in S /\ nodes[nodes[m].parent].type = "DIR"
          /\ m \in Listed(nodes, nodes[m].parent)
      BY <1>9 DEF Rooted
    <3>2. nodes[m].parent # n
      BY <3>1, <1>5
    <3> QED
      BY <3>1, <3>2, <2>1, <1>4
  <2> QED
    BY <2>1, <2>2, <2>3, Zenon DEF Rooted
<1>10. IInv'
  <2>0. PICK S : Rooted(nodes, S) /\ cwd_node \in S
    BY DEF IInv
  <2>1. Rooted(nodes', S \ {n}) /\ cwd_node' \in S \ {n}
    BY <2>0, <1>2, <1>4, <1>9
  <2> QED
    BY <2>1, <1>2, <1>4, <1>8 DEF IInv
<1>11. EntriesHold
  <2> SUFFICES ASSUME NEW d \in Nodes, nodes[d].type = "DIR",
                      NEW m \in Listed(nodes, d), nodes'[m].type # "FREE"
               PROVE  nodes'[d].type = "DIR" /\ m \in Listed(nodes', d)
    BY DEF EntriesHold
  <2>1. m # n /\ d # n
    BY <1>4, <1>5
  <2> QED
    BY <2>1, <1>4
<1>12. TwinsHold
  <2> SUFFICES ASSUME NEW d \in Nodes, nodes'[d].type = "DIR", NEW mn \in Twins(nodes', d)
               PROVE  mn \in Twins(nodes, d)
    BY DEF TwinsHold
  <2>1. /\ mn \in Listed(nodes', d) \X Listed(nodes', d) /\ mn[1] # mn[2]
        /\ nodes'[mn[1]].name = nodes'[mn[2]].name /\ nodes'[mn[1]].name \notin CutNames
    BY DEF Twins
  <2>2. /\ mn \in Listed(nodes, d) \X Listed(nodes, d)
        /\ mn[1] \in Nodes \ {n} /\ mn[2] \in Nodes \ {n}
    BY <2>1, <1>6, <1>7
  <2>3. nodes'[mn[1]].name = nodes[mn[1]].name /\ nodes'[mn[2]].name = nodes[mn[2]].name
    BY <2>2, <1>4
  <2> QED
    BY <2>1, <2>2, <2>3 DEF Twins
<1> QED
  BY <1>10, <1>11, <1>12 DEF StepHolds
----------------------------------------------------------------------------
(***************************************************************************)
(* The installer.  Each directory it passes or makes is in use in the      *)
(* table it has made so far, which keeps all that was there.               *)
(***************************************************************************)
Places == {at \in [node : Nodes, table : Table] :
             Keeps(nodes, at.table) /\ at.node \in Live(at.table)}

LEMMA MadePlace ==
  ASSUME NEW at \in Places, NEW c \in Parts
  PROVE  Made(at, c) \in Places
<1>1. /\ Sound(at.table) /\ at.node \in Live(at.table) /\ at.node \in Nodes
      /\ at.table \in Table /\ Keeps(nodes, at.table) /\ <<c>> \in Strings
      /\ at \in [node : Nodes, table : Table]
  BY NameFacts DEF Places, Keeps
<1>2. CASE ramfs_find(at.table, at.node, <<c>>) \in Nodes
  <2>1. ramfs_find(at.table, at.node, <<c>>) \in Live(at.table)
    BY <1>1, <1>2, FindFacts, NodeFacts
  <2> QED
    BY <2>1, <1>1, <1>2 DEF Made, Places
<1>3. CASE ramfs_find(at.table, at.node, <<c>>) \notin Nodes
  <2> DEFINE made == ramfs_mkdir(at.table, at.node, <<c>>)
  <2>1. MadeWell(at.table, made)
    BY <1>1, MkdirWell
  <2>2. made \in [node : Nodes \cup {NULL}, table : Table]
    <3>1. made.table \in Table /\ made.node \in Nodes \cup {NULL}
      BY <2>1 DEF MadeWell, Keeps, Sound, Live
    <3>2. \E n, t : made = [node |-> n, table |-> t]
      BY DEF ramfs_mkdir, Fresh, Failed
    <3> HIDE DEF made
    <3> QED
      BY <3>1, <3>2
  <2>3. Keeps(nodes, made.table)
    BY <2>1, <1>1, KeepsOn DEF MadeWell
  <2>4. made.node \in Nodes => made.node \in Live(made.table)
    BY <2>1, NodeFacts DEF MadeWell
  <2>5. Made(at, c) = IF made.node \in Nodes THEN made ELSE at
    BY <1>3 DEF Made
  <2> HIDE DEF made
  <2>6. made.node \in Nodes => made \in Places
    BY <2>2, <2>3, <2>4 DEF Places
  <2> QED
    BY <2>5, <2>6
<1> QED
  BY <1>2, <1>3

LEMMA DirectoriesPlace ==
  ASSUME IInv, NEW path \in Seq(Parts)
  PROVE  spk_directories(path) \in Places
<1> DEFINE n == Len(path)
           b == [node |-> Root, table |-> nodes]
           Go(a, c) == IF c = Empty THEN a ELSE Made(a, c)
           step == [i \in 1 .. n |-> [a \in Places |-> Go(a, path[i])]]
           F(f) == [i \in 0 .. n |-> IF i = 0 THEN [node |-> Root, table |-> nodes]
                                     ELSE IF path[i] = Empty THEN f[i - 1]
                                     ELSE Made(f[i - 1], path[i])]
           at == CHOOSE f : f = F(f)
<1>1. n \in Nat /\ \A i \in 1 .. n : path[i] \in Parts
  OBVIOUS
<1>2. b \in Places
  BY CwdLive, KeepsSelf, NodeFacts DEF Places, Sound
<1>3. step \in [1 .. n -> [Places -> Places]]
  BY <1>1, MadePlace, Zenon
<1>4. spk_directories(path) = at[n]
  BY Zenon DEF spk_directories
<1> HIDE DEF n, step
<1>5. PICK f : Built(f, n, Places, b, step)
  BY <1>1, <1>2, <1>3, Recursion, Zenon
<1> USE DEF step
<1>6. f \in [0 .. n -> Places] /\ f[0] = b /\ \A i \in 1 .. n : f[i] = step[i][f[i - 1]]
  BY <1>5, Zenon DEF Built
<1>7. \A i \in 1 .. n : i - 1 \in 0 .. n /\ i # 0 /\ i \in 0 .. n
  BY <1>1, SMT
<1>8. \A i \in 1 .. n : f[i] = Go(f[i - 1], path[i])
  BY <1>6, <1>7, Zenon
<1>9. \A i \in 0 .. n : i = 0 \/ i \in 1 .. n
  BY <1>1, SMT
<1>10. \A i \in 0 .. n : f[i] = IF i = 0 THEN b ELSE Go(f[i - 1], path[i])
  BY <1>6, <1>8, <1>9, Zenon
<1>11. f = F(f)
  BY <1>6, <1>10, Zenon
<1>12. at = F(at)
  BY <1>11, Zenon
<1> HIDE DEF at
<1>13. 0 \in 0 .. n /\ n \in 0 .. n
  BY <1>1, SMT
<1>14. at[0] = b /\ \A i \in 1 .. n : at[i] = Go(at[i - 1], path[i])
  BY <1>7, <1>12, <1>13, Zenon
<1> DEFINE S == {i \in 0 .. n : at[i] \in Places}
<1>15. 0 \in S
  BY <1>2, <1>13, <1>14, Zenon
<1>16. ASSUME NEW i \in 1 .. n, i - 1 \in S PROVE i \in S
  BY <1>1, <1>7, <1>14, <1>16, MadePlace, Zenon
<1>17. \A i \in 0 .. n : i \in S
  <2> HIDE DEF S
  <2> QED
    BY <1>1, <1>15, <1>16, Counting, Zenon
<1>18. at[n] \in Places
  BY <1>13, <1>17, Zenon
<1> QED
  BY <1>4, <1>18

LEMMA InstallStep ==
  ASSUME IInv, NEW path \in Words, NEW len \in Nat, spk_install(path, len)
  PROVE  StepHolds
<1> DEFINE d    == ramfs_resolve(nodes, Dirname(path))
           at   == IF d \in Nodes THEN [node |-> d, table |-> nodes]
                   ELSE spk_directories(Dirname(path))
           made == FindOrCreate(at.table, at.node, <<Basename(path)>>)
<1>1. Dirname(path) \in Seq(Parts) /\ <<Basename(path)>> \in Strings
  BY FilesAssumption, DirnameType
<1>2. CASE Overruns
  BY <1>2, OverrunStep
<1>3. CASE \/ made.node \notin Nodes /\ Changes(at.table)
           \/ Writes(made, len)
  <2>1. d \in Nodes => d \in Live(nodes)
    <3>1. PICK S : Rooted(nodes, S)
      BY DEF IInv
    <3> QED
      BY <3>1, <1>1, ResolveStays, NodeFacts DEF IInv, Rooted
  <2>2. Keeps(nodes, at.table) /\ at.node \in Live(at.table)
    <3>1. CASE d \in Nodes
      BY <2>1, <3>1, KeepsSelf, CwdLive
    <3>2. CASE d \notin Nodes
      <4>1. spk_directories(Dirname(path)) \in Places
        BY <1>1, DirectoriesPlace
      <4> QED
        BY <4>1, <3>2 DEF Places
    <3> QED
      BY <3>1, <3>2
  <2> HIDE DEF at
  <2>3. Sound(at.table)
    BY <2>2 DEF Keeps
  <2>4. MadeWell(at.table, made)
    BY <1>1, <2>2, <2>3, FindOrCreateWell
  <2>5. MadeWell(nodes, made)
    BY <2>2, <2>4, KeepsOn DEF MadeWell
  <2> HIDE DEF made
  <2> QED
    BY <1>3, <2>2, <2>5, ChangesStep, WritesStep
<1> QED
  BY <1>2, <1>3 DEF spk_install
----------------------------------------------------------------------------
(***************************************************************************)
(* The calls on descriptors, and what LeftBehind says of a step.           *)
(***************************************************************************)
StaysWithin(fd) ==
  IsOpen(fd)' /\ (IsOpen(fd) => Within(fd)) => Within(fd)' \/ Shortened(fds'[fd].node)

LeftHold == \A fd \in Fds : StaysWithin(fd)

(* A file that is not shortened keeps the descriptors that do not move. *)
LEMMA Unmoved ==
  ASSUME IInv, IInv', NEW fd \in Fds, fds'[fd] = fds[fd]
  PROVE  StaysWithin(fd)
<1> SUFFICES ASSUME IsOpen(fd), Within(fd), ~Shortened(fds[fd].node)
             PROVE  Within(fd)'
  BY DEF StaysWithin, IsOpen
<1> DEFINE n == fds[fd].node
<1>1. n \in Nodes /\ nodes'[n].type # "FREE" /\ ~(nodes'[n].size < nodes[n].size)
  BY DEF IsOpen, Shortened
<1>2. nodes'[n].size \in Int /\ nodes[n].size \in Int /\ fds[fd].offset \in Int
  BY <1>1, FilesAssumption DEF IInv, Sound, Table, Node, Sizes, Descriptors
<1>3. fds[fd].offset <= nodes'[n].size
  BY <1>1, <1>2 DEF Within
<1> QED
  BY <1>1, <1>3 DEF Within, Live

LEMMA OpenedFacts ==
  ASSUME IInv, NEW path \in Words, NEW flags
  PROVE  /\ MadeWell(nodes, Opened(path, flags))
         /\ Opened(path, flags).node \in Nodes =>
              \/ Opened(path, flags).table = nodes
              \/ Opened(path, flags).table[Opened(path, flags).node].size = 0
<1> DEFINE found == ramfs_resolve(nodes, path)
           d     == ramfs_resolve(nodes, Dirname(path))
           dir   == IF d \in Nodes THEN d ELSE Root
           nm    == <<Basename(path)>>
<1>1. /\ path \in Seq(Parts) /\ Dirname(path) \in Seq(Parts) /\ nm \in Strings
  BY FilesAssumption, DirnameType DEF Strings
<1>2. PICK S : Rooted(nodes, S)
  BY DEF IInv
<1>3. found \in Live(nodes) \cup {NULL} /\ dir \in Live(nodes)
  BY <1>1, <1>2, ResolveStays, CwdLive, NodeFacts DEF Rooted
<1>4. MadeWell(nodes, ramfs_create(nodes, dir, nm))
  BY <1>1, <1>3, CwdLive, CreateWell
<1>5. MadeWell(nodes, [node |-> found, table |-> nodes])
  BY <1>3, CwdLive, KeepsSelf DEF MadeWell
<1>6. /\ ramfs_create(nodes, dir, nm).node \in Nodes =>
           \/ ramfs_create(nodes, dir, nm).table = nodes
           \/ ramfs_create(nodes, dir, nm).table[ramfs_create(nodes, dir, nm).node].size = 0
  <2>1. CASE HasRoom(nodes, dir) /\ ramfs_find(nodes, dir, nm) \in Nodes
    BY <2>1 DEF ramfs_create
  <2>2. CASE /\ ~(HasRoom(nodes, dir) /\ ramfs_find(nodes, dir, nm) \in Nodes)
             /\ HasRoom(nodes, dir) /\ FreeNodes(nodes) # {}
    <3> DEFINE n == Smallest(FreeNodes(nodes))
    <3>1. Added(nodes, dir, Kept(nm), "FILE")[n].size = 0
      BY <1>1, <1>3, <2>2, CwdLive, NameFacts, AddedTable
    <3>2. ramfs_create(nodes, dir, nm) =
            [node |-> n, table |-> Added(nodes, dir, Kept(nm), "FILE")]
      BY <2>2 DEF ramfs_create, Fresh
    <3> QED
      BY <3>1, <3>2
  <2>3. CASE /\ ~(HasRoom(nodes, dir) /\ ramfs_find(nodes, dir, nm) \in Nodes)
             /\ ~(HasRoom(nodes, dir) /\ FreeNodes(nodes) # {})
    BY <2>3 DEF ramfs_create, Failed
  <2> QED
    BY <2>1, <2>2, <2>3
<1>7. Opened(path, flags) = IF found \in Nodes \/ "O_CREAT" \notin flags
                            THEN [node |-> found, table |-> nodes]
                            ELSE ramfs_create(nodes, dir, nm)
  BY DEF Opened
<1> HIDE DEF found, dir, nm
<1> QED
  BY <1>4, <1>5, <1>6, <1>7

LEMMA FreeFd ==
  ASSUME FreeFds # {}
  PROVE  Smallest(FreeFds) \in Fds
<1>1. FreeFds \subseteq Nat
  BY FilesAssumption DEF FreeFds
<1> QED
  BY <1>1, SmallestIsIn DEF FreeFds

LEMMA OpenStep ==
  ASSUME IInv, NEW path \in Words, NEW flags, sys_open(path, flags)
  PROVE  StepHolds /\ LeftHold
<1>1. CASE OpenTooLong(path, flags)
  <2>1. Overruns
    BY <1>1 DEF sys_open
  <2>2. StepHolds /\ fds' = fds
    BY <2>1, OverrunStep DEF Overruns
  <2> QED
    BY <2>2, Unmoved DEF LeftHold, StepHolds
<1>2. CASE ~OpenTooLong(path, flags)
  <2> DEFINE made == Opened(path, flags)
             n    == made.node
             g    == Smallest(FreeFds)
             off  == IF "O_APPEND" \in flags THEN made.table[n].size ELSE 0
             new  == [used |-> TRUE, node |-> n, offset |-> off]
  <2>1. /\ MadeWell(nodes, made) /\ n \in Nodes
        /\ made.table = nodes \/ made.table[n].size = 0
    BY <1>2, OpenedFacts DEF sys_open
  <2>2. /\ FreeFds # {} /\ fds' = [fds EXCEPT ![g] = new]
        /\ nodes' = IF "O_TRUNC" \in flags THEN [made.table EXCEPT ![n].size = 0]
                    ELSE made.table
        /\ UNCHANGED <<cwd_node, cwd_path, overrun>>
    BY <1>2 DEF sys_open
  <2> HIDE DEF made
  <2>3. n \in Live(made.table) /\ Sound(made.table) /\ Keeps(nodes, made.table)
    BY <2>1, NodeFacts DEF MadeWell, Keeps
  <2>4. made.table[n].size \in Sizes /\ 0 \in Sizes /\ Sizes \subseteq 0 .. Word - 1
    BY <2>1, <2>3, FilesAssumption DEF Sound, Table, Node, Sizes
  <2>5. Keeps(made.table, nodes')
    BY <2>1, <2>2, <2>3, <2>4, Resized, KeepsSelf
  <2>6. g \in Fds
    BY <2>2, FreeFd
  <2>7. fds' \in Descriptors
    <3>1. off \in 0 .. Word - 1
      BY <2>4
    <3> HIDE DEF off
    <3>2. new \in [used : BOOLEAN, offset : 0 .. Word - 1, node : Nodes \cup {NULL}]
      BY <2>1, <3>1
    <3> HIDE DEF new, g
    <3> QED
      BY <2>2, <2>6, <3>2 DEF Descriptors, IInv
  <2>8. StepHolds
    <3>1. Keeps(nodes, nodes')
      BY <2>3, <2>5, KeepsOn
    <3>2. overrun' \in BOOLEAN
      BY <2>2 DEF IInv
    <3> QED
      BY <3>1, <3>2, <2>2, <2>7, KeepsStep
  <2>9. ASSUME NEW fd \in Fds, fd = g PROVE StaysWithin(fd)
    <3>1. fds'[fd].node = n /\ fds'[fd].offset = off
      <4>1. fds'[fd] = new
        BY <2>2, <2>6, <2>9 DEF IInv, Descriptors
      <4> QED
        BY <4>1
    <3>2. n \in Live(nodes')
      BY <2>3, <2>5 DEF Keeps, NodesKept
    <3>3. CASE "O_TRUNC" \notin flags
      <4>1. nodes'[n].size = made.table[n].size /\ off <= made.table[n].size
        BY <2>2, <2>4, <3>3 DEF Sizes
      <4> HIDE DEF n, off
      <4> QED
        BY <3>1, <3>2, <4>1 DEF StaysWithin, Within
    <3>4. CASE "O_TRUNC" \in flags
      <4>1. nodes'[n].size = 0
        BY <2>1, <2>2, <2>3, <3>4 DEF Sound, Table, Node
      <4>2. CASE off = 0
        <5> HIDE DEF n, off
        <5> QED
          BY <3>1, <3>2, <4>1, <4>2 DEF StaysWithin, Within
      <4>3. CASE off # 0
        <5>1. made.table = nodes /\ 0 < nodes[n].size
          BY <2>1, <2>4, <4>3, FilesAssumption DEF Sizes
        <5> HIDE DEF n
        <5> QED
          BY <3>1, <4>1, <5>1 DEF StaysWithin, Shortened
      <4> QED
        BY <4>2, <4>3
    <3> QED
      BY <3>3, <3>4
  <2>10. \A fd \in Fds : fd # g => fds'[fd] = fds[fd]
    BY <2>2, <2>6 DEF IInv, Descriptors
  <2> HIDE DEF g
  <2>11. LeftHold
    BY <2>8, <2>9, <2>10, Unmoved DEF LeftHold, StepHolds
  <2> QED
    BY <2>8, <2>11
<1> QED
  BY <1>1, <1>2

(* Unsigned arithmetic. *)
LEMMA Wraps ==
  /\ \A a \in Int : a % Word \in 0 .. Word - 1
  /\ \A a \in 0 .. Word - 1 : a % Word = a
<1>1. \A w \in Nat \ {0} : \A a \in Int : a % w \in 0 .. w - 1
  OBVIOUS
<1>2. \A w \in Nat \ {0} : \A a \in 0 .. w - 1 : a % w = a
  OBVIOUS
<1>3. Word \in Nat \ {0}
  BY FilesAssumption
<1> QED
  BY <1>1, <1>2, <1>3
LEMMA NoWrap ==
  ASSUME NEW end \in Sizes, NEW offset \in Nat, offset <= end, NEW count \in Nat
  PROVE  /\ (offset + Smaller(count, Upto(end, offset))) % Word \in Nat
         /\ (offset + Smaller(count, Upto(end, offset))) % Word <= end
<1>1. Word \in Nat /\ DataMax \in Nat /\ DataMax < Word /\ end \in Nat /\ end <= DataMax
  BY FilesAssumption DEF Sizes
<1>2. end - offset \in 0 .. Word - 1
  BY <1>1
<1>3. Upto(end, offset) = end - offset
  BY <1>2, Wraps DEF Upto
<1>4. /\ offset + Smaller(count, end - offset) \in 0 .. Word - 1
      /\ offset + Smaller(count, end - offset) <= end
  BY <1>1 DEF Smaller
<1>5. (offset + Smaller(count, end - offset)) % Word = offset + Smaller(count, end - offset)
  BY <1>4, Wraps
<1> QED
  BY <1>1, <1>3, <1>4, <1>5

LEMMA CloseStep ==
  ASSUME IInv, NEW fd \in Fds, sys_close(fd)
  PROVE  StepHolds /\ LeftHold
<1>1. Closed \in [used : BOOLEAN, offset : 0 .. Word - 1, node : Nodes \cup {NULL}]
  BY FilesAssumption DEF Closed
<1>2. fds' = [fds EXCEPT ![fd] = Closed] /\ UNCHANGED <<nodes, cwd_node, cwd_path, overrun>>
  BY DEF sys_close
<1>3. fds' \in Descriptors /\ fds'[fd] = Closed /\ \A g \in Fds \ {fd} : fds'[g] = fds[g]
  BY <1>1, <1>2 DEF IInv, Descriptors
<1>4. StepHolds
  <2>1. Keeps(nodes, nodes') /\ overrun' \in BOOLEAN
    BY <1>2, KeepsSelf DEF IInv
  <2> QED
    BY <2>1, <1>2, <1>3, KeepsStep
<1>5. ~IsOpen(fd)'
  BY <1>3 DEF IsOpen, Closed
<1> QED
  BY <1>3, <1>4, <1>5, Unmoved DEF LeftHold, StepHolds, StaysWithin

LEMMA ReadStep ==
  ASSUME IInv, NEW fd \in Fds, NEW count \in Nat, sys_read(fd, count)
  PROVE  StepHolds /\ LeftHold
<1> DEFINE f   == fds[fd].node
           off == fds[fd].offset
           size == nodes[f].size
           new == (off + Smaller(count, Upto(size, off))) % Word
<1>1. /\ f \in Nodes /\ fds' = [fds EXCEPT ![fd].offset = new]
      /\ UNCHANGED <<nodes, cwd_node, cwd_path, overrun>>
  BY DEF sys_read, IsOpen, Advanced
<1>2. off \in Nat /\ size \in Sizes /\ size \in Nat
  <2>1. fds[fd] \in [used : BOOLEAN, offset : 0 .. Word - 1, node : Nodes \cup {NULL}]
    BY DEF IInv, Descriptors
  <2>2. off \in 0 .. Word - 1 /\ Word \in Nat
    BY <2>1, FilesAssumption
  <2>3. size \in Sizes
    BY <1>1 DEF IInv, Sound, Table, Node
  <2> QED
    BY <2>2, <2>3, FilesAssumption DEF Sizes
<1>3. new \in 0 .. Word - 1
  <2>1. Smaller(count, Upto(size, off)) \in Int
    BY <1>2, Wraps DEF Smaller, Upto
  <2> QED
    BY <1>2, <2>1, Wraps
<1>4. off <= size => new <= size
  BY <1>2, NoWrap
<1> HIDE DEF new
<1>5. /\ fds' \in Descriptors /\ fds'[fd].offset = new /\ fds'[fd].node = f
      /\ fds'[fd].used = fds[fd].used
      /\ \A g \in Fds \ {fd} : fds'[g] = fds[g]
  BY <1>1, <1>3 DEF IInv, Descriptors
<1>6. StepHolds
  <2>1. Keeps(nodes, nodes') /\ overrun' \in BOOLEAN
    BY <1>1, KeepsSelf DEF IInv
  <2> QED
    BY <2>1, <1>1, <1>5, KeepsStep
<1>7. StaysWithin(fd)
  <2>1. IsOpen(fd)' => IsOpen(fd)
    BY <1>5 DEF IsOpen
  <2>2. Within(fd) => Within(fd)'
    BY <1>1, <1>4, <1>5 DEF Within
  <2> QED
    BY <2>1, <2>2 DEF StaysWithin
<1> QED
  BY <1>5, <1>6, <1>7, Unmoved DEF LeftHold, StepHolds

LEMMA WriteStep ==
  ASSUME IInv, NEW fd \in Fds, NEW count \in Nat, sys_write(fd, count)
  PROVE  StepHolds /\ LeftHold
<1>1. CASE fds[fd].offset > DataMax
  <2>1. Overruns
    BY <1>1 DEF sys_write
  <2>2. StepHolds /\ fds' = fds
    BY <2>1, OverrunStep DEF Overruns
  <2> QED
    BY <2>2, Unmoved DEF LeftHold, StepHolds
<1>2. CASE ~(fds[fd].offset > DataMax)
  <2> DEFINE f    == fds[fd].node
             off  == fds[fd].offset
             size == nodes[f].size
             new  == (off + Smaller(count, Upto(DataMax, off))) % Word
             most == IF new > size THEN new ELSE size
  <2>1. /\ f \in Nodes /\ fds' = [fds EXCEPT ![fd].offset = new]
        /\ nodes' = [nodes EXCEPT ![f].size = most]
        /\ UNCHANGED <<cwd_node, cwd_path, overrun>>
    BY <1>2 DEF sys_write, IsOpen, Advanced
  <2>2. /\ off \in Nat /\ size \in Sizes /\ size \in Nat /\ DataMax \in Sizes /\ DataMax \in Nat
        /\ off <= DataMax /\ Sizes \subseteq 0 .. Word - 1
    <3>1. fds[fd] \in [used : BOOLEAN, offset : 0 .. Word - 1, node : Nodes \cup {NULL}]
      BY DEF IInv, Descriptors
    <3>2. off \in 0 .. Word - 1 /\ Word \in Nat /\ DataMax \in Nat /\ DataMax < Word
      BY <3>1, FilesAssumption
    <3>3. size \in Sizes
      BY <2>1 DEF IInv, Sound, Table, Node
    <3> QED
      BY <1>2, <3>2, <3>3 DEF Sizes
  <2>3. new \in Nat /\ new <= DataMax
    BY <2>2, NoWrap
  <2> HIDE DEF new
  <2>4. new \in Sizes /\ most \in Sizes /\ most \in Nat /\ new <= most /\ size <= most
    BY <2>2, <2>3 DEF Sizes
  <2> HIDE DEF most
  <2>5. /\ fds' \in Descriptors /\ fds'[fd].offset = new /\ fds'[fd].node = f
        /\ fds'[fd].used = fds[fd].used
        /\ \A g \in Fds \ {fd} : fds'[g] = fds[g]
    BY <2>1, <2>2, <2>4 DEF IInv, Descriptors
  <2>6. Keeps(nodes, nodes') /\ Live(nodes') = Live(nodes) /\ nodes'[f].size = most
    BY <2>1, <2>4, Resized DEF IInv, Sound, Table, Node
  <2>7. StepHolds
    <3>1. overrun' \in BOOLEAN
      BY <2>1 DEF IInv
    <3> QED
      BY <3>1, <2>1, <2>5, <2>6, KeepsStep
  <2>8. StaysWithin(fd)
    <3>1. IsOpen(fd)' => IsOpen(fd)
      BY <2>5 DEF IsOpen
    <3>2. Within(fd) => Within(fd)'
      BY <2>4, <2>5, <2>6 DEF Within
    <3> QED
      BY <3>1, <3>2 DEF StaysWithin
  <2> QED
    BY <2>5, <2>7, <2>8, Unmoved DEF LeftHold, StepHolds
<1> QED
  BY <1>1, <1>2

----------------------------------------------------------------------------
(* The two tables a session may start with. *)
WithUser == Added(WithHome, 1, <<User>>, "DIR")

LEMMA InitGood == Init => IInv
<1>1. RootOnly \in Table
  <2>1. 0 \in Sizes
    BY FilesAssumption DEF Sizes
  <2>2. Unused \in Node
    BY <2>1, NameFacts DEF Unused, Node
  <2>3. [Unused EXCEPT !.type = "DIR", !.parent = Root, !.name = <<Empty, Empty>>] \in Node
    BY <2>2, NodeFacts, NameFacts DEF Node
  <2> QED
    BY <2>2, <2>3 DEF RootOnly, Table
<1>2. /\ RootOnly[Root].type = "DIR" /\ RootOnly[Root].parent = Root
      /\ \A n \in Nodes : RootOnly[n].children = <<>>
      /\ \A n \in Nodes \ {Root} : RootOnly[n].type = "FREE"
  BY NodeFacts DEF RootOnly, Unused
<1>3. Live(RootOnly) = {Root} /\ \A n \in Nodes : Listed(RootOnly, n) = {}
  <2>1. DOMAIN <<>> = {}
    OBVIOUS
  <2>2. \A n \in Nodes : Listed(RootOnly, n) = {}
    BY <1>2, <2>1 DEF Listed
  <2>3. Live(RootOnly) = {Root}
    BY <1>2, NodeFacts DEF Live
  <2> QED
    BY <2>2, <2>3
<1>4. Sound(RootOnly)
  BY <1>1, <1>2, NodeFacts DEF Sound, ListedByParent, ListedOnce
<1>5. Rooted(RootOnly, {Root})
  BY <1>3, NodeFacts DEF Rooted
<1>6. FreeNodes(RootOnly) = Nodes \ {Root} /\ Smallest(FreeNodes(RootOnly)) = 1
  <2>1. FreeNodes(RootOnly) = Nodes \ {Root}
    BY <1>2, NodeFacts DEF FreeNodes
  <2>2. FreeNodes(RootOnly) \in SUBSET Nat /\ 1 \in FreeNodes(RootOnly)
        /\ 0 \notin FreeNodes(RootOnly)
    BY <2>1, NodeFacts DEF Root
  <2>3. Smallest(FreeNodes(RootOnly)) \in FreeNodes(RootOnly)
        /\ Smallest(FreeNodes(RootOnly)) <= 1
    BY <2>2, SmallestIsIn
  <2>4. Smallest(FreeNodes(RootOnly)) \in Nat /\ Smallest(FreeNodes(RootOnly)) # 0
    BY <2>2, <2>3
  <2> QED
    BY <2>1, <2>3, <2>4
<1>7. <<Home>> \in Strings /\ <<User>> \in Strings
  BY NameFacts
<1>8. /\ Keeps(RootOnly, WithHome) /\ Listed(WithHome, Root) = {1}
      /\ WithHome[1].type = "DIR" /\ Listed(WithHome, 1) = {}
      /\ Live(WithHome) = {Root, 1}
  <2>1. Keeps(RootOnly, WithHome)
    BY <1>3, <1>4, <1>6, <1>7, NodeFacts, AddedKeeps DEF WithHome
  <2>2. /\ Listed(WithHome, Root) = Listed(RootOnly, Root) \cup {1}
        /\ WithHome[1].type = "DIR" /\ Listed(WithHome, 1) = {}
        /\ Live(WithHome) = Live(RootOnly) \cup {1}
    <3>1. FreeNodes(RootOnly) # {} /\ Root \in Live(RootOnly) /\ 1 # Root
      BY <1>3, <1>6, NodeFacts DEF Root
    <3>2. /\ 1 = Smallest(FreeNodes(RootOnly))
          /\ WithHome = Added(RootOnly, Root, <<Home>>, "DIR")
      BY <1>6 DEF WithHome
    <3>3. /\ Listed(WithHome, Root) = Listed(RootOnly, Root) \cup {1}
          /\ WithHome[1].type = "DIR"
          /\ Listed(WithHome, 1) = IF "DIR" = "DIR" THEN {} ELSE Listed(RootOnly, 1)
          /\ Live(WithHome) = Live(RootOnly) \cup {1}
      <4> HIDE DEF WithHome
      <4> QED
        BY <3>1, <3>2, <1>4, <1>7, AddedTable
    <3> QED
      BY <3>3
  <2>3. Listed(RootOnly, Root) = {}
    BY <1>3, NodeFacts
  <2> QED
    BY <2>1, <2>2, <2>3, <1>3
<1>9. Sound(WithHome)
  BY <1>8 DEF Keeps
<1>10. PICK R : Rooted(WithHome, R) /\ Root \in R /\ 1 \in R
  <2>1. PICK R : {Root} \subseteq R /\ Rooted(WithHome, R)
    BY <1>5, <1>8 DEF Keeps, RootedKept
  <2> QED
    BY <2>1, <1>8, <1>9 DEF Rooted, Sound
<1>11. FreeNodes(WithHome) = Nodes \ {0, 1} /\ Smallest(FreeNodes(WithHome)) = 2
  <2>1. FreeNodes(WithHome) = Nodes \ {0, 1}
    BY <1>8, NodeFacts DEF FreeNodes, Live, Root
  <2>2. FreeNodes(WithHome) \in SUBSET Nat /\ 2 \in FreeNodes(WithHome)
        /\ 0 \notin FreeNodes(WithHome) /\ 1 \notin FreeNodes(WithHome)
    BY <2>1, NodeFacts
  <2>3. Smallest(FreeNodes(WithHome)) \in FreeNodes(WithHome)
        /\ Smallest(FreeNodes(WithHome)) <= 2
    BY <2>2, SmallestIsIn
  <2>4. /\ Smallest(FreeNodes(WithHome)) \in Nat
        /\ Smallest(FreeNodes(WithHome)) # 0 /\ Smallest(FreeNodes(WithHome)) # 1
    BY <2>2, <2>3
  <2> QED
    BY <2>1, <2>3, <2>4
<1>12. /\ Keeps(WithHome, WithUser) /\ 2 \in Listed(WithUser, 1)
       /\ WithUser[2].type = "DIR" /\ WithUser[1].type = "DIR"
  <2>1. FreeNodes(WithHome) # {} /\ 1 \in Live(WithHome)
    BY <1>8, <1>11, NodeFacts
  <2>2. Keeps(WithHome, WithUser)
    BY <1>7, <1>8, <1>9, <2>1, AddedKeeps DEF WithUser
  <2>3. Listed(WithUser, 1) = Listed(WithHome, 1) \cup {2} /\ WithUser[2].type = "DIR"
    <3>1. 2 = Smallest(FreeNodes(WithHome)) /\ WithUser = Added(WithHome, 1, <<User>>, "DIR")
      BY <1>11 DEF WithUser
    <3> HIDE DEF WithHome, WithUser
    <3> QED
      BY <3>1, <1>7, <1>9, <2>1, AddedTable
  <2>4. WithUser[1].type = "DIR"
    BY <1>8, <2>1, <2>2 DEF Keeps, NodesKept
  <2> QED
    BY <2>2, <2>3, <2>4
<1>13. PICK Q : Rooted(WithUser, Q) /\ 2 \in Q
  <2>1. PICK Q : R \subseteq Q /\ Rooted(WithUser, Q)
    BY <1>10, <1>12 DEF Keeps, RootedKept
  <2>2. 1 \in Q
    BY <1>10, <2>1
  <2> QED
    BY <2>1, <2>2, <1>12 DEF Rooted
<1>14. [fd \in Fds |-> Closed] \in Descriptors
  BY FilesAssumption DEF Closed, Descriptors
<1>15. <<Empty>> \in Strings /\ <<Empty, Home, User>> \in Strings
  BY NameFacts DEF Strings
<1> SUFFICES ASSUME Init PROVE IInv
  OBVIOUS
<1>16. CASE nodes = WithHome /\ cwd_node = Root /\ cwd_path = <<Empty>>
  BY <1>9, <1>10, <1>14, <1>15, <1>16, NodeFacts DEF Init, IInv, Sound
<1>17. CASE nodes = WithUser /\ cwd_node = 2 /\ cwd_path = <<Empty, Home, User>>
  <2>1. Sound(WithUser)
    BY <1>12 DEF Keeps
  <2> QED
    BY <2>1, <1>12, <1>13, <1>14, <1>15, <1>17, NodeFacts DEF Init, IInv
<1> QED
  BY <1>16, <1>17 DEF Init, WithUser
----------------------------------------------------------------------------
(* A command leaves the descriptors alone. *)
LEMMA ShellStep ==
  ASSUME IInv, Shell
  PROVE  StepHolds /\ LeftHold
<1>1. StepHolds
  <2>1. CASE ArgumentTooLong
    BY <2>1, OverrunStep DEF ArgumentTooLong
  <2>2. CASE cd_root
    BY <2>2, CdRootStep
  <2>3. ASSUME NEW w \in Words, cmd_cd(w) \/ cmd_touch(w) \/ cmd_mkdir(w) \/ cmd_rm(w)
        PROVE  StepHolds
    BY <2>3, CdStep, CommandsStep, RmStep
  <2>4. ASSUME NEW w \in Words, NEW v \in Words, cmd_cp(w, v) \/ cmd_mv(w, v)
        PROVE  StepHolds
    BY <2>4, CommandsStep, MvStep
  <2>5. ASSUME NEW w \in Words, NEW len \in Sizes, ed_save(w, len) \/ cmd_write(w, len)
        PROVE  StepHolds
    BY <2>5, CommandsStep
  <2>6. ASSUME NEW w \in Words, NEW len \in Lengths, spk_install(w, len)
        PROVE  StepHolds
    <3>1. len \in Nat
      BY FilesAssumption
    <3> QED
      BY <2>6, <3>1, InstallStep
  <2> QED
    BY <2>1, <2>2, <2>3, <2>4, <2>5, <2>6, Zenon DEF Shell
<1>2. fds' = fds
  <2>1. \A made, len : Writes(made, len) => fds' = fds
    BY DEF Writes, Changes
  <2>2. \A d : Enters(d) => fds' = fds
    BY DEF Enters, Overruns
  <2>3. /\ \A w, len : spk_install(w, len) => fds' = fds
        /\ \A w : cmd_cd(w) => fds' = fds
    BY <2>1, <2>2, Zenon DEF spk_install, cmd_cd, Changes, Overruns
  <2>4. \A w : cmd_touch(w) \/ cmd_mkdir(w) \/ cmd_rm(w) => fds' = fds
    BY Zenon DEF cmd_touch, cmd_mkdir, cmd_rm, Changes
  <2>5. \A w, v : cmd_cp(w, v) \/ cmd_mv(w, v) => fds' = fds
    BY <2>1, Zenon DEF cmd_cp, cmd_mv, Changes
  <2>6. \A w, len : ed_save(w, len) \/ cmd_write(w, len) => fds' = fds
    BY <2>1, Zenon DEF ed_save, cmd_write
  <2>7. ArgumentTooLong \/ cd_root => fds' = fds
    BY DEF ArgumentTooLong, cd_root, Overruns
  <2> QED
    BY <2>3, <2>4, <2>5, <2>6, <2>7, Zenon DEF Shell
<1> QED
  BY <1>1, <1>2, Unmoved DEF LeftHold, StepHolds

LEMMA StepGood ==
  ASSUME IInv, [Next]_vars
  PROVE  StepHolds /\ LeftHold
<1>1. CASE Shell
  BY <1>1, ShellStep
<1>2. CASE Syscall
  <2>1. ASSUME NEW path \in Words, NEW flags \in Flags, sys_open(path, flags)
        PROVE  StepHolds /\ LeftHold
    BY <2>1, OpenStep
  <2>2. ASSUME NEW fd \in Fds, sys_close(fd)
        PROVE  StepHolds /\ LeftHold
    BY <2>2, CloseStep
  <2>3. ASSUME NEW fd \in Fds, NEW count \in Lengths, sys_read(fd, count) \/ sys_write(fd, count)
        PROVE  StepHolds /\ LeftHold
    <3>1. count \in Nat
      BY FilesAssumption
    <3> QED
      BY <2>3, <3>1, ReadStep, WriteStep
  <2> QED
    BY <1>2, <2>1, <2>2, <2>3 DEF Syscall
<1>3. CASE UNCHANGED vars
  <2>1. /\ nodes' = nodes /\ cwd_node' = cwd_node /\ cwd_path' = cwd_path
        /\ fds' = fds /\ overrun' = overrun
    BY <1>3 DEF vars
  <2>2. IInv'
    BY <2>1 DEF IInv
  <2> QED
    BY <2>1, <2>2, SameNodes, Unmoved DEF StepHolds, LeftHold
<1> QED
  BY <1>1, <1>2, <1>3 DEF Next

LEMMA Invariant == Spec => []IInv
<1>1. IInv /\ [Next]_vars => IInv'
  BY StepGood DEF StepHolds
<1> QED
  BY <1>1, InitGood, PTL DEF Spec

----------------------------------------------------------------------------
(***************************************************************************)
(* Every table, path and descriptor has its type: sizes stay within        *)
(* RAMFS_DATA_MAX, whoever writes (ramfs_write, sys_write).                *)
(***************************************************************************)
THEOREM TypeCorrect == Spec => []FilesTypeOK
<1>1. IInv => FilesTypeOK
  BY DEF IInv, FilesTypeOK, Sound, Table, Node, Descriptors
<1> QED
  BY <1>1, Invariant, PTL

(***************************************************************************)
(* Parents and children agree, whatever is created below whatever: a node  *)
(* is listed at most once, by its parent, and only while it is in use.     *)
(***************************************************************************)
THEOREM TreeSound == Spec => []Tree
<1>1. IInv => Tree
  BY DEF IInv, Sound, Tree
<1> QED
  BY <1>1, Invariant, PTL

(* The current directory is never removed, nor reused for a file. *)
THEOREM ShellInDirectory == Spec => []CwdIsDirectory
<1>1. IInv => CwdIsDirectory
  BY DEF IInv, CwdIsDirectory
<1> QED
  BY <1>1, Invariant, PTL

(* No command or call makes an entry disappear but the one rm removes. *)
THEOREM EntriesAreKept == Spec => EntriesStay
<1>1. IInv /\ [Next]_vars =>
        [\A d \in Nodes : nodes[d].type = "DIR" =>
           \A n \in Listed(nodes, d) :
             \/ nodes'[n].type = "FREE"
             \/ nodes'[d].type = "DIR" /\ n \in Listed(nodes', d)]_vars
  BY StepGood DEF StepHolds, EntriesHold
<1> QED
  BY <1>1, Invariant, PTL DEF Spec, EntriesStay

(***************************************************************************)
(* Whatever creates an entry looked for its name in that directory first:  *)
(* only mv, and names cut to 63 characters, make two entries of one name.  *)
(***************************************************************************)
THEOREM OnlyRenamesMakeTwins == Spec => TwinsByRename
<1>1. IInv /\ [Next]_vars =>
        [\A d \in Nodes : nodes'[d].type = "DIR" =>
           \A mn \in Twins(nodes', d) :
             mn \in Twins(nodes, d) \/ IsRenamed(mn[1]) \/ IsRenamed(mn[2])]_vars
  BY StepGood DEF StepHolds, TwinsHold
<1> QED
  BY <1>1, Invariant, PTL DEF Spec, TwinsByRename

(***************************************************************************)
(* Reads, writes and opens leave every descriptor within its file, for any *)
(* counts, sizes and flags: one that is outside was left there when its    *)
(* file was removed, truncated or written anew.                            *)
(***************************************************************************)
THEOREM OnlyShorteningLeavesBehind == Spec => LeftBehind
<1>1. IInv /\ [Next]_vars =>
        [\A fd \in Fds : IsOpen(fd)' /\ (IsOpen(fd) => Within(fd)) =>
           Within(fd)' \/ Shortened(fds'[fd].node)]_vars
  BY StepGood DEF LeftHold, StaysWithin
<1> QED
  BY <1>1, Invariant, PTL DEF Spec, LeftBehind
=============================================================================

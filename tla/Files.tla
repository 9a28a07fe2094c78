------------------------------- MODULE Files -------------------------------
(***************************************************************************)
(* The files a session works with: the node table of fs/ramfs.c, the       *)
(* shell's current directory (shell/stellash.c), the package installer     *)
(* (pkg/spk.c) and the descriptors of kernel/syscall.c, on a machine       *)
(* without a disk (diskfs_ready() is 0).                                   *)
(*                                                                         *)
(* The shell runs one command at a time, to its end; applications enter    *)
(* through INT 0x80 between two commands.  A word given to a command or a  *)
(* call is the sequence of what stands between its slashes: <<a, b>> is    *)
(* `a/b', <<Empty, a>> is `/a'.  A file's text is abstracted to its size.  *)
(*                                                                         *)
(* Where the code writes or reads outside its buffers the model ends:      *)
(* overrun says so, and nothing is claimed of what follows.                *)
(***************************************************************************)
EXTENDS Integers, Sequences

CONSTANTS
  Parts,              \* what can stand between two slashes
  Empty, Here, Up,    \* of these, nothing, `.' and `..'
  Home, User,         \* "home" and logged_user
  Words,              \* the words given to commands, packages and calls
  Cut,                \* the first RAMFS_NAME_MAX - 1 characters of words with that many
  Width,              \* the characters of a part
  PathMax,            \* a path in a buffer of 256 characters has at most 255
  BaseMax,            \* the same for base[64] in sys_open
  SpkMax,             \* the same for base[SPK_NAME_MAX] in spk_install
  MaxNodes,           \* RAMFS_MAX_NODES
  MaxChildren,        \* RAMFS_MAX_CHILDREN
  MaxParts,           \* the 16 of parts[16] in ramfs_abs_path
  DataMax,            \* RAMFS_DATA_MAX
  Lengths,            \* the lengths calls and packages ask for
  Word,               \* 2^32: offsets are unsigned
  Fds,                \* 3 .. MAX_FDS - 1
  Flags               \* the sets of flags open is called with

Strings == Seq(Parts) \ {<<>>}

ASSUME FilesAssumption ==
  /\ {Empty, Here, Up, Home, User} \subseteq Parts
  /\ Words \subseteq Strings
  /\ \A w \in DOMAIN Cut : Cut[w] \in Strings
  /\ Width \in [Parts -> Nat]
  /\ PathMax \in Nat /\ BaseMax \in Nat /\ SpkMax \in Nat
  /\ MaxNodes \in Nat /\ MaxNodes > 2
  /\ MaxChildren \in Nat /\ MaxChildren > 0
  /\ MaxParts \in Nat
  /\ DataMax \in Nat /\ DataMax > 0
  /\ Lengths \subseteq Nat
  /\ Word \in Nat /\ Word > 2 * DataMax
  /\ Fds \subseteq Nat
  /\ Flags \subseteq SUBSET {"O_CREAT", "O_TRUNC", "O_APPEND"}

VARIABLES
  nodes,               \* ramfs.c: the table
  cwd_node, cwd_path,  \* stellash.c: the current directory, and its path
  fds,                 \* syscall.c: the descriptors, of all processes
  overrun              \* a buffer has been overrun

vars == <<nodes, cwd_node, cwd_path, fds, overrun>>

Nodes == 0 .. MaxNodes - 1
Root  == 0
NULL  == MaxNodes
Sizes == 0 .. DataMax

Unused == [type |-> "FREE", name |-> <<Empty>>, size |-> 0, parent |-> NULL,
           children |-> <<>>]

(* A descriptor that was never used. *)
Closed == [used |-> FALSE, offset |-> 0, node |-> NULL]

Smallest(S) == CHOOSE i \in S : \A j \in S : i <= j

Dirname(path)  == SubSeq(path, 1, Len(path) - 1)
Basename(path) == path[Len(path)]

(* The characters of a path: its parts, and the slashes between them. *)
Chars(path) ==
  LET upto[i \in 0 .. Len(path)] ==
        IF i = 0 THEN 0 ELSE upto[i - 1] + Width[path[i]] + 1
  IN  upto[Len(path)] - 1

Fits(path) == Chars(path) <= PathMax

(* strncpy into a name. *)
Kept(w) == IF w \in DOMAIN Cut THEN Cut[w] ELSE w

----------------------------------------------------------------------------
(***************************************************************************)
(* ramfs.c, on a table t.  A call that fails returns the node NULL.        *)
(***************************************************************************)
Child(t, d, nm) ==
  {i \in DOMAIN t[d].children : t[t[d].children[i]].name = nm}

ramfs_find(t, d, nm) ==
  IF d \in Nodes /\ t[d].type = "DIR" /\ Child(t, d, nm) # {}
  THEN t[d].children[Smallest(Child(t, d, nm))]
  ELSE NULL

Enter(t, d, c) ==
  IF c \in {Empty, Here} THEN d
  ELSE IF c # Up THEN ramfs_find(t, d, <<c>>)
  ELSE IF d \in Nodes /\ t[d].parent \in Nodes THEN t[d].parent ELSE d

ramfs_resolve(t, path) ==
  LET at[i \in 0 .. Len(path)] ==
        IF i = 0 THEN Root ELSE Enter(t, at[i - 1], path[i])
  IN  IF path = <<>> THEN Root ELSE at[Len(path)]

FreeNodes(t) == {n \in Nodes : t[n].type = "FREE"}

HasRoom(t, d) == d \in Nodes /\ Len(t[d].children) < MaxChildren

(* A new node keeps the children of the one it replaces, unless it is a directory. *)
Added(t, d, nm, kind) ==
  LET n == Smallest(FreeNodes(t))
  IN  [t EXCEPT ![n] = [type |-> kind, name |-> nm, size |-> 0, parent |-> d,
                        children |-> IF kind = "DIR" THEN <<>> ELSE @.children],
                ![d].children = Append(@, n)]

Failed(t)          == [node |-> NULL, table |-> t]
Fresh(t, d, nm, k) == [node |-> Smallest(FreeNodes(t)), table |-> Added(t, d, Kept(nm), k)]

(* A bug to catch: a directory that exists is made again. *)
ramfs_mkdir_again(t, d, nm) ==
  IF HasRoom(t, d) /\ FreeNodes(t) # {} THEN Fresh(t, d, nm, "DIR") ELSE Failed(t)

ramfs_mkdir(t, d, nm) ==
  IF HasRoom(t, d) /\ ramfs_find(t, d, nm) \notin Nodes /\ FreeNodes(t) # {}
  THEN Fresh(t, d, nm, "DIR")
  ELSE Failed(t)

ramfs_create(t, d, nm) ==
  IF HasRoom(t, d) /\ ramfs_find(t, d, nm) \in Nodes
  THEN [node |-> ramfs_find(t, d, nm), table |-> t]
  ELSE IF HasRoom(t, d) /\ FreeNodes(t) # {}
  THEN Fresh(t, d, nm, "FILE")
  ELSE Failed(t)

(* find, else create: the editor and spk_install. *)
FindOrCreate(t, d, nm) ==
  IF ramfs_find(t, d, nm) \in Nodes
  THEN [node |-> ramfs_find(t, d, nm), table |-> t]
  ELSE ramfs_create(t, d, nm)

(* A bug to catch: a length above RAMFS_DATA_MAX. *)
StoredUncut(len) == IF len = 0 THEN Sizes ELSE {len}

(* A length of 0 means strlen(data): whatever the caller's buffer holds. *)
Stored(len) == IF len = 0 THEN Sizes ELSE {IF len > DataMax THEN DataMax ELSE len}

ramfs_write(t, f, len) ==
  IF f \in Nodes /\ t[f].type = "FILE" THEN [t EXCEPT ![f].size = len] ELSE t

(* A bug to catch: the count of children is not reduced. *)
WithoutNone(children, i) == children

(* The children array after the shift that closes the gap at i. *)
WithoutIndex(children, i) ==
  [j \in 1 .. Len(children) - 1 |-> IF j < i THEN children[j] ELSE children[j + 1]]

(* A bug to catch: the count of children is not looked at. *)
DeletableAlways(t, n) == t[n].type # "FREE"

Deletable(t, n) == t[n].type = "DIR" => t[n].children = <<>>

(***************************************************************************)
(* ramfs_abs_path: the names from the root down to a node, the last        *)
(* MaxParts of them; <<Empty>> stands for the root's "/".  A name of       *)
(* RAMFS_NAME_MAX - 1 characters has no end in parts[], and is read on.    *)
(***************************************************************************)
PathParts(t) ==
  LET parts[k \in 0 .. MaxParts] ==
        [m \in Nodes \cup {NULL} |->
           IF k = 0 \/ m \in {Root, NULL} THEN <<>>
           ELSE parts[k - 1][t[m].parent] \o t[m].name]
  IN  parts

ramfs_abs_path(t, n) == <<Empty>> \o PathParts(t)[MaxParts][n]

(* The nodes these names are of. *)
Line(t, n) ==
  LET line[k \in 0 .. MaxParts] ==
        [m \in Nodes \cup {NULL} |->
           IF k = 0 \/ m \in {Root, NULL} THEN {}
           ELSE {m} \cup line[k - 1][t[m].parent]]
  IN  line[MaxParts][n]

Endless(t, n) == \E m \in Line(t, n), w \in DOMAIN Cut : t[m].name = Cut[w]

----------------------------------------------------------------------------
(***************************************************************************)
(* ramfs_init makes the root and the directories below it, of which Home   *)
(* stands for all; setup_user_home makes the user's own and goes there,    *)
(* unless the user is root.                                                *)
(***************************************************************************)
RootOnly == [n \in Nodes |-> IF n = Root
                             THEN [Unused EXCEPT !.type = "DIR", !.parent = Root,
                                                 !.name = <<Empty, Empty>>]
                             ELSE Unused]
WithHome == Added(RootOnly, Root, <<Home>>, "DIR")

Init ==
  /\ \/ nodes = WithHome /\ cwd_node = Root /\ cwd_path = <<Empty>>
     \/ /\ nodes = Added(WithHome, 1, <<User>>, "DIR")
        /\ cwd_node = 2 /\ cwd_path = <<Empty, Home, User>>
  /\ fds = [fd \in Fds |-> Closed]
  /\ overrun = FALSE

----------------------------------------------------------------------------
(* stellash.c: a word leads from the root, or from the current directory. *)
Absolute(w) == Len(w) > 1 /\ w[1] = Empty
Full(w)     == IF Absolute(w) THEN w ELSE cwd_path \o w

resolve_arg(w) == ramfs_resolve(nodes, Full(w))

Overruns == overrun' = TRUE /\ UNCHANGED <<nodes, cwd_node, cwd_path, fds>>

(* full[256] in resolve_arg, whatever command calls it; buf[256] in ramfs_resolve. *)
ArgumentTooLong == \E w \in Words : ~Fits(Full(w)) /\ Overruns

Enters(d) ==
  /\ d \in Nodes /\ nodes[d].type = "DIR"
  /\ LET path == ramfs_abs_path(nodes, d)
     IN  \/ /\ Fits(path)
            /\ cwd_node' = d /\ cwd_path' = path
            /\ UNCHANGED <<nodes, fds, overrun>>
         \/ /\ ~Fits(path) \/ Endless(nodes, d)
            /\ Overruns

Above(d) == IF nodes[d].parent \in Nodes THEN nodes[d].parent ELSE Root

(* A bug to catch: cd .. leaves the path as it was. *)
cmd_cd_node(w) ==
  IF w = <<Up>>
  THEN cwd_node' = Above(cwd_node) /\ UNCHANGED <<nodes, cwd_path, fds, overrun>>
  ELSE Fits(Full(w)) /\ Enters(resolve_arg(w))

cmd_cd(w) ==
  IF w = <<Up>> THEN Enters(Above(cwd_node))
  ELSE Fits(Full(w)) /\ Enters(resolve_arg(w))

(* cd alone goes to the root, without ramfs_abs_path. *)
cd_root ==
  /\ cwd_node' = Root /\ cwd_path' = <<Empty>>
  /\ UNCHANGED <<nodes, fds, overrun>>

Changes(table) == nodes' = table /\ UNCHANGED <<cwd_node, cwd_path, fds, overrun>>

cmd_touch(w) == Changes(ramfs_create(nodes, cwd_node, w).table)
cmd_mkdir(w) == Changes(ramfs_mkdir(nodes, cwd_node, w).table)

(***************************************************************************)
(* cmd_rm and ramfs_delete: the first child of that name; a directory only *)
(* if empty.  A free node keeps its size and children, which descriptors   *)
(* and ramfs_create read; its old name and parent are never read again.    *)
(***************************************************************************)
Freed(t, d, i) ==
  [t EXCEPT ![t[d].children[i]] = [@ EXCEPT !.type = "FREE", !.name = <<Empty>>,
                                            !.parent = NULL],
            ![d].children = WithoutIndex(@, i)]

(* A bug to catch: rm resolves its argument, and removes what that leads to. *)
cmd_rm_anywhere(w) ==
  /\ Fits(Full(w)) /\ resolve_arg(w) \in Nodes \ {Root}
  /\ LET n == resolve_arg(w)
         d == nodes[n].parent
     IN  /\ Deletable(nodes, n)
         /\ Changes(Freed(nodes, d, CHOOSE i \in DOMAIN nodes[d].children :
                                      nodes[d].children[i] = n))

cmd_rm(w) ==
  /\ Child(nodes, cwd_node, w) # {}
  /\ LET i == Smallest(Child(nodes, cwd_node, w))
     IN  /\ Deletable(nodes, nodes[cwd_node].children[i])
         /\ Changes(Freed(nodes, cwd_node, i))

(* A node of a table, if the call returned one, gets the length a caller passes. *)
Writes(made, len) ==
  /\ made.node \in Nodes
  /\ \E size \in Stored(len) : Changes(ramfs_write(made.table, made.node, size))

cmd_cp(w, v) ==
  /\ Fits(Full(w))
  /\ resolve_arg(w) \in Nodes /\ nodes[resolve_arg(w)].type = "FILE"
  /\ Writes(ramfs_create(nodes, cwd_node, v), nodes[resolve_arg(w)].size)

cmd_mv(w, v) ==
  /\ Fits(Full(w))
  /\ resolve_arg(w) \in Nodes
  /\ Changes([nodes EXCEPT ![resolve_arg(w)].name = Kept(v)])

(* The text of `write' ends in a line feed: it is never empty. *)
cmd_write(w, len) ==
  /\ Fits(Full(w)) /\ len > 0
  /\ Writes(IF resolve_arg(w) \in Nodes THEN [node |-> resolve_arg(w), table |-> nodes]
            ELSE ramfs_create(nodes, cwd_node, w), len)

(* editor.c: F2 saves in the root, whatever the current directory is, under *)
(* what strncpy left of the name; every line ends in a line feed.           *)
ed_save(w, len) ==
  /\ len > 0
  /\ Writes(FindOrCreate(nodes, Root, Kept(w)), len)

----------------------------------------------------------------------------
(***************************************************************************)
(* spk_install, one file of a package: the directories that are missing    *)
(* are made one below the other; one that cannot be made is passed over.   *)
(***************************************************************************)
Made(at, c) ==
  IF ramfs_find(at.table, at.node, <<c>>) \in Nodes
  THEN [at EXCEPT !.node = ramfs_find(at.table, at.node, <<c>>)]
  ELSE LET made == ramfs_mkdir(at.table, at.node, <<c>>)
       IN  IF made.node \in Nodes THEN made ELSE at

spk_directories(path) ==
  LET at[i \in 0 .. Len(path)] ==
        IF i = 0 THEN [node |-> Root, table |-> nodes]
        ELSE IF path[i] = Empty THEN at[i - 1] ELSE Made(at[i - 1], path[i])
  IN  at[Len(path)]

spk_install(path, len) ==
  IF Chars(<<Basename(path)>>) > SpkMax THEN Overruns
  ELSE LET d    == ramfs_resolve(nodes, Dirname(path))
           at   == IF d \in Nodes THEN [node |-> d, table |-> nodes]
                   ELSE spk_directories(Dirname(path))
           made == FindOrCreate(at.table, at.node, <<Basename(path)>>)
       IN  \/ made.node \notin Nodes /\ Changes(at.table)
           \/ Writes(made, len)

----------------------------------------------------------------------------
(* syscall.c.  Paths start at the root; any process may use any descriptor. *)
FreeFds == {fd \in Fds : ~fds[fd].used}

IsOpen(fd) == fds[fd].used /\ fds[fd].node \in Nodes

(* A missing file is created in its directory, or in the root if that is missing. *)
Opened(path, flags) ==
  LET found == ramfs_resolve(nodes, path)
      d     == ramfs_resolve(nodes, Dirname(path))
  IN  IF found \in Nodes \/ "O_CREAT" \notin flags
      THEN [node |-> found, table |-> nodes]
      ELSE ramfs_create(nodes, IF d \in Nodes THEN d ELSE Root, <<Basename(path)>>)

OpenTooLong(path, flags) ==
  \/ ~Fits(IF Absolute(path) THEN path ELSE <<Empty>> \o path)
  \/ /\ ramfs_resolve(nodes, path) \notin Nodes /\ "O_CREAT" \in flags
     /\ Chars(<<Basename(path)>>) > BaseMax

(* The offset is taken before the file is truncated. *)
sys_open(path, flags) ==
  /\ FreeFds # {}
  /\ IF OpenTooLong(path, flags) THEN Overruns
     ELSE LET made == Opened(path, flags)
              n    == made.node
          IN  /\ n \in Nodes
              /\ fds' = [fds EXCEPT ![Smallest(FreeFds)] =
                           [used |-> TRUE, node |-> n,
                            offset |-> IF "O_APPEND" \in flags THEN made.table[n].size
                                       ELSE 0]]
              /\ nodes' = IF "O_TRUNC" \in flags THEN [made.table EXCEPT ![n].size = 0]
                          ELSE made.table
              /\ UNCHANGED <<cwd_node, cwd_path, overrun>>

(* The offset of a closed descriptor is never read again. *)
sys_close(fd) ==
  /\ fds[fd].used
  /\ fds' = [fds EXCEPT ![fd] = Closed]
  /\ UNCHANGED <<nodes, cwd_node, cwd_path, overrun>>

(* A bug to catch: the offset is left out. *)
UptoEnd(end, offset) == end

(* What is left between the offset and an end, as the unsigned subtraction has it. *)
Upto(end, offset) == (end - offset) % Word

Smaller(a, b) == IF a < b THEN a ELSE b

Advanced(fd, n) == (fds[fd].offset + n) % Word

sys_read(fd, count) ==
  /\ IsOpen(fd)
  /\ LET n == Smaller(count, Upto(nodes[fds[fd].node].size, fds[fd].offset))
     IN  fds' = [fds EXCEPT ![fd].offset = Advanced(fd, n)]
  /\ UNCHANGED <<nodes, cwd_node, cwd_path, overrun>>

(* Beyond RAMFS_DATA_MAX the space left wraps, and memcpy leaves the file. *)
sys_write(fd, count) ==
  /\ IsOpen(fd)
  /\ IF fds[fd].offset > DataMax THEN Overruns
     ELSE LET f   == fds[fd].node
              new == Advanced(fd, Smaller(count, Upto(DataMax, fds[fd].offset)))
          IN  /\ fds' = [fds EXCEPT ![fd].offset = new]
              /\ nodes' = [nodes EXCEPT ![f].size = IF new > @ THEN new ELSE @]
              /\ UNCHANGED <<cwd_node, cwd_path, overrun>>

----------------------------------------------------------------------------
Shell ==
  \/ ArgumentTooLong
  \/ cd_root
  \/ \E w \in Words :
       \/ cmd_cd(w)
       \/ cmd_touch(w)
       \/ cmd_mkdir(w)
       \/ cmd_rm(w)
       \/ \E v \in Words : cmd_cp(w, v) \/ cmd_mv(w, v)
       \/ \E len \in Sizes : ed_save(w, len) \/ cmd_write(w, len)
       \/ \E len \in Lengths : spk_install(w, len)

Syscall ==
  \/ \E path \in Words, flags \in Flags : sys_open(path, flags)
  \/ \E fd \in Fds :
       \/ sys_close(fd)
       \/ \E count \in Lengths \ {0} : sys_read(fd, count) \/ sys_write(fd, count)

Next == ~overrun /\ (Shell \/ Syscall)

Spec == Init /\ [][Next]_vars

----------------------------------------------------------------------------
FilesTypeOK ==
  /\ nodes \in [Nodes -> [type : {"FREE", "FILE", "DIR"}, name : Strings,
                          size : Sizes, parent : Nodes \cup {NULL},
                          children : Seq(Nodes)]]
  /\ cwd_node \in Nodes
  /\ cwd_path \in Strings
  /\ fds \in [Fds -> [used : BOOLEAN, offset : 0 .. Word - 1, node : Nodes \cup {NULL}]]
  /\ overrun \in BOOLEAN

Live(t) == {n \in Nodes : t[n].type # "FREE"}

Listed(t, d) == {t[d].children[i] : i \in DOMAIN t[d].children}

(***************************************************************************)
(* Parent and children agree, even below a file and in the list that a     *)
(* file takes over from the node it replaces: what is listed is in use,    *)
(* and listed once, by the node that it has as its parent.                 *)
(***************************************************************************)
ListedByParent(t) ==
  \A d \in Nodes : \A i \in DOMAIN t[d].children :
    /\ t[d].children[i] \in Live(t) \ {Root}
    /\ t[t[d].children[i]].parent = d

ListedOnce(t) ==
  \A d \in Nodes : \A i, j \in DOMAIN t[d].children :
    t[d].children[i] = t[d].children[j] => i = j

Tree == ListedByParent(nodes) /\ ListedOnce(nodes)

(***************************************************************************)
(* The shell is always in a directory in use: rm, which removes empty ones,*)
(* never removes the one the shell is in, nor does it become a file.       *)
(***************************************************************************)
CwdIsDirectory == nodes[cwd_node].type = "DIR"

(***************************************************************************)
(* A directory with entries is never removed or replaced, and loses an     *)
(* entry only when that entry is removed: no rm, mv, install or open of    *)
(* one thing makes another disappear from where it was.                    *)
(***************************************************************************)
EntriesStay ==
  [][\A d \in Nodes : nodes[d].type = "DIR" =>
       \A n \in Listed(nodes, d) :
         \/ nodes'[n].type = "FREE"
         \/ nodes'[d].type = "DIR" /\ n \in Listed(nodes', d)]_vars

(***************************************************************************)
(* Two entries of a directory come to have one name only by a mv, or as    *)
(* the cut form of a longer one: never by touch, mkdir, cp, write, edit,   *)
(* spkg and open, in whatever order they find and create.                  *)
(***************************************************************************)
CutNames == {Cut[w] : w \in {v \in DOMAIN Cut : Cut[v] # v}}

Twins(t, d) ==
  {mn \in Listed(t, d) \X Listed(t, d) :
     mn[1] # mn[2] /\ t[mn[1]].name = t[mn[2]].name /\ t[mn[1]].name \notin CutNames}

IsRenamed(n) == n \in Live(nodes) /\ nodes'[n].type # "FREE" /\ nodes'[n].name # nodes[n].name

TwinsByRename ==
  [][\A d \in Nodes : nodes'[d].type = "DIR" =>
       \A mn \in Twins(nodes', d) :
         mn \in Twins(nodes, d) \/ IsRenamed(mn[1]) \/ IsRenamed(mn[2])]_vars

(***************************************************************************)
(* A descriptor is within its file when the file is in use and the offset  *)
(* not behind its end: then the differences of sys_read and sys_write do   *)
(* not wrap.  Only a step that shortens or removes the file itself leaves  *)
(* a descriptor outside: no read, write, open or reuse of a node does.     *)
(***************************************************************************)
Within(fd) ==
  fds[fd].node \in Live(nodes) /\ fds[fd].offset <= nodes[fds[fd].node].size

Shortened(n) == nodes'[n].type = "FREE" \/ nodes'[n].size < nodes[n].size

LeftBehind ==
  [][\A fd \in Fds : IsOpen(fd)' /\ (IsOpen(fd) => Within(fd)) =>
       Within(fd)' \/ Shortened(fds'[fd].node)]_vars

(***************************************************************************)
(* The path in the prompt, from which cat, cp and write resolve names, is  *)
(* that of the directory in which touch, mkdir and rm work, unless one of  *)
(* the names on it is hidden from ramfs_resolve (it has a slash, is that   *)
(* of an earlier twin, or is too deep for ramfs_abs_path) or is `..', and  *)
(* until a mv.                                                             *)
(***************************************************************************)
CwdIsItsPath == ramfs_resolve(nodes, cwd_path) = cwd_node

Hidden(t, n) ==
  \/ n # Root /\ \A m \in Line(t, n) : t[m].parent # Root
  \/ \E m \in Line(t, n) :
       \/ Len(t[m].name) # 1 \/ t[m].name[1] \in {Empty, Here, Up}
       \/ ramfs_find(t, t[m].parent, t[m].name) # m

PromptLeadsHere ==
  [][CwdIsItsPath' \/ IF cwd_path' = cwd_path /\ cwd_node' = cwd_node
                      THEN \/ ~CwdIsItsPath
                           \/ \E n \in Nodes : IsRenamed(n)
                           \/ \E i \in DOMAIN cwd_path : cwd_path[i] = Up
                      ELSE Hidden(nodes, cwd_node')]_vars
=============================================================================

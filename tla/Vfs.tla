-------------------------------- MODULE Vfs --------------------------------
(***************************************************************************)
(* The hierarchy of names (python_modules/vfs.py) over the directories of  *)
(* ramfs.py and ext2.py: a path stands for a list of nodes, all those that *)
(* the directories before it hold under its last segment, and binding adds *)
(* to the list.  Python makes one call at a time; one that only raises an  *)
(* exception is no step.                                                   *)
(***************************************************************************)
EXTENDS Integers, SequencesExt

CONSTANTS
  Names,      \* segments of paths, besides RootPath, ParentPath and SelfPath
  Depth,      \* bound: segments behind the RootPath
  Attached,   \* nodes that drivers, boot modules and mounts bring
  Inside,     \* nodes that are in a file system that is mounted
  Held,       \* what each node of both holds, under each name
  Kind,       \* its file system: "device", "ramfs", "ext2" or, read-only, "ro"
  Folders,    \* those of ext2 that are directories
  MaxMade,    \* bound: nodes that are made
  MaxLinks,   \* bound: nodes that a directory has under one name
  MaxPut      \* bound: pairs of nodes and paths before the last call that binds or creates

Root == 0
RootPath == "/"
Given == Attached \cup Inside
Segments == Names \cup {RootPath}
Paths == {<<RootPath>> \o p : p \in BoundedSeq(Names, Depth)}
Empty == [segment \in Segments |-> <<>>]

ASSUME VfsAssumption ==
  /\ Attached \cap Inside = {} /\ Given \cap Nat = {} /\ Names \cap {RootPath, ".", ".."} = {}
  /\ Held \in [Given -> [Segments -> Seq(Inside)]]
  /\ Kind \in [Given -> {"device", "ramfs", "ext2", "ro"}] /\ Folders \subseteq Given
  /\ Depth \in Nat /\ MaxMade \in Nat /\ MaxLinks \in Nat /\ MaxPut \in Nat

VARIABLES
  children,   \* for each node that there is: _children, or the entries on disk
  made,       \* the file systems of the nodes 1, 2, ... that were made
  cwd,        \* __cwd
  put         \* history: the nodes that were bound or created, with their paths

vfs_vars == <<children, made, cwd, put>>

VfsInit ==
  /\ children = [n \in Given \cup {Root} |-> IF n = Root THEN Empty ELSE Held[n]]
  /\ made = <<>>
  /\ cwd = <<RootPath>>
  /\ put = {}

Kinds == {"device", "ramfs", "ext2", "ro", "root"}
NodesOf(k) == Given \cup 0 .. k
VfsTypeOK ==
  /\ made \in Seq(Kinds)
  /\ children \in [NodesOf(Len(made)) -> [Segments -> Seq(NodesOf(Len(made)))]]
  /\ cwd \in Paths
  /\ put \subseteq Paths \X NodesOf(Len(made))

KindOf(n) == IF n \in Given THEN Kind[n] ELSE IF n = Root THEN "root" ELSE made[n]

-----------------------------------------------------------------------------
(* Paths                                                                   *)

(* Path.append, from the current directory.  The root has no parent: what  *)
(* remains is no path.                                                     *)
Extended(path, segment) ==
  CASE segment = RootPath -> <<RootPath>>
    [] segment = "." \/ path = <<>> -> path
    [] segment = ".." -> Front(path)
    [] OTHER -> Append(path, segment)
Absolute(path) ==
  LET absolute[i \in 0 .. Len(path)] == IF i = 0 THEN cwd ELSE Extended(absolute[i - 1], path[i])
  IN absolute[Len(path)]

(* A lookup that is content with the first directory that has the name.    *)
LocateFirst(path) ==
  LET nodes[i \in 0 .. Len(path)] ==
        IF i = 0 THEN <<Root>>
        ELSE LET parents == SelectSeq(nodes[i - 1], LAMBDA n : children[n][path[i]] # <<>>)
             IN IF parents = <<>> THEN <<>> ELSE children[Head(parents)][path[i]]
  IN nodes[Len(path)]

(* locate_nodes                                                            *)
Locate(path) ==
  LET nodes[i \in 0 .. Len(path)] ==
        IF i = 0 THEN <<Root>>
        ELSE LET parents == nodes[i - 1]
             IN FlattenSeq([j \in 1 .. Len(parents) |-> children[parents[j]][path[i]]])
  IN nodes[Len(path)]

-----------------------------------------------------------------------------
(* Directories: a tree of children and the file systems of the nodes made  *)

(* ramfs.Node.mkdir, and create_regular_child, of a node in `kind`.        *)
Child(tree, at, segment, kind) ==
  LET new == Len(tree.made) + 1 IN
  [children |-> [n \in DOMAIN tree.children \cup {new} |->
                   IF n = new THEN Empty
                   ELSE IF n = at THEN [tree.children[n] EXCEPT ![segment] = Append(@, new)]
                   ELSE tree.children[n]],
   made |-> Append(tree.made, kind),
   at |-> new]

(* get_node of bind: the first child that is in the root's file system, or *)
(* a new one next to those there are.                                      *)
GetNode(tree, segment) ==
  LET there == tree.children[tree.at][segment]
      ours == {i \in DOMAIN there : there[i] \in DOMAIN tree.made /\ tree.made[there[i]] = "root"}
  IN IF ours # {} THEN [tree EXCEPT !.at = there[Min(ours)]]
     ELSE Child(tree, tree.at, segment, "root")

(* ramfs.Directory.link; LinkOver replaces what the name stood for.        *)
LinkOver(tree, nodes, segment) == [tree.children EXCEPT ![tree.at][segment] = nodes]
Link(tree, nodes, segment) == [tree.children EXCEPT ![tree.at][segment] = @ \o nodes]

(* bind, at the directory of the path, with those that it makes            *)
DirectoryOf(path) ==
  LET trees[i \in 0 .. Len(path) - 1] ==
        IF i = 0 THEN [children |-> children, made |-> made, at |-> Root] ELSE GetNode(trees[i - 1], path[i])
  IN trees[Len(path) - 1]
Bind(nodes, path) ==
  LET tree == DirectoryOf(path) IN
  /\ Len(tree.made) <= MaxMade
  /\ Cardinality(put) < MaxPut
  /\ Len(tree.children[tree.at][Last(path)]) + Len(nodes) <= MaxLinks
  /\ children' = Link(tree, nodes, Last(path))
  /\ made' = tree.made
  /\ put' = put \cup {<<path, n>> : n \in ToSet(nodes)}
  /\ UNCHANGED cwd

(* A driver, a boot module or mount binds a node of its own.               *)
Attach(n, path) ==
  /\ \A p \in Paths : <<p, n>> \notin put
  /\ Bind(<<n>>, path)

(* The shell's bind: all nodes of one path are bound to another.           *)
BindAgain(from, path) ==
  /\ Locate(from) # <<>>
  /\ Bind(Locate(from), path)

-----------------------------------------------------------------------------
(* Creating                                                                *)

(* locate_nodes, with create, goes over the directories that might have    *)
(* had the node: those of the root are passed over, and read-only ones but *)
(* for the last; any other settles it.  A device has no such method but    *)
(* the one that returns None.                                              *)
PassedOver(n, last) == KindOf(n) = "root" \/ (KindOf(n) = "ro" /\ n # last)
Creates(n) == KindOf(n) = "ramfs" \/ (KindOf(n) = "ext2" /\ n \in Folders)

Create(path) ==
  LET parents == Locate(Front(path)) IN
  /\ Len(path) > 1 /\ Locate(path) = <<>>
  /\ Cardinality(put) < MaxPut
  /\ \E i \in DOMAIN parents :
       /\ \A j \in 1 .. i - 1 : PassedOver(parents[j], Last(parents))
       /\ Creates(parents[i])
       /\ LET tree == Child([children |-> children, made |-> made], parents[i], Last(path), KindOf(parents[i])) IN
          /\ tree.at <= MaxMade
          /\ children' = tree.children
          /\ made' = tree.made
          /\ put' = put \cup {<<path, tree.at>>}
  /\ UNCHANGED cwd

(* set_cwd                                                                 *)
SetCwd(path) ==
  /\ Absolute(path) \in Paths
  /\ Locate(Absolute(path)) # <<>>
  /\ cwd' = Absolute(path)
  /\ UNCHANGED <<children, made, put>>

VfsNext ==
  \/ \E path \in Paths :
       \/ \E n \in Attached : Attach(n, path)
       \/ \E from \in Paths : BindAgain(from, path)
       \/ Create(path)
  \/ \E path \in Paths \cup {<<segment>> : segment \in Names \cup {".", ".."}} : SetCwd(path)

VfsSpec == VfsInit /\ [][VfsNext]_vfs_vars

-----------------------------------------------------------------------------

(* Every node that is bound or created is found under its path from then   *)
(* on, and the current directory too, once there is a root: binding to a   *)
(* path takes nothing away, on whatever file systems its directories are.  *)
PutIsFound ==
  /\ \A p \in put : p[2] \in ToSet(Locate(p[1]))
  /\ put # {} => Locate(cwd) # <<>>

(* The nodes that a path stands for: all of its directories count.         *)
StandsFor(path) ==
  LET nodes[i \in 0 .. Len(path)] ==
        IF i = 0 THEN {Root} ELSE UNION {ToSet(children[n][path[i]]) : n \in nodes[i - 1]}
  IN nodes[Len(path)]

(* What a path stands for, it goes on to stand for, the files of mounted   *)
(* file systems included; and a file is created only under a path that     *)
(* stood for nothing, and is then all that it stands for.                  *)
NothingHidden ==
  [][/\ \A path \in Paths : StandsFor(path) \subseteq StandsFor(path)'
     /\ made' # made /\ Last(made') # "root" =>
          \A p \in put' \ put : StandsFor(p[1]) = {} /\ StandsFor(p[1])' = {p[2]}]_vfs_vars
=============================================================================

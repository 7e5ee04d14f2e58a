-------------------------------- MODULE Vfs --------------------------------
(***************************************************************************)
(* The tree of the virtual file system (vfs.c): nodes that name their      *)
(* parent, their first child and their next sibling.  Nothing frees a      *)
(* node, so node n is the n-th that vfs_create_node handed out; node 1 is  *)
(* vfs_root.                                                               *)
(*                                                                         *)
(* A path is its names and whether a slash follows them.  Open files, and  *)
(* the list of mounts, which no code reads, are left out.                  *)
(***************************************************************************)
EXTENDS LinkedLists

CONSTANTS Name,        \* names of files and directories
          MaxNodes,    \* bound: nodes ever created
          MaxDepth     \* bound: names in a path

ASSUME VfsAssumption == NULL \notin Nat /\ {MaxNodes, MaxDepth} \subseteq Nat

VARIABLE fs            \* the nodes' fields: a record of sequences

vfsVars == <<fs>>

vfs_root == 1
Created == DOMAIN fs.type
Path == [names : BoundedSeq(Name, MaxDepth), slash : BOOLEAN]
Kind == {"file", "dir"}

VfsInit ==
  fs = [name |-> <<"/">>, type |-> <<"dir">>, parent |-> <<NULL>>,
        sibling |-> <<NULL>>, child |-> <<NULL>>]

Children(d) == ChainFrom(fs.sibling, fs.child[d])

(* The first child of d of that name, NULL if there is none. *)
ChildNamed(d, n) ==
  LET c     == Children(d)
      found == {k \in DOMAIN c : fs.name[c[k]] = n}
  IN  IF found = {} THEN NULL ELSE c[Min(found)]

(* Every name but one at the very end of the path must be a directory's.   *)
parse_path(p) ==
  LET last == Len(p.names)
      walk[i \in 0 .. last] ==
        IF i = 0 THEN vfs_root
        ELSE IF walk[i - 1] = NULL THEN NULL
        ELSE LET c == ChildNamed(walk[i - 1], p.names[i])
             IN  IF /\ c # NULL
                    /\ i < last \/ p.slash
                    /\ fs.type[c] # "dir"
                 THEN NULL ELSE c
  IN  walk[last]

vfs_create_node(f, n, t) ==
  [name    |-> Append(f.name, n),
   type    |-> Append(f.type, t),
   parent  |-> Append(f.parent, NULL),
   sibling |-> Append(f.sibling, NULL),
   child   |-> Append(f.child, NULL)]

(* A parent that is no directory refuses: the node stays without one. *)
vfs_add_child(f, d, c) ==
  IF f.type[d] # "dir" THEN f
  ELSE [f EXCEPT !.parent[c] = d, !.sibling[c] = f.child[d], !.child[d] = c]

(* Faulty variant of vfs_remove_child: it clears the node's fields before  *)
(* it reads them.                                                          *)
vfs_remove_child_ClearFirst(d, c) ==
  /\ c \in ToSet(Children(d))
  /\ fs' = [fs EXCEPT !.child[d] = IF @ = c THEN NULL ELSE @,
                     !.sibling = [n \in DOMAIN @ |-> IF @[n] = c THEN NULL ELSE @[n]],
                     !.parent[c] = NULL]

vfs_remove_child(d, c) ==
  LET unlinked ==
        IF fs.child[d] = c THEN [fs EXCEPT !.child[d] = fs.sibling[c]]
        ELSE LET before == CHOOSE n \in ToSet(Children(d)) : fs.sibling[n] = c
             IN  [fs EXCEPT !.sibling[before] = fs.sibling[c]]
  IN  /\ c \in ToSet(Children(d))
      /\ fs' = [unlinked EXCEPT !.parent[c] = NULL, !.sibling[c] = NULL]

(* vfs_mkdir and vfs_create look the whole path up and add a node of its   *)
(* last name to what they find.                                            *)
Make(p, kind) ==
  /\ Len(fs.type) < MaxNodes
  /\ parse_path(p) # NULL
  /\ p.names # <<>> /\ ~p.slash
  /\ fs' = vfs_add_child(vfs_create_node(fs, Last(p.names), kind), parse_path(p),
                         Len(fs.type) + 1)
vfs_mkdir(p) == Make(p, "dir")
vfs_create(p) == Make(p, "file")

Detach(p, kind) ==
  LET n == parse_path(p)
  IN  /\ n # NULL
      /\ fs.type[n] = kind
      /\ fs.parent[n] # NULL
      /\ vfs_remove_child(fs.parent[n], n)
vfs_rmdir(p) == Detach(p, "dir")
vfs_unlink(p) == Detach(p, "file")

(* Reading the root directory of a FAT volume: a node for each entry goes  *)
(* to node d, whatever stands there already.                               *)
fat_read_directory(d, entries) ==
  LET read[k \in 0 .. Len(entries)] ==
        IF k = 0 THEN fs
        ELSE vfs_add_child(vfs_create_node(read[k - 1], entries[k][1], entries[k][2]),
                           d, Len(read[k - 1].type) + 1)
  IN  /\ Len(fs.type) + Len(entries) <= MaxNodes
      /\ fs' = read[Len(entries)]

vfs_mount_filesystem(p, entries) ==
  /\ parse_path(p) # NULL
  /\ fat_read_directory(parse_path(p), entries)

VfsNext ==
  \/ \E p \in Path : vfs_mkdir(p) \/ vfs_create(p) \/ vfs_rmdir(p) \/ vfs_unlink(p)
  \/ \E p \in Path, entries \in SeqOf(Name \X Kind, 2) \ {<<>>} :
       vfs_mount_filesystem(p, entries)

VfsSpec == VfsInit /\ [][VfsNext]_vfsVars

(* The links form a tree: the children of a node are those that name it as *)
(* their parent, each is met once on a walk that ends, and only            *)
(* directories have any.  Whatever is created, mounted twice or taken out  *)
(* between its siblings, no other node falls out of its directory.         *)
TreeLinked ==
  \A d \in Created :
    /\ ToSet(Children(d)) = {n \in Created : fs.parent[n] = d}
    /\ IsInjective(Children(d))
    /\ Children(d) # <<>> => /\ fs.type[d] = "dir"
                             /\ fs.sibling[Last(Children(d))] = NULL
=============================================================================

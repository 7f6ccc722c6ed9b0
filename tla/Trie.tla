-------------------------------- MODULE Trie --------------------------------
(***************************************************************************)
(* The trie that holds the state (utils/trie): put and get descend from    *)
(* the root along the nibbles of the key, nodes are stored under their     *)
(* hashes, first in the cache of the trie, with commit in the database.    *)
(*                                                                         *)
(* Hashes are injective: a node stands for its own hash.  Keys are hashes, *)
(* too: all of one length, and no two differ in their last nibble only.    *)
(* The program also caches nodes it has read from the database; as nothing *)
(* is ever deleted there, that changes nothing and is left out.            *)
(***************************************************************************)
EXTENDS Integers, Sequences, FiniteSets, SequencesExt, FiniteSetsExt

CONSTANTS
    Nibble,     \* the digits of a key
    Key,        \* the keys, sequences of nibbles
    Value,      \* what is stored under a key
    Garbage,    \* the last character of 'none', taken for a value
    MaxPuts,    \* bound: puts in one behaviour
    MaxCommits  \* bound: different roots committed

ASSUME KeysAreHashes ==
    \A k, m \in Key :
        /\ k \in Seq(Nibble) /\ k # <<>>
        /\ Len(k) = Len(m)
        /\ Front(k) = Front(m) => k = m

\* The node 'none', the empty slot of a branch, NONE_ROOT.
NoNode == [type |-> "none"]

ASSUME NoneIsNoValue == NoNode \notin Value

VARIABLES
    root,       \* the root of the trie
    cache,      \* the nodes in the cache of the trie
    db,         \* the nodes in the database
    committed,  \* history: the roots commit has returned
    open,       \* a wagon has set the root and not yet cleared the trie
    puts,       \* puts so far
    work,       \* derived: what get returns for every key
    saved       \* derived: what get returns below the committed roots

vars == <<root, cache, db, committed, open, puts, work, saved>>

-----------------------------------------------------------------------------
\* Nodes.

\* add_prefix: the first one or two nibbles of a path give the type of the node
\* and make the length even.
AddPrefix(path, type) ==
    LET odd == Len(path) % 2 = 1
    IN  CASE type = "leaf"      -> (IF odd THEN <<3>> ELSE <<2, 0>>) \o path
          [] type = "extension" -> (IF odd THEN <<1>> ELSE <<0, 0>>) \o path

\* Mutant: an extension of odd length is taken for one of even length.
RemovePrefixOfLeaf(path) ==
    IF path[1] = 3 THEN Tail(path) ELSE Tail(Tail(path))

RemovePrefix(path) ==
    IF path[1] \in {1, 3} THEN Tail(path) ELSE Tail(Tail(path))

\* Leaves and extensions are pairs of a path and a value or a child, branches
\* have a slot for every nibble and a value.
Pair(path, type, value) == [path |-> AddPrefix(path, type), value |-> value]
Branch(slots, value) == [slots |-> slots, value |-> value]
NoSlots == [i \in Nibble |-> NoNode]

DecodeType(node) ==
    CASE node = NoNode            -> "none"
      [] "slots" \in DOMAIN node  -> "branch"
      [] OTHER -> IF node.path[1] \in {0, 1} THEN "extension" ELSE "leaf"

\* decode_common_range: how many nibbles two paths share.
CommonRange(p, q) ==
    Min({i \in 0..Len(p) : i = Len(p) \/ i = Len(q) \/ p[i + 1] # q[i + 1]})

First(path, common) == SubSeq(path, 1, common)
Rest(path, common) == SubSeq(path, common + 1, Len(path))

\* _get_node: a node is found in the cache or in the database.
Node(store, hash) == IF hash \in store THEN hash ELSE NoNode

\* What can be left of a key on the way down.
Remainder == UNION {Suffixes(k) : k \in Key}

-----------------------------------------------------------------------------
\* put.  A result is the node that replaces the old one and the nodes that
\* _set_node has put into the cache on the way; add[key][node] is the result of the
\* calls further down.

\* Mutant: the child is not stored.
AddBranchUnstored(store, add, node, key, value) ==
    LET child == add[Tail(key)][Node(store, node.slots[key[1]])]
    IN  [node |-> Branch([node.slots EXCEPT ![key[1]] = child.node], node.value),
         made |-> child.made]

AddBranch(store, add, node, key, value) ==
    IF key = <<>> THEN [node |-> Branch(node.slots, value), made |-> {}]
    ELSE LET child == add[Tail(key)][Node(store, node.slots[key[1]])]
         IN  [node |-> Branch([node.slots EXCEPT ![key[1]] = child.node], node.value),
              made |-> child.made \cup {child.node}]

\* Mutant: an extension of one nibble leaves one of none.
AddNewBranchUnshortened(type, node, parent, current, value) ==
    LET old == Pair(Tail(parent), type, node.value)
        new == Pair(Tail(current), "leaf", value)
    IN  [node |-> Branch([NoSlots EXCEPT ![parent[1]] = old, ![current[1]] = new], NoNode),
         made |-> {old, new}]

\* add_new_branch: the path of the node and the key part here.
AddNewBranch(type, node, parent, current, value) ==
    LET direct == type = "extension" /\ Len(parent) = 1
        old == IF direct THEN node.value ELSE Pair(Tail(parent), type, node.value)
        new == Pair(Tail(current), "leaf", value)
        slots == [NoSlots EXCEPT ![parent[1]] = old]
        kept == IF direct THEN {} ELSE {old}
    IN  IF current = <<>> THEN [node |-> Branch(slots, value), made |-> kept]
        ELSE [node |-> Branch([slots EXCEPT ![current[1]] = new], NoNode),
              made |-> kept \cup {new}]

\* The pair ends on the way to the key: go on below an extension, make a branch
\* of a leaf.
AddBelow(store, add, type, node, current, value) ==
    IF type = "extension" THEN add[current][Node(store, node.value)]
    ELSE LET new == Pair(Tail(current), "leaf", value)
         IN  [node |-> Branch([NoSlots EXCEPT ![current[1]] = new], node.value), made |-> {new}]

\* add_encode_node.
AddPair(store, add, type, node, key, value) ==
    LET path == RemovePrefix(node.path)
        common == CommonRange(path, key)
        prefix == First(path, common)
        parent == Rest(path, common)
        current == Rest(key, common)
        next == IF parent = <<>> THEN AddBelow(store, add, type, node, current, value)
                ELSE AddNewBranch(type, node, parent, current, value)
    IN  IF parent = <<>> /\ current = <<>> /\ type = "leaf"
        THEN [node |-> Pair(path, type, value), made |-> {}]
        ELSE IF prefix = <<>> THEN next
        ELSE [node |-> Pair(prefix, "extension", next.node), made |-> next.made \cup {next.node}]

AddNode(store, add, node, key, value) ==
    LET type == DecodeType(node)
    IN  CASE type = "none"   -> [node |-> Pair(key, "leaf", value), made |-> {}]
          [] type = "branch" -> AddBranch(store, add, node, key, value)
          [] OTHER           -> AddPair(store, add, type, node, key, value)

Add(store, value) ==
    LET add[key \in Remainder] ==
            [node \in store \cup {NoNode} |-> AddNode(store, add, node, key, value)]
    IN  add

-----------------------------------------------------------------------------
\* get.

\* get_decode_node: NoNode where get raises KeyError.  A key that ends at a node
\* that does not exist reads the last character of 'none'.
DecodeNode(store, get, node, key) ==
    LET type == DecodeType(node)
        path == RemovePrefix(node.path)
    IN  IF key = <<>> THEN IF node = NoNode THEN Garbage ELSE node.value
        ELSE CASE type = "none"      -> NoNode
               [] type = "branch"    -> get[Tail(key)][Node(store, node.slots[key[1]])]
               [] type = "extension" ->
                    IF IsPrefix(path, key)
                    THEN get[Rest(key, Len(path))][Node(store, node.value)]
                    ELSE NoNode
               [] type = "leaf"      -> IF key = path THEN node.value ELSE NoNode

GetDecodeNode(store) ==
    LET get[key \in Remainder] ==
            [node \in store \cup {NoNode} |-> DecodeNode(store, get, node, key)]
    IN  get

Contents(store, hash) == [k \in Key |-> GetDecodeNode(store)[k][Node(store, hash)]]

-----------------------------------------------------------------------------

\* genesis_declare: a trie at NONE_ROOT in an empty database.
Init ==
    /\ root = NoNode
    /\ cache = {}
    /\ db = {}
    /\ committed = {}
    /\ open = TRUE
    /\ puts = 0
    /\ work = Contents({}, root)
    /\ saved = {}

Put(k, v) ==
    /\ open
    /\ puts < MaxPuts
    /\ LET next == Add(cache \cup db, v)[k][Node(cache \cup db, root)] IN
        /\ root' = next.node
        /\ cache' = cache \cup next.made \cup {next.node}
    /\ puts' = puts + 1
    /\ UNCHANGED <<db, committed, open>>

\* commit: one batch.
Commit ==
    /\ open
    /\ root # NoNode
    /\ db' = db \cup cache
    /\ committed' = committed \cup {root}
    /\ Cardinality(committed') <= MaxCommits
    /\ UNCHANGED <<root, cache, open, puts>>

\* clear: the cache is emptied, the root stays what it is.
Clear ==
    /\ cache' = {}
    /\ open' = FALSE
    /\ UNCHANGED <<root, db, committed, puts>>

\* StateDB.set_root: a new trie, for the next block or in a new process.
SetRoot(hash) ==
    /\ hash \in committed
    /\ root' = hash
    /\ cache' = {}
    /\ open' = TRUE
    /\ UNCHANGED <<db, committed, puts>>

\* What can be read, evaluated once per step.
Observe ==
    \E store \in {cache' \cup db'}, hash \in {root'} :
        /\ work' = Contents(store, hash)
        /\ saved' = {Contents(store, version) : version \in committed'}

Next ==
    /\ \/ \E k \in Key, v \in Value : Put(k, v)
       \/ Commit
       \/ Clear
       \/ \E hash \in committed : SetRoot(hash)
    /\ Observe

Spec == Init /\ [][Next]_vars

-----------------------------------------------------------------------------
\* Properties.

\* The nodes a node refers to.
Children(node) ==
    CASE DecodeType(node) = "branch"    -> {node.slots[i] : i \in Nibble} \ {NoNode}
      [] DecodeType(node) = "extension" -> {node.value}
      [] OTHER                          -> {}

\* What is stored can be read down to the leaves: every node in the database has
\* its children there, whatever was put, cleared or loaded before the commit that
\* wrote it, and every node in the cache has them in one of the two.
NothingDangles ==
    /\ \A node \in db : Children(node) \subseteq db
    /\ \A node \in cache : Children(node) \subseteq cache \cup db
    /\ committed \subseteq db

\* The one trie of a map, top down: a leaf for a single key, an extension for
\* what all keys share, a branch where they part.
Below(map, p) == {k \in Key : IsPrefix(p, k) /\ map[k] # NoNode}

PartAt(keys, q) ==
    /\ \A k \in keys : IsPrefix(q, k)
    /\ \E k, m \in keys : k[Len(q) + 1] # m[Len(q) + 1]

Parting(keys) == CHOOSE q \in UNION {Prefixes(k) : k \in keys} : PartAt(keys, q)

CanonicalBranch(map, trie, q) ==
    Branch([i \in Nibble |-> IF Below(map, Append(q, i)) = {} THEN NoNode ELSE trie[Append(q, i)]],
           NoNode)

CanonicalNode(map, trie, p) ==
    LET keys == Below(map, p)
        parting == Parting(keys)
    IN  IF \E k \in Key : keys = {k}
        THEN LET k == CHOOSE k \in keys : TRUE
             IN  Pair(Rest(k, Len(p)), "leaf", map[k])
        ELSE IF parting = p THEN CanonicalBranch(map, trie, p)
        ELSE Pair(Rest(parting, Len(p)), "extension", CanonicalBranch(map, trie, parting))

Canonical(map) ==
    LET trie[p \in UNION {Prefixes(k) : k \in Below(map, <<>>)}] == CanonicalNode(map, trie, p)
    IN  IF Below(map, <<>>) = {} THEN NoNode ELSE trie[<<>>]

\* The root depends on the contents only: not on the order of the puts, not on
\* values that were overwritten, not on where commits and clears came between.
\* Nodes that executed the same block agree on hash_state_root because of this.
RootIsCanonical ==
    Node(cache \cup db, root) = Canonical(work)

\* The trie is a map with versions (StateMap): put changes one key, a committed
\* root gives back the contents it was committed with for ever.
Map == INSTANCE StateMap WITH None <- NoNode, work <- work, saved <- saved
Implements == Map!Spec

=============================================================================

------------------------ MODULE RouterManagerProofs -------------------------
(***************************************************************************)
(* Proofs about RouterManager for every set of methods, paths and          *)
(* handlers: its invariants, and that it implements RouteTable.            *)
(***************************************************************************)
EXTENDS RouterManager, TLAPS

USE RoutingTreeAssumption, PathsAssumption

(* The elements add and get walk for a path are a sequence of segments. *)
LEMMA KeyType ==
  ASSUME NEW p \in Path
  PROVE  /\ AddKey(p) \in Seq(Elems \cup {Slash})
         /\ GetKey(p) \in Seq(Elems \cup {Slash})
  <1>1. p.lead \in Elems /\ p.elems \in Seq(Elems)
    BY DEF Path
  <1>2. p.elems \in Seq(Elems \cup {Slash})
    BY <1>1
  <1>3. /\ <<>> \in Seq(Elems \cup {Slash})
        /\ <<Slash>> \in Seq(Elems \cup {Slash})
        /\ <<p.lead>> \in Seq(Elems \cup {Slash})
    BY <1>1
  <1>4. AddKey(p) \in {<<>>, <<Slash>>, p.elems}
    BY DEF AddKey
  <1>5. GetKey(p) \in {<<>>, <<Slash>>, <<p.lead>>, p.elems}
    BY DEF GetKey
  <1>. QED BY <1>2, <1>3, <1>4, <1>5

(* A path that add accepts is looked up under the key it was added with. *)
LEMMA SameKey ==
  ASSUME NEW p \in Path, AddKey(p) # <<>>
  PROVE  GetKey(p) = AddKey(p)
  BY DEF Path, AddKey, GetKey, RootPath, LengthIs0, LengthIs1

(* Two paths with one key are the same, but for text before the first      *)
(* slash.                                                                  *)
LEMMA RootedKey ==
  ASSUME NEW p \in Path, NEW q \in Path, Rooted(p), AddKey(q) # <<>>, AddKey(q) = GetKey(p)
  PROVE  q = p \/ (~Rooted(q) /\ q.elems = p.elems)
  <1>1. /\ p.lead = Empty /\ p.elems \in Seq(Elems) /\ p.elems # <<>>
        /\ q.lead \in Elems /\ q.elems \in Seq(Elems)
        /\ p = [lead |-> p.lead, elems |-> p.elems] /\ q = [lead |-> q.lead, elems |-> q.elems]
    BY DEF Path, Rooted
  <1>2. Slash \notin Elems
    BY DEF Elems, Slash, Empty
  <1>3. ASSUME NEW s \in Seq(Elems) PROVE s # <<Slash>>
    <2>. SUFFICES ASSUME s = <<Slash>> PROVE FALSE
      OBVIOUS
    <2>1. s[1] = Slash /\ Len(s) = 1
      OBVIOUS
    <2>2. s[1] \in Elems
      BY <2>1
    <2>. QED BY <1>2, <2>1, <2>2
  <1>4. AddKey(q) = IF q = RootPath THEN <<Slash>> ELSE q.elems
    <2>1. ~LengthIs0(q) /\ (LengthIs1(q) => q = RootPath)
      BY DEF AddKey, LengthIs0, LengthIs1, RootPath, Path
    <2>2. q = RootPath => LengthIs1(q)
      BY DEF LengthIs1
    <2>. QED BY <2>1, <2>2 DEF AddKey
  <1>5. GetKey(p) = IF p = RootPath THEN <<Slash>> ELSE p.elems
    <2>1. ~LengthIs0(p) /\ (LengthIs1(p) <=> p = RootPath)
      BY <1>1 DEF LengthIs0, LengthIs1
    <2>. QED BY <2>1 DEF GetKey
  <1>6. p = RootPath <=> q = RootPath
    BY <1>1, <1>3, <1>4, <1>5
  <1>7. CASE p # RootPath
    <2>1. q.elems = p.elems
      BY <1>4, <1>5, <1>6, <1>7
    <2>. QED BY <1>1, <2>1 DEF Rooted
  <1>. QED BY <1>6, <1>7

(* The nested hash maps as one function: every node of it hangs from the   *)
(* node of its parent path, as a node of a map within a node does.         *)
PrefixClosed(t) == \A n \in DOMAIN t : Walk(n[1], n[2]) \subseteq DOMAIN t
NodesReachable == PrefixClosed(rtree)

(* The nodes above a node are above every node below it. *)
LEMMA WalkNested ==
  ASSUME NEW m \in Methods, NEW k \in Key, NEW n \in Walk(m, k)
  PROVE  /\ n \in Node
         /\ Walk(n[1], n[2]) \subseteq Walk(m, k)
  <1>1. PICK i \in 1..(Len(k) - 1) : n = <<m, SubSeq(k, 1, i)>>
    BY DEF Walk
  <1>2. k \in Seq(Elems \cup {Slash}) /\ Len(k) \in Nat
    BY DEF Key
  <1>3. /\ SubSeq(k, 1, i) \in Seq(Elems \cup {Slash})
        /\ Len(SubSeq(k, 1, i)) = i
    BY <1>2
  <1>4. SubSeq(k, 1, i) # <<>>
    BY <1>3
  <1>5. n \in Node
    BY <1>1, <1>3, <1>4 DEF Node, Key
  <1>6. ASSUME NEW j \in 1..(i - 1)
        PROVE  SubSeq(SubSeq(k, 1, i), 1, j) = SubSeq(k, 1, j)
    BY <1>2, <1>3
  <1>7. Walk(n[1], n[2]) \subseteq Walk(m, k)
    BY <1>1, <1>2, <1>3, <1>6 DEF Walk
  <1>. QED BY <1>5, <1>7

(* What one registration does to a tree: nothing that has a handler is     *)
(* touched, the only handler that may appear is the new one, and no node   *)
(* is left without its ancestors.                                          *)
LEMMA AddEffect ==
  ASSUME NEW t, IsTree(t), PrefixClosed(t),
         NEW m \in Methods, NEW p \in Path, NEW h \in Handlers \cup {NoHandler},
         NEW r, r = add(t, m, p, h), NEW n, n = <<m, AddKey(p)>>
  PROVE  /\ r.ok \in BOOLEAN
         /\ IsTree(r.tree) /\ PrefixClosed(r.tree)
         /\ DOMAIN t \subseteq DOMAIN r.tree
         /\ \A x \in DOMAIN t : t[x] # NoHandler => r.tree[x] = t[x]
         /\ \A x \in DOMAIN r.tree :
              r.tree[x] # NoHandler /\ ~(x \in DOMAIN t /\ t[x] # NoHandler) =>
                r.ok /\ x = n
         /\ r.ok <=> AddKey(p) # <<>> /\ ~(n \in DOMAIN t /\ t[n] # NoHandler)
         /\ r.ok => n \in DOMAIN r.tree /\ r.tree[n] = h
  <1>1. CASE AddKey(p) = <<>>
    BY <1>1 DEF add
  <1>2. CASE AddKey(p) # <<>>
    <2>. DEFINE k == AddKey(p)
                g == Grow(t, m, k)
    <2>1. k \in Key /\ n \in Node /\ n = <<m, k>>
      BY <1>2, KeyType DEF Key, Node
    <2>2. \A x \in Walk(m, k) : x \in Node /\ Walk(x[1], x[2]) \subseteq Walk(m, k)
      BY <2>1, WalkNested
    <2>3. /\ g = [x \in DOMAIN g |-> g[x]]
          /\ DOMAIN g = DOMAIN t \cup Walk(m, k)
          /\ \A x \in DOMAIN g : g[x] = IF x \in DOMAIN t THEN t[x] ELSE NoHandler
      BY DEF Grow
    <2>4. IsTree(g)
      BY <2>2, <2>3 DEF IsTree
    <2>5. r = set_elem(g, n, h)
      BY <1>2 DEF add
    <2>6. n \notin Walk(m, k)
      <3>1. ASSUME NEW i \in 1..(Len(k) - 1) PROVE SubSeq(k, 1, i) # k
        BY <2>1 DEF Key
      <3>. QED BY <3>1, <2>1 DEF Walk
    <2>7. CASE n \in DOMAIN t /\ t[n] # NoHandler
      <3>1. r.ok = FALSE /\ r.tree = g
        BY <2>3, <2>5, <2>7 DEF set_elem
      <3>2. PrefixClosed(g)
        BY <2>2, <2>3 DEF PrefixClosed
      <3>. QED BY <1>2, <2>3, <2>4, <2>7, <3>1, <3>2
    <2>8. CASE ~(n \in DOMAIN t /\ t[n] # NoHandler)
      <3>1. r.ok = TRUE /\ r.tree = Put(g, n, h)
        BY <2>3, <2>5, <2>6, <2>8 DEF set_elem
      <3>2. /\ r.tree = [x \in DOMAIN r.tree |-> r.tree[x]]
            /\ DOMAIN r.tree = DOMAIN g \cup {n}
            /\ \A x \in DOMAIN r.tree : r.tree[x] = IF x = n THEN h ELSE g[x]
        BY <3>1 DEF Put
      <3>3. IsTree(r.tree)
        BY <2>1, <2>4, <3>2 DEF IsTree
      <3>4. Walk(n[1], n[2]) \subseteq DOMAIN g
        BY <2>1, <2>3
      <3>5. PrefixClosed(r.tree)
        BY <2>2, <2>3, <3>2, <3>4 DEF PrefixClosed
      <3>6. \A x \in DOMAIN t : x \in DOMAIN r.tree /\ (t[x] # NoHandler => r.tree[x] = t[x])
        BY <2>3, <2>8, <3>2
      <3>7. \A x \in DOMAIN r.tree :
              r.tree[x] # NoHandler /\ ~(x \in DOMAIN t /\ t[x] # NoHandler) => x = n
        BY <2>3, <3>2
      <3>8. n \in DOMAIN r.tree /\ r.tree[n] = h
        BY <3>2
      <3>. QED BY <1>2, <2>8, <3>1, <3>3, <3>5, <3>6, <3>7, <3>8
    <2>. QED BY <2>7, <2>8
  <1>. QED BY <1>1, <1>2

(* In a tree without orphans get finds what is stored under its key. *)
LEMMA GetStored ==
  ASSUME NEW t, IsTree(t), PrefixClosed(t),
         NEW m \in Methods, NEW p \in Path, GetKey(p) # <<>>
  PROVE  get(t, m, p) = IF <<m, GetKey(p)>> \in DOMAIN t
                          THEN t[<<m, GetKey(p)>>] ELSE NoHandler
  <1>1. <<m, GetKey(p)>> \in DOMAIN t => Walk(m, GetKey(p)) \subseteq DOMAIN t
    BY DEF PrefixClosed
  <1>. QED BY <1>1 DEF get, find

-----------------------------------------------------------------------------
(* The handlers in the tree are exactly the accepted ones: neither half of *)
(* it is RegisteredFound or OnlyRegistered, which speak of what get finds. *)
Stored ==
  /\ \A a \in accepted :
       /\ AddKey(a[2]) # <<>>
       /\ <<a[1], AddKey(a[2])>> \in DOMAIN rtree
       /\ rtree[<<a[1], AddKey(a[2])>>] = a[3]
  /\ \A n \in DOMAIN rtree :
       rtree[n] # NoHandler =>
         \E a \in accepted : n = <<a[1], AddKey(a[2])>> /\ a[3] = rtree[n]

IInv == TypeOK /\ NodesReachable /\ Stored

(* The tree of a new router has no node. *)
LEMMA EmptyTreeFacts == IsTree(EmptyTree) /\ PrefixClosed(EmptyTree) /\ DOMAIN EmptyTree = {}
  BY DEF IsTree, PrefixClosed, EmptyTree

(* Before the first call there is nothing to find. *)
LEMMA InitIInv == Init => IInv
  BY EmptyTreeFacts DEF Init, IInv, TypeOK, NodesReachable, Stored

(* Every call keeps the invariant. *)
LEMMA NextIInv == IInv /\ [Next]_vars => IInv'
  <1>. SUFFICES ASSUME IInv, [Next]_vars PROVE IInv'
    OBVIOUS
  <1>1. CASE ManagerInit
    BY <1>1, EmptyTreeFacts DEF ManagerInit, IInv, TypeOK, NodesReachable, Stored
  <1>2. CASE Clear
    BY <1>2, EmptyTreeFacts DEF Clear, IInv, TypeOK, NodesReachable, Stored
  <1>3. ASSUME NEW m \in Methods, NEW p \in Paths, NEW h \in Handlers \cup {NoHandler},
               Register(m, p, h)
        PROVE  IInv'
    <2>1. CASE ~router
      BY <1>3, <2>1 DEF Register, IInv, TypeOK, NodesReachable, Stored
    <2>2. CASE router
      <3>. DEFINE r == add(rtree, m, p, h)
                  n == <<m, AddKey(p)>>
      <3>1. /\ router' = router /\ rtree' = r.tree
            /\ ret' = IF r.ok THEN "true" ELSE "false"
            /\ accepted' = IF r.ok /\ h # NoHandler
                             THEN accepted \cup {<<m, p, h>>} ELSE accepted
        BY <1>3, <2>2 DEF Register
      <3>2. p \in Path /\ IsTree(rtree) /\ PrefixClosed(rtree)
        BY DEF IInv, TypeOK, NodesReachable
      <3>3. /\ r.ok \in BOOLEAN
            /\ IsTree(r.tree) /\ PrefixClosed(r.tree)
            /\ DOMAIN rtree \subseteq DOMAIN r.tree
            /\ \A x \in DOMAIN rtree : rtree[x] # NoHandler => r.tree[x] = rtree[x]
            /\ \A x \in DOMAIN r.tree :
                 r.tree[x] # NoHandler /\ ~(x \in DOMAIN rtree /\ rtree[x] # NoHandler) =>
                   r.ok /\ x = n
            /\ r.ok <=> AddKey(p) # <<>> /\ ~(n \in DOMAIN rtree /\ rtree[n] # NoHandler)
            /\ r.ok => n \in DOMAIN r.tree /\ r.tree[n] = h
        BY <3>2, AddEffect
      <3>. HIDE DEF r
      <3>4. TypeOK'
        BY <3>1, <3>3 DEF IInv, TypeOK
      <3>5. NodesReachable'
        BY <3>1, <3>3 DEF NodesReachable
      <3>6. Stored'
        <4>1. ASSUME NEW a \in accepted'
              PROVE  /\ AddKey(a[2]) # <<>>
                     /\ <<a[1], AddKey(a[2])>> \in DOMAIN r.tree
                     /\ r.tree[<<a[1], AddKey(a[2])>>] = a[3]
          <5>1. CASE a \in accepted
            <6>1. a[3] \in Handlers
              BY <5>1 DEF IInv, TypeOK
            <6>. QED BY <3>3, <5>1, <6>1 DEF IInv, Stored
          <5>2. CASE a = <<m, p, h>> /\ r.ok
            BY <3>3, <5>2
          <5>. QED BY <3>1, <5>1, <5>2
        <4>2. ASSUME NEW x \in DOMAIN r.tree, r.tree[x] # NoHandler
              PROVE  \E a \in accepted' : x = <<a[1], AddKey(a[2])>> /\ a[3] = r.tree[x]
          <5>1. CASE x \in DOMAIN rtree /\ rtree[x] # NoHandler
            BY <3>1, <3>3, <5>1 DEF IInv, Stored
          <5>2. CASE ~(x \in DOMAIN rtree /\ rtree[x] # NoHandler)
            <6>1. r.ok /\ x = n /\ r.tree[x] = h
              BY <3>3, <4>2, <5>2
            <6>2. <<m, p, h>> \in accepted'
              BY <3>1, <4>2, <6>1
            <6>. QED BY <6>1, <6>2
          <5>. QED BY <5>1, <5>2
        <4>. QED BY <3>1, <4>1, <4>2 DEF Stored
      <3>. QED BY <3>4, <3>5, <3>6 DEF IInv
    <2>. QED BY <2>1, <2>2
  <1>4. ASSUME NEW m \in Methods \cup {UNKNOWN}, NEW p \in Paths, Route(m, p)
        PROVE  IInv'
    <2>1. get(rtree, m, p) \in Handlers \cup {NoHandler}
      BY DEF get, find, IInv, TypeOK, IsTree
    <2>. QED BY <1>4, <2>1 DEF Route, IInv, TypeOK, NodesReachable, Stored
  <1>5. CASE UNCHANGED vars
    BY <1>5 DEF vars, IInv, TypeOK, NodesReachable, Stored
  <1>. QED BY <1>1, <1>2, <1>3, <1>4, <1>5 DEF Next

(* The calls of RouterManager keep the tree and the results well typed. *)
THEOREM TypeCorrect == Spec => []TypeOK
  <1>1. IInv => TypeOK
    BY DEF IInv
  <1>. QED BY <1>1, InitIInv, NextIInv, PTL DEF Spec

(* A registration that returned true is found by every later lookup of its *)
(* path, for all paths and in any order of calls.                          *)
THEOREM RegisteredFoundAlways == Spec => []RegisteredFound
  <1>1. ASSUME IInv PROVE RegisteredFound
    <2>1. ASSUME NEW a \in accepted PROVE get(rtree, a[1], a[2]) = a[3]
      <3>1. a[1] \in Methods /\ a[2] \in Path
        BY <1>1 DEF IInv, TypeOK
      <3>2. AddKey(a[2]) # <<>> /\ GetKey(a[2]) = AddKey(a[2])
        BY <1>1, <3>1, SameKey DEF IInv, Stored
      <3>3. get(rtree, a[1], a[2]) = IF <<a[1], AddKey(a[2])>> \in DOMAIN rtree
                                       THEN rtree[<<a[1], AddKey(a[2])>>] ELSE NoHandler
        BY <1>1, <3>1, <3>2, GetStored DEF IInv, TypeOK, NodesReachable
      <3>. QED BY <1>1, <3>3 DEF IInv, Stored
    <2>. QED BY <2>1 DEF RegisteredFound
  <1>. QED BY <1>1, InitIInv, NextIInv, PTL DEF Spec

(* A path that begins with a slash is answered by nothing but what some    *)
(* registration of the same method and path put there and was told it did; *)
(* the exception are registrations with text before their first slash.     *)
THEOREM OnlyRegisteredAlways == Spec => []OnlyRegistered
  <1>1. ASSUME IInv PROVE OnlyRegistered
    <2>1. ASSUME NEW m \in Methods \cup {UNKNOWN}, NEW p \in Paths,
                 Rooted(p), get(rtree, m, p) # NoHandler
          PROVE  \E a \in accepted :
                   /\ a[1] = m /\ a[3] = get(rtree, m, p)
                   /\ a[2] = p \/ (~Rooted(a[2]) /\ a[2].elems = p.elems)
      <3>1. m \in Methods /\ GetKey(p) # <<>> /\ p \in Path
        BY <2>1 DEF get
      <3>2. /\ <<m, GetKey(p)>> \in DOMAIN rtree
            /\ rtree[<<m, GetKey(p)>>] = get(rtree, m, p)
        BY <1>1, <2>1, <3>1, GetStored DEF IInv, TypeOK, NodesReachable
      <3>3. PICK a \in accepted : /\ <<m, GetKey(p)>> = <<a[1], AddKey(a[2])>>
                                  /\ a[3] = rtree[<<m, GetKey(p)>>]
        BY <1>1, <2>1, <3>2 DEF IInv, Stored
      <3>4. a[2] \in Path /\ AddKey(a[2]) = GetKey(p) /\ AddKey(a[2]) # <<>>
        BY <1>1, <3>1, <3>3 DEF IInv, TypeOK
      <3>5. a[2] = p \/ (~Rooted(a[2]) /\ a[2].elems = p.elems)
        BY <2>1, <3>1, <3>4, RootedKey
      <3>. QED BY <3>2, <3>3, <3>5
    <2>. QED BY <2>1 DEF OnlyRegistered
  <1>. QED BY <1>1, InitIInv, NextIInv, PTL DEF Spec

-----------------------------------------------------------------------------
LEMMA EmptyTable ==
  ASSUME rtree = EmptyTree PROVE Table = [k \in {} |-> NoHandler]
  BY DEF EmptyTree, Table, Claims

(* The manager starts as the empty table does. *)
LEMMA InitRefines == Init => RT!Init
  BY EmptyTable DEF Init, RT!Init

(* Every call is a call on the flat table. *)
LEMMA NextRefines == IInv /\ [Next]_vars => [RT!Next]_RT!vars
  <1>. SUFFICES ASSUME IInv, [Next]_vars PROVE [RT!Next]_RT!vars
    OBVIOUS
  <1>1. CASE ManagerInit
    <2>1. Table' = [k \in {} |-> NoHandler]
      BY <1>1 DEF ManagerInit, EmptyTree, Table, Claims
    <2>. QED BY <1>1, <2>1 DEF ManagerInit, RT!Next, RT!Open
  <1>2. CASE Clear
    <2>1. Table' = [k \in {} |-> NoHandler]
      BY <1>2 DEF Clear, EmptyTree, Table, Claims
    <2>. QED BY <1>2, <2>1 DEF Clear, RT!Next, RT!Shut
  <1>3. ASSUME NEW m \in Methods, NEW p \in Paths, NEW h \in Handlers \cup {NoHandler},
               Register(m, p, h)
        PROVE  RT!Next
    <2>1. CASE ~router
      <3>1. Table' = Table
        BY <1>3, <2>1 DEF Register, Table, Claims
      <3>. QED BY <1>3, <2>1, <3>1 DEF Register, RT!Next, RT!Unavailable
    <2>2. CASE router
      <3>. DEFINE r == add(rtree, m, p, h)
                  n == <<m, AddKey(p)>>
                  route == <<m, p>>
      <3>1. /\ router' = router /\ rtree' = r.tree
            /\ ret' = IF r.ok THEN "true" ELSE "false"
        BY <1>3, <2>2 DEF Register
      <3>2. p \in Path /\ IsTree(rtree) /\ PrefixClosed(rtree)
        BY DEF IInv, TypeOK, NodesReachable
      <3>3. /\ r.ok \in BOOLEAN
            /\ DOMAIN rtree \subseteq DOMAIN r.tree
            /\ \A x \in DOMAIN rtree : rtree[x] # NoHandler => r.tree[x] = rtree[x]
            /\ \A x \in DOMAIN r.tree :
                 r.tree[x] # NoHandler /\ ~(x \in DOMAIN rtree /\ rtree[x] # NoHandler) =>
                   r.ok /\ x = n
            /\ r.ok <=> AddKey(p) # <<>> /\ ~(n \in DOMAIN rtree /\ rtree[n] # NoHandler)
            /\ r.ok => n \in DOMAIN r.tree /\ r.tree[n] = h
        BY <3>2, AddEffect
      <3>. HIDE DEF r
      <3>4. /\ route \in Routes
            /\ RegKey[route] = IF AddKey(p) = <<>> THEN NoKey ELSE n
        BY DEF Routes, RegKey
      <3>5. n # NoKey
        BY DEF NoKey
      <3>6. /\ Table = [x \in Claims |-> rtree[x]]
            /\ Table' = [x \in Claims' |-> r.tree[x]]
            /\ Claims' = {x \in DOMAIN r.tree : r.tree[x] # NoHandler}
            /\ DOMAIN Table = Claims
        BY <3>1 DEF Table, Claims
      <3>7. CASE ~r.ok
        <4>1. Claims' = Claims
          BY <3>3, <3>6, <3>7 DEF Claims
        <4>2. Table' = Table
          BY <3>3, <3>6, <4>1 DEF Claims
        <4>3. RT!Refuse(route)
          BY <2>2, <3>1, <3>3, <3>4, <3>5, <3>6, <3>7, <4>2 DEF RT!Refuse, Claims
        <4>. QED BY <3>4, <4>3 DEF RT!Next
      <3>8. CASE r.ok
        <4>1. n \notin Claims /\ AddKey(p) # <<>>
          BY <3>3, <3>8 DEF Claims
        <4>2. CASE h = NoHandler
          <5>1. Claims' = Claims
            BY <3>3, <3>6, <3>8, <4>2 DEF Claims
          <5>2. Table' = Table
            BY <3>3, <3>6, <5>1 DEF Claims
          <5>. QED BY <2>2, <3>1, <3>4, <3>5, <3>6, <3>8, <4>1, <4>2, <5>2
                   DEF RT!Next, RT!Claim
        <4>3. CASE h # NoHandler
          <5>1. Claims' = Claims \cup {n}
            BY <3>3, <3>6, <3>8, <4>3 DEF Claims
          <5>2. \A x \in Claims' : r.tree[x] = IF x = n THEN h ELSE Table[x]
            BY <3>3, <3>6, <3>8, <4>1, <5>1 DEF Claims
          <5>3. Table' = RT!Claimed(n, h)
            BY <3>6, <5>1, <5>2 DEF RT!Claimed
          <5>4. RT!Claim(route, h)
            BY <2>2, <3>1, <3>4, <3>5, <3>6, <3>8, <4>1, <4>3, <5>3 DEF RT!Claim
          <5>. QED BY <3>4, <5>4 DEF RT!Next
        <4>. QED BY <4>2, <4>3
      <3>. QED BY <3>3, <3>7, <3>8
    <2>. QED BY <2>1, <2>2
  <1>4. ASSUME NEW m \in Methods \cup {UNKNOWN}, NEW p \in Paths, Route(m, p)
        PROVE  RT!Next
    <2>. DEFINE route == <<m, p>>
                k == <<m, GetKey(p)>>
    <2>1. Table' = Table /\ router' = router
      BY <1>4 DEF Route, Table, Claims
    <2>2. CASE ~router
      BY <1>4, <2>1, <2>2 DEF Route, RT!Next, RT!Unavailable
    <2>3. CASE router
      <3>1. /\ route \in Routes
            /\ LookKey[route] = IF m \notin Methods \/ GetKey(p) = <<>> THEN NoKey ELSE k
        BY DEF Routes, LookKey
      <3>2. k # NoKey
        BY DEF NoKey
      <3>3. CASE m \notin Methods \/ GetKey(p) = <<>>
        <4>1. get(rtree, m, p) = NoHandler /\ LookKey[route] = NoKey
          BY <3>1, <3>3 DEF get
        <4>2. RT!Resolve(route)
          BY <1>4, <2>1, <2>3, <4>1 DEF Route, RT!Resolve
        <4>. QED BY <3>1, <4>2 DEF RT!Next
      <3>4. CASE m \in Methods /\ GetKey(p) # <<>>
        <4>1. get(rtree, m, p) = IF k \in DOMAIN rtree THEN rtree[k] ELSE NoHandler
          BY <3>4, GetStored DEF IInv, TypeOK, NodesReachable
        <4>2. get(rtree, m, p) = RT!Bound(k)
          BY <4>1 DEF RT!Bound, Table, Claims
        <4>3. RT!Resolve(route)
          BY <1>4, <2>1, <2>3, <3>1, <3>2, <3>4, <4>2 DEF Route, RT!Resolve
        <4>. QED BY <3>1, <4>3 DEF RT!Next
      <3>. QED BY <3>3, <3>4
    <2>. QED BY <2>2, <2>3
  <1>5. CASE UNCHANGED vars
    BY <1>5 DEF vars, RT!vars, Table, Claims
  <1>. QED BY <1>1, <1>2, <1>3, <1>4, <1>5 DEF Next

(* RouterManager implements the flat table of RouteTable: its callers      *)
(* cannot see the tree.                                                    *)
THEOREM Refinement == Spec => ImplementsTable
  BY InitRefines, NextRefines, InitIInv, NextIInv, PTL DEF Spec, ImplementsTable, RT!Spec
=============================================================================

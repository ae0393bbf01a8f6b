----------------------------- MODULE SyncProofs -----------------------------
(***************************************************************************)
(* What TLAPS proves of LiteLLMSync and DirectoryImport, for any tree, any *)
(* directories, and any number of edits, imports, rounds, failures and     *)
(* crashes.                                                                *)
(***************************************************************************)
EXTENDS DirectoryImport, SequenceTheorems, FiniteSetTheorems, TLAPS

\* The tree is a forest whose paths are those of the nodes on them.
TreeFit == path \in [Orgs -> Seq(Orgs)] /\ Whole(path)

\* A node and those above it.
Above(n) == {path[n][k] : k \in 1..Len(path[n])}

-----------------------------------------------------------------------------
(* Paths.                                                                   *)

\* The prefixes of a sequence.
LEMMA Prefix ==
  ASSUME NEW s \in Seq(Orgs), NEW k \in 0..Len(s)
  PROVE  /\ SubSeq(s, 1, k) \in Seq(Orgs) /\ Len(SubSeq(s, 1, k)) = k
         /\ \A j \in 1..k : SubSeq(s, 1, k)[j] = s[j]
  BY SubSeqProperties

\* What a path in a whole tree consists of.
LEMMA OnThePath ==
  ASSUME TreeFit, NEW n \in Orgs, NEW k \in 1..Len(path[n])
  PROVE  /\ path[n][k] \in Nodes
         /\ Len(path[path[n][k]]) = k
         /\ path[path[n][k]] = SubSeq(path[n], 1, k)
         /\ k = Len(path[n]) => path[n][k] = n
<1>1. path[n] \in Seq(Orgs) /\ path[n][k] \in Orgs
  BY DEF TreeFit
<1>2. path[path[n][k]] = SubSeq(path[n], 1, k) /\ (k = Len(path[n]) => path[n][k] = n)
  BY DEF TreeFit, Whole
<1>3. Len(SubSeq(path[n], 1, k)) = k
  BY <1>1, Prefix
<1>4. path[path[n][k]] # <<>>
  BY <1>2, <1>3
<1>. QED
  BY <1>1, <1>2, <1>3, <1>4 DEF Nodes

LEMMA NodeHasPath ==
  ASSUME TreeFit, NEW n \in Nodes
  PROVE  path[n] \in Seq(Orgs) /\ Len(path[n]) \in Nat \ {0} /\ path[n][Len(path[n])] = n
<1>1. n \in Orgs /\ path[n] \in Seq(Orgs) /\ path[n] # <<>>
  BY DEF Nodes, TreeFit
<1>2. Len(path[n]) \in Nat \ {0}
  BY <1>1, EmptySeq
<1>. QED
  BY <1>1, <1>2, OnThePath

\* The subtree of a node: its path is a prefix of what stands there.
LEMMA WithinSubtree ==
  ASSUME TreeFit, NEW n \in Nodes, NEW o \in Nodes
  PROVE  o \in Subtree(n) <=> Len(path[n]) <= Len(path[o]) /\ SubSeq(path[o], 1, Len(path[n])) = path[n]
<1>. DEFINE l == Len(path[n])
            z == Len(path[o])
<1>1. /\ path[n] \in Seq(Orgs) /\ l \in Nat \ {0} /\ path[n][l] = n
      /\ path[o] \in Seq(Orgs) /\ z \in Nat \ {0} /\ path[o][z] = o /\ o \in Orgs /\ n \in Orgs
  BY NodeHasPath DEF Nodes
<1>2. /\ l \in 1..l /\ path[path[n][l]] = SubSeq(path[n], 1, l)
      /\ z \in 1..z /\ path[path[o][z]] = SubSeq(path[o], 1, z)
  <2>1. l \in 1..l /\ z \in 1..z
    BY <1>1
  <2>. QED
    BY <1>1, <2>1, OnThePath
<1>3. o = n => l = z /\ SubSeq(path[o], 1, l) = path[n]
  BY <1>1, <1>2
<1>4. l = z /\ SubSeq(path[o], 1, l) = path[n] => o = n
  BY <1>1, <1>2
<1>5. o \in Subtree(n) <=> o = n \/ (l < z /\ SubSeq(path[o], 1, l) = path[n])
  BY DEF Subtree, Below
<1>. QED
  BY <1>1, <1>3, <1>4, <1>5

\* The nodes above a node are those whose subtree it is in.
LEMMA AboveIsSubtree ==
  ASSUME TreeFit, NEW n \in Nodes, NEW o \in Nodes
  PROVE  o \in Subtree(n) <=> n \in Above(o)
<1>1. /\ path[n] \in Seq(Orgs) /\ Len(path[n]) \in Nat \ {0} /\ path[n][Len(path[n])] = n
      /\ path[o] \in Seq(Orgs) /\ Len(path[o]) \in Nat \ {0} /\ o \in Orgs
  BY NodeHasPath DEF Nodes
<1>2. ASSUME o \in Subtree(n) PROVE n \in Above(o)
  <2>1. Len(path[n]) <= Len(path[o]) /\ SubSeq(path[o], 1, Len(path[n])) = path[n]
    BY <1>2, WithinSubtree
  <2>2. path[o][Len(path[n])] = n
    BY <1>1, <2>1, Prefix
  <2>. QED
    BY <1>1, <2>1, <2>2 DEF Above
<1>3. ASSUME n \in Above(o) PROVE o \in Subtree(n)
  <2>1. PICK k \in 1..Len(path[o]) : path[o][k] = n
    BY <1>1, <1>3 DEF Above
  <2>2. Len(path[n]) = k /\ path[n] = SubSeq(path[o], 1, k)
    BY <1>1, <2>1, OnThePath
  <2>. QED
    BY <2>1, <2>2, <1>1, WithinSubtree
<1>. QED
  BY <1>2, <1>3

LEMMA AboveItself ==
  ASSUME TreeFit, NEW n \in Nodes PROVE n \in Above(n) /\ n \in Subtree(n)
<1>1. n \in Above(n)
  BY NodeHasPath DEF Above
<1>. QED
  BY <1>1, AboveIsSubtree

\* Who is above a node that is above is above.
LEMMA AboveAbove ==
  ASSUME TreeFit, NEW n \in Nodes, NEW m \in Above(n), NEW l \in Above(m)
  PROVE  l \in Above(n)
<1>1. path[n] \in Seq(Orgs) /\ n \in Orgs
  BY NodeHasPath DEF Nodes
<1>2. PICK k \in 1..Len(path[n]) : path[n][k] = m
  BY <1>1 DEF Above
<1>3. path[m] = SubSeq(path[n], 1, k) /\ Len(path[m]) = k
  BY <1>1, <1>2, OnThePath
<1>4. path[m] \in Seq(Orgs)
  BY <1>1, <1>2, <1>3, Prefix
<1>5. PICK j \in 1..k : path[m][j] = l
  BY <1>3, <1>4 DEF Above
<1>6. path[n][j] = l
  BY <1>1, <1>2, <1>3, <1>5, Prefix
<1>. QED
  BY <1>1, <1>2, <1>5, <1>6 DEF Above

\* A path that is extended.
LEMMA Extended ==
  ASSUME NEW s \in Seq(Orgs), NEW n \in Orgs
  PROVE  /\ Append(s, n) \in Seq(Orgs) /\ Len(Append(s, n)) = Len(s) + 1 /\ Append(s, n)[Len(s) + 1] = n
         /\ Append(s, n) # <<>>
         /\ \A k \in 1..Len(s) : Append(s, n)[k] = s[k] /\ SubSeq(Append(s, n), 1, k) = SubSeq(s, 1, k)
         /\ SubSeq(Append(s, n), 1, Len(s) + 1) = Append(s, n)
<1>1. /\ Append(s, n) \in Seq(Orgs) /\ Len(Append(s, n)) = Len(s) + 1 /\ Append(s, n)[Len(s) + 1] = n
      /\ \A k \in 1..Len(s) : Append(s, n)[k] = s[k]
  BY AppendProperties
<1>2. Append(s, n) # <<>>
  BY <1>1, EmptySeq
<1>3. ASSUME NEW k \in 1..Len(s) PROVE SubSeq(Append(s, n), 1, k) = SubSeq(s, 1, k)
  <2>1. /\ SubSeq(s, 1, k) \in Seq(Orgs) /\ Len(SubSeq(s, 1, k)) = k
        /\ \A j \in 1..k : SubSeq(s, 1, k)[j] = s[j]
    BY Prefix
  <2>2. /\ SubSeq(Append(s, n), 1, k) \in Seq(Orgs) /\ Len(SubSeq(Append(s, n), 1, k)) = k
        /\ \A j \in 1..k : SubSeq(Append(s, n), 1, k)[j] = Append(s, n)[j]
    BY <1>1, Prefix
  <2>. QED
    BY <1>1, <2>1, <2>2, SeqEqual
<1>4. SubSeq(Append(s, n), 1, Len(s) + 1) = Append(s, n)
  <2>. DEFINE a == Append(s, n)
  <2>1. /\ SubSeq(a, 1, Len(a)) \in Seq(Orgs) /\ Len(SubSeq(a, 1, Len(a))) = Len(a)
        /\ \A j \in 1..Len(a) : SubSeq(a, 1, Len(a))[j] = a[j]
    BY <1>1, Prefix
  <2>2. SubSeq(a, 1, Len(a)) = a
    BY <1>1, <2>1, SeqEqual
  <2>. QED
    BY <1>1, <2>2
<1>. QED
  BY <1>1, <1>2, <1>3, <1>4

\* A node that nobody has used yet, under an existing one or as a root.
LEMMA CreatedIsWhole ==
  ASSUME TreeFit, NEW n \in Orgs, path[n] = <<>>, NEW p \in Nodes \cup {None},
         path' = [path EXCEPT ![n] = Append(PathOf(p), n)]
  PROVE  TreeFit' /\ Nodes' = Nodes \cup {n}
<1>. DEFINE b == PathOf(p)
            new == Append(b, n)
<1>1. b \in Seq(Orgs) /\ path \in [Orgs -> Seq(Orgs)] /\ Len(b) \in Nat
  BY DEF PathOf, TreeFit, Nodes
<1>2. /\ new \in Seq(Orgs) /\ Len(new) = Len(b) + 1 /\ new[Len(b) + 1] = n /\ new # <<>>
      /\ \A k \in 1..Len(b) : new[k] = b[k] /\ SubSeq(new, 1, k) = SubSeq(b, 1, k)
      /\ SubSeq(new, 1, Len(b) + 1) = new
  BY <1>1, Extended
<1>. HIDE DEF new
<1>3. path' \in [Orgs -> Seq(Orgs)] /\ path'[n] = new /\ \A o \in Orgs \ {n} : path'[o] = path[o]
  BY <1>1, <1>2 DEF new
<1>4. Nodes' = Nodes \cup {n}
  BY <1>2, <1>3 DEF Nodes
<1>5. ASSUME NEW o \in Orgs, NEW k \in 1..Len(path[o])
      PROVE  path[o][k] \in Orgs \ {n} /\ path'[path[o][k]] = SubSeq(path[o], 1, k) /\ (k = Len(path[o]) => path[o][k] = o)
  BY <1>3, OnThePath DEF Nodes
<1>6. ASSUME NEW o \in Orgs, NEW k \in 1..Len(path'[o])
      PROVE  path'[path'[o][k]] = SubSeq(path'[o], 1, k) /\ (k = Len(path'[o]) => path'[o][k] = o)
  <2>1. CASE o # n
    BY <1>3, <1>5, <2>1
  <2>2. CASE o = n /\ k = Len(b) + 1
    BY <1>2, <1>3, <2>2
  <2>3. CASE o = n /\ k # Len(b) + 1
    <3>1. k \in 1..Len(b)
      BY <1>1, <1>2, <1>3, <2>3
    <3>2. p \in Nodes /\ b = path[p]
      BY <3>1 DEF PathOf
    <3>. QED
      BY <1>2, <1>3, <1>5, <2>3, <3>1, <3>2 DEF Nodes
  <2>. QED
    BY <2>1, <2>2, <2>3
<1>7. Whole(path')
  BY <1>6 DEF Whole
<1>. QED
  BY <1>3, <1>4, <1>7 DEF TreeFit

\* A node without children goes.
LEMMA DeletedIsWhole ==
  ASSUME TreeFit, NEW n \in Nodes, Subtree(n) = {n}, path' = [path EXCEPT ![n] = <<>>]
  PROVE  TreeFit' /\ Nodes' = Nodes \ {n}
<1>1. path \in [Orgs -> Seq(Orgs)] /\ n \in Orgs /\ <<>> \in Seq(Orgs) /\ Len(<<>>) = 0
  BY EmptySeq DEF TreeFit, Nodes
<1>2. path' \in [Orgs -> Seq(Orgs)] /\ path'[n] = <<>> /\ \A o \in Orgs \ {n} : path'[o] = path[o]
  BY <1>1
<1>3. Nodes' = Nodes \ {n}
  BY <1>1, <1>2 DEF Nodes
<1>4. ASSUME NEW o \in Orgs \ {n}, NEW k \in 1..Len(path[o])
      PROVE  path[o][k] \in Orgs \ {n} /\ path[path[o][k]] = SubSeq(path[o], 1, k) /\ (k = Len(path[o]) => path[o][k] = o)
  <2>1. /\ path[o][k] \in Nodes /\ path[path[o][k]] = SubSeq(path[o], 1, k) /\ (k = Len(path[o]) => path[o][k] = o)
        /\ path[o] \in Seq(Orgs)
    BY <1>1, OnThePath
  <2>2. o \in Nodes
    BY <1>1, <2>1, EmptySeq DEF Nodes
  <2>3. path[o][k] \in Above(o)
    BY <2>1 DEF Above
  <2>4. o \notin Subtree(n)
    OBVIOUS
  <2>5. path[o][k] # n
    BY <2>2, <2>3, <2>4, AboveIsSubtree
  <2>. QED
    BY <2>1, <2>5 DEF Nodes
<1>5. ASSUME NEW o \in Orgs, NEW k \in 1..Len(path'[o])
      PROVE  path'[path'[o][k]] = SubSeq(path'[o], 1, k) /\ (k = Len(path'[o]) => path'[o][k] = o)
  <2>1. o # n
    BY <1>1, <1>2
  <2>. QED
    BY <1>2, <1>4, <2>1
<1>6. Whole(path')
  BY <1>5 DEF Whole
<1>. QED
  BY <1>2, <1>3, <1>6 DEF TreeFit

\* What stands below a node that moves: its new path, from n on what it was.
LEMMA Rebased ==
  ASSUME NEW new \in Seq(Orgs), NEW q \in Seq(Orgs), NEW l \in 0..Len(q)
  PROVE  LET r == new \o SubSeq(q, l + 1, Len(q)) IN
         /\ r \in Seq(Orgs) /\ Len(r) = Len(new) + Len(q) - l
         /\ \A k \in 1..Len(new) : r[k] = new[k]
         /\ \A k \in (Len(new) + 1)..(Len(new) + Len(q) - l) : r[k] = q[k - Len(new) + l]
<1>. DEFINE t == SubSeq(q, l + 1, Len(q))
<1>1. t \in Seq(Orgs) /\ Len(t) = Len(q) - l /\ \A k \in 1..(Len(q) - l) : t[k] = q[l + k]
  BY SubSeqProperties
<1>. HIDE DEF t
<1>2. /\ new \o t \in Seq(Orgs) /\ Len(new \o t) = Len(new) + Len(t)
      /\ \A k \in 1..(Len(new) + Len(t)) : (new \o t)[k] = IF k <= Len(new) THEN new[k] ELSE t[k - Len(new)]
  BY <1>1, ConcatProperties
<1>. DEFINE r == new \o t
<1>3. r \in Seq(Orgs) /\ Len(r) = Len(new) + Len(q) - l
  BY <1>1, <1>2
<1>4. \A k \in 1..Len(new) : r[k] = new[k]
  BY <1>1, <1>2
<1>5. ASSUME NEW k \in (Len(new) + 1)..(Len(new) + Len(q) - l) PROVE r[k] = q[k - Len(new) + l]
  <2>1. r[k] = t[k - Len(new)]
    BY <1>1, <1>2
  <2>2. k - Len(new) \in 1..(Len(q) - l)
    OBVIOUS
  <2>3. t[k - Len(new)] = q[l + (k - Len(new))]
    BY <1>1, <2>2
  <2>. QED
    BY <2>1, <2>2, <2>3
<1>. QED
  BY <1>3, <1>4, <1>5 DEF t

\* Its prefixes: those of the new path, then those of the old one, rebased.
HasPrefixes(r, new, q, l) ==
  /\ r \in Seq(Orgs)
  /\ \A k \in 1..Len(new) : k \in 1..Len(r) /\ r[k] = new[k] /\ SubSeq(r, 1, k) = SubSeq(new, 1, k)
  /\ Len(r) = Len(new) => l = Len(q)
  /\ \A k \in 1..Len(r) \ 1..Len(new) :
       \E j \in 1..Len(q) : /\ l <= j /\ r[k] = q[j] /\ (k = Len(r) => j = Len(q))
                           /\ SubSeq(r, 1, k) = new \o SubSeq(SubSeq(q, 1, j), l + 1, j)

LEMMA RebasedPrefixes ==
  ASSUME NEW new \in Seq(Orgs), NEW q \in Seq(Orgs), NEW l \in 1..Len(q)
  PROVE  HasPrefixes(new \o SubSeq(q, l + 1, Len(q)), new, q, l)
<1>. DEFINE r == new \o SubSeq(q, l + 1, Len(q))
            a == Len(new)
            z == Len(q)
            y == Len(r)
<1>1. a \in Nat /\ z \in Nat /\ l \in Nat /\ l > 0 /\ l <= z /\ l \in 0..z
  OBVIOUS
<1>2. /\ r \in Seq(Orgs) /\ y = a + z - l
      /\ \A k \in 1..a : r[k] = new[k]
      /\ \A k \in (a + 1)..(a + z - l) : r[k] = q[k - a + l]
  BY <1>1, Rebased
<1>. HIDE DEF r
<1>3. \A k \in 1..y : SubSeq(r, 1, k) \in Seq(Orgs) /\ Len(SubSeq(r, 1, k)) = k /\ \A i \in 1..k : SubSeq(r, 1, k)[i] = r[i]
  BY <1>2, Prefix
<1>4. \A k \in 1..a : SubSeq(new, 1, k) \in Seq(Orgs) /\ Len(SubSeq(new, 1, k)) = k /\ \A i \in 1..k : SubSeq(new, 1, k)[i] = new[i]
  BY Prefix
<1>5. \A k \in 1..z : SubSeq(q, 1, k) \in Seq(Orgs) /\ Len(SubSeq(q, 1, k)) = k /\ \A i \in 1..k : SubSeq(q, 1, k)[i] = q[i]
  BY Prefix
<1>6. y \in Nat /\ y >= a
  BY <1>1, <1>2
<1>. HIDE DEF a, z, y
<1>7. ASSUME NEW k \in 1..a
      PROVE  k \in 1..y /\ r[k] = new[k] /\ SubSeq(r, 1, k) = SubSeq(new, 1, k)
  <2>1. k \in 1..y
    BY <1>1, <1>6
  <2>2. \A i \in 1..k : r[i] = new[i]
    BY <1>1, <1>2
  <2>3. \A i \in 1..k : SubSeq(r, 1, k)[i] = SubSeq(new, 1, k)[i]
    BY <1>3, <1>4, <2>1, <2>2
  <2>4. SubSeq(r, 1, k) = SubSeq(new, 1, k)
    BY <1>3, <1>4, <2>1, <2>3, SeqEqual
  <2>. QED
    BY <1>2, <2>1, <2>4
<1>8. y = a => l = z
  BY <1>1, <1>2
<1>9. ASSUME NEW k \in 1..y, k \notin 1..a
      PROVE  \E j \in 1..z : /\ l <= j /\ r[k] = q[j] /\ (k = y => j = z)
                            /\ SubSeq(r, 1, k) = new \o SubSeq(SubSeq(q, 1, j), l + 1, j)
  <2>. DEFINE j == k - a + l
  <2>1. k \in (a + 1)..(a + z - l) /\ j \in 1..z /\ l <= j /\ k = a + j - l /\ (k = y => j = z) /\ j \in Nat /\ l \in 0..j
    BY <1>1, <1>2, <1>6, <1>9
  <2>2. r[k] = q[j]
    BY <1>2, <2>1
  <2>. HIDE DEF j
  <2>. DEFINE p == SubSeq(q, 1, j)
              t == new \o SubSeq(p, l + 1, j)
  <2>3. p \in Seq(Orgs) /\ Len(p) = j /\ \A i \in 1..j : p[i] = q[i]
    BY <1>5, <2>1
  <2>. HIDE DEF p
  <2>4. /\ t \in Seq(Orgs) /\ Len(t) = a + j - l
        /\ \A i \in 1..a : t[i] = new[i]
        /\ \A i \in (a + 1)..(a + j - l) : t[i] = p[i - a + l]
    BY <2>1, <2>3, Rebased DEF a
  <2>. HIDE DEF t
  <2>5. ASSUME NEW i \in 1..k PROVE t[i] = r[i]
    <3>1. CASE i \in 1..a
      BY <1>2, <2>4, <3>1
    <3>2. CASE i \notin 1..a
      <4>1. i \in (a + 1)..(a + j - l) /\ i \in (a + 1)..(a + z - l) /\ i - a + l \in 1..j
        BY <1>1, <2>1, <3>2
      <4>. QED
        BY <1>2, <2>3, <2>4, <4>1
    <3>. QED
      BY <3>1, <3>2
  <2>6. SubSeq(r, 1, k) \in Seq(Orgs) /\ Len(SubSeq(r, 1, k)) = k /\ \A i \in 1..k : SubSeq(r, 1, k)[i] = r[i]
    BY <1>3
  <2>7. SubSeq(r, 1, k) = t
    BY <2>1, <2>4, <2>5, <2>6, SeqEqual
  <2>. QED
    BY <2>1, <2>2, <2>7 DEF p, t
<1>. QED
  BY <1>2, <1>7, <1>8, <1>9 DEF r, a, z, y, HasPrefixes

\* A node is brought under another that is not below it, and what is below it follows.
LEMMA MovedIsWhole ==
  ASSUME TreeFit, NEW n \in Nodes, NEW p \in Nodes \cup {None}, p \notin Subtree(n),
         path' = [o \in Orgs |-> IF o \in Subtree(n)
                                THEN Append(PathOf(p), n) \o SubSeq(path[o], Len(path[n]) + 1, Len(path[o]))
                                ELSE path[o]]
  PROVE  TreeFit' /\ Nodes' = Nodes
<1>. DEFINE b == PathOf(p)
            new == Append(b, n)
            l == Len(path[n])
            moved(o) == new \o SubSeq(path[o], l + 1, Len(path[o]))
            rest == Orgs \ Subtree(n)
<1>1. b \in Seq(Orgs) /\ path \in [Orgs -> Seq(Orgs)] /\ n \in Orgs
  BY DEF PathOf, TreeFit, Nodes
<1>2. /\ new \in Seq(Orgs) /\ Len(new) = Len(b) + 1 /\ new[Len(b) + 1] = n
      /\ \A k \in 1..Len(b) : new[k] = b[k] /\ SubSeq(new, 1, k) = SubSeq(b, 1, k)
      /\ SubSeq(new, 1, Len(b) + 1) = new
  BY <1>1, Extended
<1>3. ASSUME NEW o \in Subtree(n)
      PROVE  /\ o \in Nodes /\ path[o] \in Seq(Orgs) /\ l \in 1..Len(path[o]) /\ path[o][l] = n
  <2>1. o \in Nodes /\ l <= Len(path[o]) /\ SubSeq(path[o], 1, l) = path[n]
    BY WithinSubtree DEF Subtree
  <2>2. path[o] \in Seq(Orgs) /\ Len(path[o]) \in Nat /\ l \in Nat \ {0} /\ path[n][l] = n
    BY <2>1, NodeHasPath
  <2>3. l \in 1..Len(path[o]) /\ l \in 0..Len(path[o])
    BY <2>1, <2>2
  <2>4. path[o][l] = n
    BY <2>1, <2>2, <2>3, Prefix
  <2>. QED
    BY <2>1, <2>2, <2>3, <2>4
<1>4. path' = [o \in Orgs |-> IF o \in Subtree(n) THEN moved(o) ELSE path[o]]
  OBVIOUS
<1>5. ASSUME NEW o \in Subtree(n)
      PROVE  /\ moved(o) \in Seq(Orgs)
             /\ \A k \in 1..Len(new) : /\ k \in 1..Len(moved(o)) /\ moved(o)[k] = new[k]
                                       /\ SubSeq(moved(o), 1, k) = SubSeq(new, 1, k)
             /\ Len(moved(o)) = Len(new) => l = Len(path[o])
             /\ \A k \in 1..Len(moved(o)) \ 1..Len(new) :
                  \E j \in 1..Len(path[o]) :
                    /\ l <= j /\ moved(o)[k] = path[o][j] /\ (k = Len(moved(o)) => j = Len(path[o]))
                    /\ SubSeq(moved(o), 1, k) = new \o SubSeq(SubSeq(path[o], 1, j), l + 1, j)
  <2>1. new \in Seq(Orgs) /\ path[o] \in Seq(Orgs) /\ l \in 1..Len(path[o])
    BY <1>2, <1>3
  <2>. HIDE DEF new, l
  <2>2. HasPrefixes(moved(o), new, path[o], l)
    BY <2>1, RebasedPrefixes
  <2>. HIDE DEF moved
  <2>. QED
    BY <2>2 DEF HasPrefixes
\* The node has the path that has been made for it.
<1>6. moved(n) = new
  <2>1. n \in Subtree(n)
    BY AboveItself
  <2>2. SubSeq(path[n], l + 1, Len(path[n])) = <<>>
    BY <1>1, EmptySeq, SubSeqProperties
  <2>. QED
    BY <1>2, <2>2, ConcatEmptySeq
<1>7. \A o \in Orgs : (IF o \in Subtree(n) THEN moved(o) ELSE path[o]) \in Seq(Orgs)
  BY <1>1, <1>5
<1>8. /\ Subtree(n) \subseteq Nodes /\ Nodes \subseteq Orgs /\ n \in Subtree(n)
      /\ \A o \in Nodes : o \in Subtree(n) <=> n \in Above(o)
  BY AboveItself, AboveIsSubtree DEF Subtree, Nodes
<1>. HIDE DEF moved
<1>9. /\ path' \in [Orgs -> Seq(Orgs)]
      /\ \A o \in Subtree(n) : path'[o] = moved(o)
      /\ \A o \in rest : path'[o] = path[o]
  BY <1>4, <1>7, <1>8
<1>10. Nodes' = Nodes
  <2>1. ASSUME NEW o \in Subtree(n) PROVE moved(o) # <<>>
    <3>1. 1 \in 1..Len(new)
      BY <1>1, <1>2
    <3>2. 1 \in 1..Len(moved(o)) /\ moved(o) \in Seq(Orgs)
      BY <1>5, <3>1
    <3>. QED
      BY <3>2, EmptySeq
  <2>2. \A o \in Orgs : path'[o] # <<>> <=> path[o] # <<>>
    BY <1>8, <1>9, <2>1 DEF Nodes
  <2>. QED
    BY <2>2 DEF Nodes
\* Above a node outside the subtree there is none of it.
<1>11. ASSUME NEW o \in rest, NEW k \in 1..Len(path[o])
       PROVE  /\ path[o][k] \in rest /\ path[path[o][k]] = SubSeq(path[o], 1, k)
              /\ k = Len(path[o]) => path[o][k] = o
  <2>. DEFINE m == path[o][k]
  <2>1. m \in Nodes /\ path[m] = SubSeq(path[o], 1, k) /\ (k = Len(path[o]) => m = o) /\ path[o] \in Seq(Orgs)
    BY <1>1, OnThePath
  <2>2. o \in Nodes
    BY <2>1, EmptySeq DEF Nodes
  <2>3. m \in Above(o)
    BY <2>1 DEF Above
  <2>4. m \notin Subtree(n)
    <3>1. SUFFICES ASSUME m \in Subtree(n) PROVE o \in Subtree(n)
      OBVIOUS
    <3>2. n \in Above(m)
      BY <1>8, <2>1, <3>1
    <3>3. n \in Above(o)
      BY <2>2, <2>3, <3>2, AboveAbove
    <3>. QED
      BY <1>8, <2>2, <3>3
  <2>. QED
    BY <1>8, <2>1, <2>4
<1>12. ASSUME NEW o \in Orgs, NEW k \in 1..Len(path'[o])
       PROVE  path'[path'[o][k]] = SubSeq(path'[o], 1, k) /\ (k = Len(path'[o]) => path'[o][k] = o)
  <2>1. CASE o \in rest
    BY <1>9, <1>11, <2>1
  \* What is above the new place of the node.
  <2>2. CASE o \in Subtree(n) /\ k \in 1..Len(b)
    <3>1. p \in Nodes /\ b = path[p]
      <4>1. p # None
        BY <2>2 DEF PathOf
      <4>. QED
        BY <4>1 DEF PathOf
    <3>2. path[b[k]] = SubSeq(b, 1, k) /\ b[k] \in rest
      BY <1>8, <1>11, <2>2, <3>1
    <3>3. k \in 1..Len(new) /\ k # Len(new)
      BY <1>1, <1>2, <2>2
    <3>4. moved(o)[k] = b[k] /\ SubSeq(moved(o), 1, k) = SubSeq(b, 1, k) /\ Len(new) \in 1..Len(moved(o))
      <4>1. Len(new) \in 1..Len(new)
        BY <1>1, <1>2
      <4>2. new[k] = b[k] /\ SubSeq(new, 1, k) = SubSeq(b, 1, k)
        BY <1>2, <2>2
      <4>. QED
        BY <1>5, <2>2, <3>3, <4>1, <4>2
    <3>5. k # Len(moved(o))
      BY <3>3, <3>4
    <3>. QED
      BY <1>9, <2>2, <3>2, <3>4, <3>5
  <2>3. CASE o \in Subtree(n) /\ k = Len(new)
    <3>1. k \in 1..Len(new)
      BY <1>1, <1>2, <2>3
    <3>2. moved(o)[k] = n /\ SubSeq(moved(o), 1, k) = new
      BY <1>2, <1>5, <2>3, <3>1
    <3>3. ASSUME k = Len(moved(o)) PROVE o = n
      <4>1. l = Len(path[o])
        BY <1>5, <2>3, <3>3
      <4>. QED
        BY <1>3, <2>3, <4>1, OnThePath, NodeHasPath
    <3>. QED
      BY <1>6, <1>8, <1>9, <2>3, <3>2, <3>3
  \* What is below it.
  <2>4. CASE o \in Subtree(n) /\ k \notin 1..Len(new)
    <3>1. k \in 1..Len(moved(o)) \ 1..Len(new)
      BY <1>9, <2>4
    <3>2. PICK j \in 1..Len(path[o]) :
             /\ l <= j /\ moved(o)[k] = path[o][j] /\ (k = Len(moved(o)) => j = Len(path[o]))
             /\ SubSeq(moved(o), 1, k) = new \o SubSeq(SubSeq(path[o], 1, j), l + 1, j)
      BY <1>5, <2>4, <3>1
    <3>. DEFINE m == path[o][j]
    <3>3. o \in Orgs /\ o \in Nodes /\ path[o] \in Seq(Orgs) /\ l \in 1..Len(path[o]) /\ path[o][l] = n
      BY <1>3, <2>4
    <3>4. m \in Nodes /\ path[m] = SubSeq(path[o], 1, j) /\ Len(path[m]) = j /\ (j = Len(path[o]) => m = o)
      BY <3>3, OnThePath
    <3>5. l \in 1..j /\ j \in 0..Len(path[o])
      BY <3>2, <3>3
    <3>6. path[m][l] = n /\ path[m] \in Seq(Orgs)
      BY <3>3, <3>4, <3>5, Prefix
    <3>7. n \in Above(m)
      BY <3>4, <3>5, <3>6 DEF Above
    <3>8. m \in Subtree(n)
      BY <1>8, <3>4, <3>7
    <3>9. moved(m) = new \o SubSeq(path[m], l + 1, j)
      BY <3>4 DEF moved
    <3>10. path'[m] = SubSeq(moved(o), 1, k)
      BY <1>9, <3>2, <3>4, <3>8, <3>9
    <3>. QED
      BY <1>9, <2>4, <3>2, <3>4, <3>10
  <2>5. k \in 1..Len(b) \/ k = Len(new) \/ k \notin 1..Len(new)
    <3>1. Len(b) \in Nat /\ Len(new) = Len(b) + 1
      BY <1>1, <1>2
    <3>. HIDE DEF b, new
    <3>. QED
      BY <3>1
  <2>. QED
    BY <2>1, <2>2, <2>3, <2>4, <2>5
<1>13. Whole(path')
  BY <1>12 DEF Whole
<1>. QED
  BY <1>9, <1>10, <1>13 DEF TreeFit
-----------------------------------------------------------------------------
(* Every step leaves the tables and the calls fit.                          *)
-----------------------------------------------------------------------------
(* What the steps leave alone.                                              *)

LEMMA HandlersLeave ==
  ASSUME HandlerStep PROVE UNCHANGED round
BY DEF HandlerStep, HandleCreate, HandleMove, HandleRename, HandleSetKeyHolder, Edited, DeleteGet,
       DeleteRow, DeleteRefused, DropNode, Nudge

LEMMA RoundsLeave ==
  ASSUME NEW r \in Rounds, RoundStep(r)
  PROVE  UNCHANGED <<tree, trigger, dropping, excused, edits>>
BY DEF RoundStep, PlanLocal, PlanOrgs, PlanTeams, PlanFails, RoundEnds, CreateOrganization,
       UpdateOrganization, SkipTeam, CreateTeam, UpdateTeam, tree, trigger

LEMMA ImportsLeave ==
  ASSUME NEW i \in Imports, ImportStep(i)
  PROVE  UNCHANGED <<holder, gone, upstream, round, due, dropping, excused>>
BY DEF ImportStep, Fetch, Look, ImportCreate, ImportRename, ImportEnds, ImportFails, tree, trigger, vars

-----------------------------------------------------------------------------
(* Plans.                                                                   *)

PlanRecord == [orgs : SUBSET Entity, teams : SUBSET Entity, live : SUBSET Orgs, todo : [Verbs -> SUBSET Entity]]
RoundRecord == [at : {"wait", "local", "orgs", "teams", "apply"}, plan : PlanRecord]

\* What is left to do of a plan is part of what it wants.
PlanFits(p) ==
  /\ p \in PlanRecord
  /\ p.todo["CreateOrganization"] \cup p.todo["UpdateOrganization"] \subseteq p.orgs
  /\ p.todo["CreateTeam"] \cup p.todo["UpdateTeam"] \subseteq p.teams

PlansFit == round \in [Rounds -> RoundRecord] /\ \A r \in Rounds : PlanFits(round[r].plan)

LEMMA NoPlanFits == PlanFits(NoPlan)
<1>1. NoPlan \in PlanRecord
  BY DEF NoPlan, PlanRecord
<1>. QED
  BY <1>1 DEF NoPlan, PlanFits, Verbs

LEMMA GoesFits ==
  ASSUME PlansFit, NEW r \in Rounds, NEW s \in {"wait", "local", "orgs", "teams", "apply"}, NEW p, PlanFits(p),
         Goes(r, s, p)
  PROVE  PlansFit' /\ round'[r].plan = p /\ \A q \in Rounds \ {r} : round'[q] = round[q]
<1>1. [at |-> s, plan |-> p] \in RoundRecord
  BY DEF RoundRecord, PlanFits
<1>2. /\ round' \in [Rounds -> RoundRecord] /\ round'[r] = [at |-> s, plan |-> p]
      /\ \A q \in Rounds \ {r} : round'[q] = round[q]
  BY <1>1 DEF Goes, PlansFit
<1>. QED
  BY <1>2 DEF PlansFit

LEMMA ChangedPlan ==
  ASSUME NEW x \in RoundRecord, NEW p
  PROVE  [x EXCEPT !.plan = p] = [at |-> x.at, plan |-> p]
BY DEF RoundRecord

LEMMA ChangedTodo ==
  ASSUME NEW p \in PlanRecord, NEW t
  PROVE  [p EXCEPT !.todo = t] = [orgs |-> p.orgs, teams |-> p.teams, live |-> p.live, todo |-> t]
BY DEF PlanRecord

LEMMA ChangedLive ==
  ASSUME NEW p \in PlanRecord, NEW l
  PROVE  [p EXCEPT !.live = l] = [orgs |-> p.orgs, teams |-> p.teams, live |-> l, todo |-> p.todo]
BY DEF PlanRecord

LEMMA ChangedWants ==
  ASSUME NEW p \in PlanRecord, NEW a \in SUBSET Entity, NEW b
  PROVE  [p EXCEPT !.orgs = a, !.teams = b] = [orgs |-> a, teams |-> b, live |-> p.live, todo |-> p.todo]
<1>. DEFINE q == [p EXCEPT !.orgs = a]
<1>1. q = [orgs |-> a, teams |-> p.teams, live |-> p.live, todo |-> p.todo]
  BY DEF PlanRecord
<1>2. q.live = p.live /\ q.todo = p.todo /\ q.orgs = a
  BY <1>1
<1>3. q \in PlanRecord
  BY <1>1 DEF PlanRecord
<1>4. [p EXCEPT !.orgs = a, !.teams = b] = [q EXCEPT !.teams = b]
  BY Zenon
<1>. HIDE DEF q
<1>5. [q EXCEPT !.teams = b] = [orgs |-> q.orgs, teams |-> b, live |-> q.live, todo |-> q.todo]
  BY <1>3 DEF PlanRecord
<1>. QED
  BY <1>2, <1>4, <1>5

\* Two of the lists of a plan are filled.
Filled(p, u, x, v, y) == [p EXCEPT !.todo[u] = x, !.todo[v] = y]
Lists(t, u, x, v, y) == [[t EXCEPT ![u] = x] EXCEPT ![v] = y]

LEMMA ChangedLists ==
  ASSUME NEW p \in PlanRecord, NEW u \in Verbs, NEW v \in Verbs, NEW x \in SUBSET Entity, NEW y
  PROVE  Filled(p, u, x, v, y) =
           [orgs |-> p.orgs, teams |-> p.teams, live |-> p.live, todo |-> Lists(p.todo, u, x, v, y)]
<1>. DEFINE t == [p.todo EXCEPT ![u] = x]
            q == [p EXCEPT !.todo = t]
<1>1. t \in [Verbs -> SUBSET Entity]
  BY DEF PlanRecord
<1>2. Filled(p, u, x, v, y) = [q EXCEPT !.todo = [q.todo EXCEPT ![v] = y]]
  BY Zenon DEF Filled
<1>. HIDE DEF t
<1>3. q = [orgs |-> p.orgs, teams |-> p.teams, live |-> p.live, todo |-> t]
  BY ChangedTodo
<1>4. q \in PlanRecord /\ q.orgs = p.orgs /\ q.teams = p.teams /\ q.live = p.live /\ q.todo = t
  BY <1>1, <1>3 DEF PlanRecord
<1>. HIDE DEF q
<1>5. [q EXCEPT !.todo = [q.todo EXCEPT ![v] = y]] =
        [orgs |-> q.orgs, teams |-> q.teams, live |-> q.live, todo |-> [q.todo EXCEPT ![v] = y]]
  BY <1>4, ChangedTodo
<1>. QED
  BY <1>2, <1>4, <1>5 DEF t, Lists

\* What is left of a plan once an entry of it has been worked off.
LEMMA DonePlan ==
  ASSUME PlansFit, NEW r \in Rounds, NEW v \in Verbs, NEW e
  PROVE  LET p == round[r].plan IN
         /\ Done(r, v, e)[r].at = round[r].at
         /\ Done(r, v, e)[r].plan = [orgs |-> p.orgs, teams |-> p.teams, live |-> p.live,
                                     todo |-> [p.todo EXCEPT ![v] = p.todo[v] \ {e}]]
<1>. DEFINE p == round[r].plan
            t == [p.todo EXCEPT ![v] = p.todo[v] \ {e}]
            new == [orgs |-> p.orgs, teams |-> p.teams, live |-> p.live, todo |-> t]
            rec == [at |-> round[r].at, plan |-> new]
<1>1. p \in PlanRecord /\ round \in [Rounds -> RoundRecord] /\ round[r] \in RoundRecord
  BY DEF PlansFit, RoundRecord
<1>2. rec = [round[r] EXCEPT !.plan = [p EXCEPT !.todo = t]]
  <2>1. new = [p EXCEPT !.todo = t]
    BY <1>1, ChangedTodo
  <2>. HIDE DEF new, t
  <2>. QED
    BY <1>1, <2>1, ChangedPlan, Zenon
<1>3. Done(r, v, e) = [round EXCEPT ![r] = rec]
  BY <1>2, Zenon DEF Done
<1>4. rec.at = round[r].at /\ rec.plan = new
  OBVIOUS
<1>. HIDE DEF rec
<1>5. Done(r, v, e)[r] = rec
  BY <1>1, <1>3
<1>. QED
  BY <1>4, <1>5

SamePlans(new) == \A q \in Rounds : new[q].plan.orgs = round[q].plan.orgs /\ new[q].plan.teams = round[q].plan.teams
Fits(new) == new \in [Rounds -> RoundRecord] /\ \A q \in Rounds : PlanFits(new[q].plan)

\* An entry that has been worked off.
LEMMA DoneFits ==
  ASSUME PlansFit, NEW r \in Rounds, NEW v \in Verbs, NEW e
  PROVE  Fits(Done(r, v, e)) /\ SamePlans(Done(r, v, e))
<1>. DEFINE p == round[r].plan
            t == [p.todo EXCEPT ![v] = @ \ {e}]
            new == [orgs |-> p.orgs, teams |-> p.teams, live |-> p.live, todo |-> t]
            rec == [at |-> round[r].at, plan |-> new]
<1>1. /\ p \in PlanRecord /\ round[r].at \in {"wait", "local", "orgs", "teams", "apply"}
      /\ round \in [Rounds -> RoundRecord] /\ round[r] \in RoundRecord
  BY DEF PlansFit, RoundRecord
<1>2. new \in PlanRecord
  BY <1>1 DEF PlanRecord
<1>3. PlanFits(new)
  BY <1>1, <1>2 DEF PlanFits, PlansFit, PlanRecord, Verbs
<1>4. rec = [round[r] EXCEPT !.plan = [p EXCEPT !.todo = t]]
  <2>1. new = [p EXCEPT !.todo = t]
    BY <1>1, ChangedTodo
  <2>. HIDE DEF new, t
  <2>. QED
    BY <1>1, <2>1, ChangedPlan, Zenon
<1>5. Done(r, v, e) = [round EXCEPT ![r] = rec]
  BY <1>4, Zenon DEF Done
<1>6. rec \in RoundRecord /\ rec.plan = new
  BY <1>1, <1>2 DEF RoundRecord
<1>7. new.orgs = p.orgs /\ new.teams = p.teams
  OBVIOUS
<1>. HIDE DEF new, rec
<1>. QED
  BY <1>1, <1>3, <1>5, <1>6, <1>7 DEF PlansFit, Fits, SamePlans

\* What is known to exist changes nothing of what is wanted.
LEMMA LiveFits ==
  ASSUME NEW new, Fits(new), SamePlans(new), NEW r \in Rounds, NEW l \in SUBSET Orgs,
         round' = [new EXCEPT ![r].plan.live = l]
  PROVE  PlansFit' /\ SamePlans(round')
<1>. DEFINE p == new[r].plan
            plan == [orgs |-> p.orgs, teams |-> p.teams, live |-> l, todo |-> p.todo]
            rec == [at |-> new[r].at, plan |-> plan]
<1>1. /\ p \in PlanRecord /\ new[r].at \in {"wait", "local", "orgs", "teams", "apply"}
      /\ new \in [Rounds -> RoundRecord] /\ new[r] \in RoundRecord /\ PlanFits(p)
  BY DEF Fits, RoundRecord
<1>2. plan \in PlanRecord
  BY <1>1 DEF PlanRecord
<1>3. PlanFits(plan)
  BY <1>1, <1>2 DEF PlanFits
<1>4. rec = [new[r] EXCEPT !.plan = [p EXCEPT !.live = l]]
  BY <1>1, ChangedPlan, ChangedLive
<1>5. round' = [new EXCEPT ![r] = rec]
  BY <1>4, Zenon
<1>6. rec \in RoundRecord /\ rec.plan = plan
  BY <1>1, <1>2 DEF RoundRecord
<1>7. plan.orgs = p.orgs /\ plan.teams = p.teams
  OBVIOUS
<1>. HIDE DEF plan, rec
<1>. QED
  BY <1>1, <1>3, <1>5, <1>6, <1>7 DEF PlansFit, Fits, SamePlans

-----------------------------------------------------------------------------
(* The tree and the deletions under way.                                    *)

DroppingSet == [stage : {"none", "read", "deleted"}, depth2 : BOOLEAN, holder : BOOLEAN]

TreeInv ==
  /\ TreeFit /\ name \in [Orgs -> Names]
  /\ holder \cup behind \subseteq Nodes /\ gone \subseteq Orgs \ Nodes /\ excused \subseteq Orgs
  /\ dropping \in [Orgs -> DroppingSet]
  /\ \A n \in Orgs : (dropping[n].stage = "deleted" => n \in gone) /\ (n \in gone => dropping[n].stage # "read")

\* What a plan wants: what is in the tree, an organization attached to itself.
LEMMA Wanted ==
  ASSUME TreeInv
  PROVE  /\ WantedOrgs(Nodes) \subseteq Entity /\ WantedTeams(Nodes) \subseteq Entity
         /\ \A e \in WantedOrgs(Nodes) : e.id \in Nodes /\ Len(path[e.id]) = 2
         /\ \A e \in WantedTeams(Nodes) :
              /\ e.id \in Nodes \cap holder
              /\ e.org = IF Len(path[e.id]) >= 2 THEN path[e.id][2] ELSE None
              /\ Len(path[e.id]) = 2 => e.org = e.id
<1>. USE DEF TreeInv
<1>1. ASSUME NEW e \in WantedOrgs(Nodes)
      PROVE  e \in Entity /\ e.id \in Nodes /\ Len(path[e.id]) = 2
  BY DEF WantedOrgs, Entity, Nodes
<1>2. ASSUME NEW e \in WantedTeams(Nodes)
      PROVE  /\ e \in Entity /\ e.id \in Nodes \cap holder
             /\ e.org = IF Len(path[e.id]) >= 2 THEN path[e.id][2] ELSE None
             /\ Len(path[e.id]) = 2 => e.org = e.id
  <2>1. PICK n \in Nodes \cap holder :
          e = [id |-> n, alias |-> name[n], org |-> IF Len(path[n]) >= 2 THEN path[n][2] ELSE None]
    BY DEF WantedTeams
  <2>2. n \in Orgs /\ path[n] \in Seq(Orgs) /\ Len(path[n]) \in Nat /\ path[n][Len(path[n])] = n
    BY NodeHasPath DEF Nodes
  <2>3. Len(path[n]) >= 2 => path[n][2] \in Orgs
    BY <2>2
  <2>. DEFINE o == IF Len(path[n]) >= 2 THEN path[n][2] ELSE None
  <2>4. o \in Orgs \cup {None} /\ (Len(path[n]) = 2 => o = n) /\ name[n] \in Names
    BY <2>2, <2>3
  <2>. HIDE DEF o
  <2>5. e = [id |-> n, alias |-> name[n], org |-> o]
    BY <2>1 DEF o
  <2>6. e \in Entity /\ e.id = n /\ e.org = o
    BY <2>2, <2>4, <2>5 DEF Entity
  <2>. QED
    BY <2>4, <2>6 DEF o
<1>. QED
  BY <1>1, <1>2

\* A plan wants what it wanted, or what is in the tree now.
PlansFrom ==
  \A q \in Rounds :
    /\ round'[q].plan.orgs \subseteq round[q].plan.orgs \cup WantedOrgs(Nodes)
    /\ round'[q].plan.teams \subseteq round[q].plan.teams \cup WantedTeams(Nodes)

LEMMA GoesFrom ==
  ASSUME PlansFit, NEW r \in Rounds, NEW s \in {"wait", "local", "orgs", "teams", "apply"}, NEW p, PlanFits(p),
         Goes(r, s, p),
         p.orgs \subseteq round[r].plan.orgs \cup WantedOrgs(Nodes),
         p.teams \subseteq round[r].plan.teams \cup WantedTeams(Nodes)
  PROVE  PlansFit' /\ PlansFrom
BY GoesFits DEF PlansFrom

LEMMA GoesNowhere ==
  ASSUME PlansFit, NEW r \in Rounds, NEW s \in {"wait", "local", "orgs", "teams", "apply"}, Goes(r, s, NoPlan)
  PROVE  PlansFit' /\ PlansFrom
<1>1. NoPlan.orgs = {} /\ NoPlan.teams = {}
  BY DEF NoPlan
<1>. QED
  BY <1>1, NoPlanFits, GoesFrom

LEMMA Gone ==
  ASSUME PlansFit, NEW r \in Rounds, NEW s, NEW p, Goes(r, s, p)
  PROVE  round'[r].at = s /\ round'[r].plan = p
  BY DEF Goes, PlansFit

\* The plan a round makes of the tree, of the organizations and of the teams upstream.
LEMMA LocalPlan ==
  ASSUME TreeInv, PlansFit, NEW r \in Rounds, PlanLocal(r)
  PROVE  Goes(r, "orgs", [orgs |-> WantedOrgs(Nodes), teams |-> WantedTeams(Nodes),
                          live |-> {}, todo |-> [v \in Verbs |-> {}]])
<1>. DEFINE new == [NoPlan EXCEPT !.orgs = WantedOrgs(Nodes), !.teams = WantedTeams(Nodes)]
<1>1. new = [orgs |-> WantedOrgs(Nodes), teams |-> WantedTeams(Nodes), live |-> NoPlan.live, todo |-> NoPlan.todo]
  <2>1. NoPlan \in PlanRecord /\ WantedOrgs(Nodes) \in SUBSET Entity
    BY NoPlanFits, Wanted DEF PlanFits
  <2>. QED
    BY <2>1, ChangedWants, Zenon
<1>2. NoPlan.live = {} /\ NoPlan.todo = [v \in Verbs |-> {}]
  BY DEF NoPlan
<1>3. Goes(r, "orgs", new)
  BY DEF PlanLocal
<1>. HIDE DEF new
<1>. QED
  BY <1>1, <1>2, <1>3

LEMMA OrgsPlan ==
  ASSUME PlansFit, NEW r \in Rounds, PlanOrgs(r)
  PROVE  LET p == round[r].plan IN
         Goes(r, "teams",
              [orgs |-> p.orgs, teams |-> p.teams,
               live |-> {e.id : e \in {w \in p.orgs : upOrg[w.id] # None}},
               todo |-> Lists(p.todo, "CreateOrganization", {w \in p.orgs : upOrg[w.id] = None},
                              "UpdateOrganization", {w \in p.orgs : upOrg[w.id] \notin {None, w.alias}})])
<1>. DEFINE p == round[r].plan
            live == {e.id : e \in {w \in p.orgs : upOrg[w.id] # None}}
            missing == {w \in p.orgs : upOrg[w.id] = None}
            other == {w \in p.orgs : upOrg[w.id] \notin {None, w.alias}}
            q == [p EXCEPT !.live = live]
            new == Filled(q, "CreateOrganization", missing, "UpdateOrganization", other)
<1>1. p \in PlanRecord /\ p.orgs \subseteq Entity /\ p.todo \in [Verbs -> SUBSET Entity]
  BY DEF PlansFit, PlanFits, PlanRecord
<1>2. Goes(r, "teams", new)
  BY Zenon DEF PlanOrgs, Filled
<1>3. live \in SUBSET Orgs /\ missing \in SUBSET Entity /\ {"CreateOrganization", "UpdateOrganization"} \subseteq Verbs
  BY <1>1 DEF Entity, Verbs
<1>. HIDE DEF live, missing, other
<1>4. q = [orgs |-> p.orgs, teams |-> p.teams, live |-> live, todo |-> p.todo]
  BY <1>1, ChangedLive
<1>5. q \in PlanRecord /\ q.orgs = p.orgs /\ q.teams = p.teams /\ q.live = live /\ q.todo = p.todo
  BY <1>1, <1>3, <1>4 DEF PlanRecord
<1>. HIDE DEF q
<1>6. new = [orgs |-> q.orgs, teams |-> q.teams, live |-> q.live,
             todo |-> Lists(q.todo, "CreateOrganization", missing, "UpdateOrganization", other)]
  BY <1>3, <1>5, ChangedLists
<1>. HIDE DEF new
<1>. QED
  BY <1>2, <1>5, <1>6 DEF live, missing, other

LEMMA TeamsPlan ==
  ASSUME PlansFit, NEW r \in Rounds, PlanTeams(r)
  PROVE  LET p == round[r].plan IN
         Goes(r, "apply",
              [orgs |-> p.orgs, teams |-> p.teams, live |-> p.live,
               todo |-> Lists(p.todo, "CreateTeam", {w \in p.teams : upTeam[w.id] = NoTeam}, "UpdateTeam",
                              {w \in p.teams : upTeam[w.id] \notin {NoTeam, [alias |-> w.alias, org |-> w.org]}})])
<1>. DEFINE p == round[r].plan
            missing == {w \in p.teams : upTeam[w.id] = NoTeam}
            other == {w \in p.teams : upTeam[w.id] \notin {NoTeam, [alias |-> w.alias, org |-> w.org]}}
            new == Filled(p, "CreateTeam", missing, "UpdateTeam", other)
<1>1. p \in PlanRecord /\ p.teams \subseteq Entity
  BY DEF PlansFit, PlanFits, PlanRecord
<1>2. Goes(r, "apply", new)
  BY Zenon DEF PlanTeams, Filled
<1>3. missing \in SUBSET Entity /\ {"CreateTeam", "UpdateTeam"} \subseteq Verbs
  BY <1>1 DEF Verbs
<1>. HIDE DEF missing, other
<1>4. new = [orgs |-> p.orgs, teams |-> p.teams, live |-> p.live,
             todo |-> Lists(p.todo, "CreateTeam", missing, "UpdateTeam", other)]
  BY <1>1, <1>3, ChangedLists
<1>. HIDE DEF new
<1>. QED
  BY <1>2, <1>4 DEF missing, other

LEMMA RoundPlans ==
  ASSUME TreeInv, PlansFit, NEW r \in Rounds, RoundStep(r)
  PROVE  PlansFit' /\ PlansFrom
<1>. DEFINE p == round[r].plan
<1>1. /\ round[r] \in RoundRecord /\ p \in PlanRecord /\ PlanFits(p)
      /\ p.orgs \subseteq Entity /\ p.teams \subseteq Entity /\ p.live \subseteq Orgs /\ p.todo \in [Verbs -> SUBSET Entity]
  BY DEF PlansFit, RoundRecord, PlanRecord
<1>2. CASE PlanLocal(r)
  <2>. DEFINE new == [orgs |-> WantedOrgs(Nodes), teams |-> WantedTeams(Nodes), live |-> {}, todo |-> [v \in Verbs |-> {}]]
  <2>1. PlanFits(new) /\ new.orgs = WantedOrgs(Nodes) /\ new.teams = WantedTeams(Nodes)
    BY Wanted DEF PlanFits, PlanRecord, Verbs
  <2>2. Goes(r, "orgs", new)
    BY <1>2, LocalPlan
  <2>. HIDE DEF new
  <2>. QED
    BY <2>1, <2>2, GoesFrom
<1>3. CASE PlanOrgs(r)
  <2>. DEFINE live == {e.id : e \in {w \in p.orgs : upOrg[w.id] # None}}
              missing == {w \in p.orgs : upOrg[w.id] = None}
              other == {w \in p.orgs : upOrg[w.id] \notin {None, w.alias}}
              todo == Lists(p.todo, "CreateOrganization", missing, "UpdateOrganization", other)
              new == [orgs |-> p.orgs, teams |-> p.teams, live |-> live, todo |-> todo]
  <2>1. Goes(r, "teams", new)
    BY <1>3, OrgsPlan
  <2>2. /\ live \in SUBSET Orgs /\ missing \in SUBSET p.orgs /\ other \in SUBSET p.orgs
        /\ "CreateOrganization" \in Verbs /\ "UpdateOrganization" \in Verbs
    BY <1>1 DEF Entity, Verbs
  <2>. HIDE DEF live, missing, other
  <2>3. /\ todo \in [Verbs -> SUBSET Entity]
        /\ todo["CreateOrganization"] \cup todo["UpdateOrganization"] \subseteq p.orgs
        /\ todo["CreateTeam"] \cup todo["UpdateTeam"] \subseteq p.teams
    BY <1>1, <2>2 DEF Verbs, PlanFits, Lists
  <2>. HIDE DEF todo
  <2>4. PlanFits(new)
    BY <1>1, <2>2, <2>3 DEF PlanFits, PlanRecord
  <2>. QED
    BY <2>1, <2>4, GoesFrom
<1>4. CASE PlanTeams(r)
  <2>. DEFINE missing == {w \in p.teams : upTeam[w.id] = NoTeam}
              other == {w \in p.teams : upTeam[w.id] \notin {NoTeam, [alias |-> w.alias, org |-> w.org]}}
              todo == Lists(p.todo, "CreateTeam", missing, "UpdateTeam", other)
              new == [orgs |-> p.orgs, teams |-> p.teams, live |-> p.live, todo |-> todo]
  <2>1. Goes(r, "apply", new)
    BY <1>4, TeamsPlan
  <2>2. /\ missing \in SUBSET p.teams /\ other \in SUBSET p.teams
        /\ "CreateTeam" \in Verbs /\ "UpdateTeam" \in Verbs
    BY <1>1 DEF Verbs
  <2>. HIDE DEF missing, other
  <2>3. /\ todo \in [Verbs -> SUBSET Entity]
        /\ todo["CreateOrganization"] \cup todo["UpdateOrganization"] \subseteq p.orgs
        /\ todo["CreateTeam"] \cup todo["UpdateTeam"] \subseteq p.teams
    BY <1>1, <2>2 DEF Verbs, PlanFits, Lists
  <2>. HIDE DEF todo
  <2>4. PlanFits(new)
    BY <1>1, <2>3 DEF PlanFits, PlanRecord
  <2>. QED
    BY <2>1, <2>4, GoesFrom
<1>5. CASE PlanFails(r) \/ RoundEnds(r)
  BY <1>5, GoesNowhere DEF PlanFails, RoundEnds
<1>6. ASSUME NEW v \in Verbs, NEW e \in p.todo[v],
             UpdateOrganization(r, e) \/ SkipTeam(r, v, e) \/ CreateTeam(r, e) \/ UpdateTeam(r, e)
      PROVE  PlansFit' /\ PlansFrom
  <2>1. PICK u \in Verbs : round' = Done(r, u, e)
    BY <1>6 DEF UpdateOrganization, SkipTeam, CreateTeam, UpdateTeam, Verbs
  <2>. QED
    BY <2>1, DoneFits DEF Fits, SamePlans, PlansFit, PlansFrom
<1>7. ASSUME NEW v \in Verbs, NEW e \in p.todo[v], CreateOrganization(r, e)
      PROVE  PlansFit' /\ PlansFrom
  <2>. DEFINE done == Done(r, "CreateOrganization", e)
  <2>1. Fits(done) /\ SamePlans(done)
    BY DoneFits DEF Verbs
  <2>. HIDE DEF done
  <2>2. PICK o \in Outcomes :
          round' = [done EXCEPT ![r].plan.live = IF Acked(o) /\ upOrg[e.id] = None THEN @ \cup {e.id} ELSE @]
    BY <1>7 DEF CreateOrganization, done
  <2>3. done[r].plan.live \subseteq Orgs /\ e.id \in Orgs
    BY <1>1, <2>1 DEF Fits, RoundRecord, PlanRecord, Entity
  <2>4. PICK l \in SUBSET Orgs : round' = [done EXCEPT ![r].plan.live = l]
    BY <2>2, <2>3
  <2>5. PlansFit' /\ SamePlans(round')
    BY <2>1, <2>4, LiveFits
  <2>. QED
    BY <2>5 DEF SamePlans, PlansFrom
<1>. QED
  BY <1>2, <1>3, <1>4, <1>5, <1>6, <1>7 DEF RoundStep

-----------------------------------------------------------------------------
(* The tree keeps its form.                                                 *)

\* What is under way of the imports.
ImportRecord ==
  [at : {"idle", "add", "create", "done", "aborted"}, dir : Directories \cup {<<>>}, picked : SUBSET Externals,
   added : SUBSET Externals, todo : SUBSET Externals, renamed : SUBSET (Orgs \X Names), made : SUBSET Orgs,
   item : Externals \cup {None}, under : Orgs \cup {None}]

ImportFits(r) ==
  /\ r \in ImportRecord
  /\ r.todo \subseteq r.added /\ r.added \subseteq r.picked /\ r.picked \subseteq DOMAIN r.dir
  /\ r.at = "create" => r.item \in r.todo

ImportsFit == import \in [Imports -> ImportRecord] /\ \A i \in Imports : ImportFits(import[i])

\* An external id belongs to one node.
ExtFits ==
  /\ ext \in [Orgs -> Externals \cup {None}]
  /\ \A n \in Orgs : ext[n] # None => n \in Nodes \cup gone
  /\ \A n \in Nodes, m \in Nodes : ext[n] = ext[m] /\ ext[n] # None => n = m

\* What the directory calls an entry is a name.
LEMMA NamesInDirectory ==
  ASSUME NEW r, ImportFits(r), NEW e \in r.picked PROVE r.dir[e].name \in Names
<1>1. r.dir \in Directories \cup {<<>>} /\ e \in DOMAIN r.dir
  BY DEF ImportFits, ImportRecord
<1>2. DOMAIN <<>> = {}
  OBVIOUS
<1>3. r.dir \in Directories
  BY <1>1, <1>2
<1>. QED
  BY <1>1, <1>3, DirectoriesAssumption

LEMMA Fresh ==
  ASSUME Unused # {} PROVE NewId \in Unused /\ NewId \in Orgs /\ path[NewId] = <<>> /\ NewId \notin Nodes /\ NewId \notin gone
<1>1. NewId \in Unused
  BY DEF NewId
<1>. QED
  BY <1>1 DEF Unused, Nodes

\* Depth 2 makes a node an organization, the flag a team; of a deleted node, what DropNode goes by.
Depth2(n) == (n \in Nodes /\ Len(path[n]) = 2) \/ (dropping[n].stage = "deleted" /\ dropping[n].depth2)
Holds(n) == n \in holder \/ (dropping[n].stage = "deleted" /\ dropping[n].holder)

\* It is what it was, nothing but an id so far, or excused.
Alike(n) ==
  \/ n \in Unused \cup excused'
  \/ (Depth2(n)' <=> Depth2(n)) /\ (Holds(n) => Holds(n)')

\* What a step leaves of the tree: ids are given out one at a time and never again, and a node
\* changes its kind in no other way.
Effect ==
  /\ excused \subseteq excused'
  /\ \A n \in Nodes' : n \in Nodes \/ (n = NewId /\ Unused # {})
  /\ Nodes \cup gone \subseteq Nodes' \cup gone'
  /\ \A n \in Orgs : Alike(n) \/ DropNode(n)

LEMMA CreateInv ==
  ASSUME TreeInv, Unused # {}, NEW p \in Nodes \cup {None},
         path' = [path EXCEPT ![NewId] = Append(PathOf(p), NewId)],
         name' \in [Orgs -> Names], behind' = behind \cup {NewId}, UNCHANGED <<holder, gone, dropping, excused>>
  PROVE  TreeInv' /\ Effect
<1>1. NewId \in Orgs /\ path[NewId] = <<>> /\ NewId \notin gone /\ NewId \in Unused /\ TreeFit
  BY Fresh DEF TreeInv
<1>2. TreeFit' /\ Nodes' = Nodes \cup {NewId}
  BY <1>1, CreatedIsWhole
<1>3. ASSUME NEW n \in Orgs, n # NewId PROVE Alike(n)
  <2>1. (n \in Nodes' <=> n \in Nodes) /\ path'[n] = path[n]
    BY <1>1, <1>2, <1>3 DEF TreeFit
  <2>. QED
    BY <2>1 DEF Alike, Depth2, Holds
<1>4. Alike(NewId)
  BY <1>1 DEF Alike
<1>5. Effect
  BY <1>2, <1>3, <1>4 DEF Effect
<1>. QED
  BY <1>1, <1>2, <1>5 DEF TreeInv

LEMMA TreeStays ==
  ASSUME TreeInv, UNCHANGED <<path, holder, gone, dropping, excused>>, name' \in [Orgs -> Names], behind' \subseteq Nodes
  PROVE  TreeInv' /\ Effect
<1>1. Nodes' = Nodes
  BY DEF Nodes
<1>2. Effect
  BY <1>1 DEF Effect, Alike, Depth2, Holds
<1>. QED
  BY <1>1, <1>2 DEF TreeInv, TreeFit

LEMMA InitTree == ImportInit => TreeInv
<1>. SUFFICES ASSUME ImportInit PROVE TreeInv
  OBVIOUS
<1>1. PICK t \in Trees : path = t.path /\ name = t.name /\ holder = t.holder
  BY DEF ImportInit, Init
<1>2. TreeFit /\ name \in [Orgs -> Names] /\ holder \subseteq Nodes
  BY <1>1, TreesAssumption DEF TreeFit, Nodes
<1>3. dropping \in [Orgs -> DroppingSet] /\ \A n \in Orgs : dropping[n].stage = "none"
  BY DEF ImportInit, Init, DroppingSet, Kept
<1>. QED
  BY <1>2, <1>3 DEF ImportInit, Init, TreeInv

LEMMA HandlerTree ==
  ASSUME TreeInv, HandlerStep PROVE TreeInv' /\ Effect
<1>. USE DEF tree, trigger, upstream
<1>1. ASSUME NEW p \in Orgs \cup {None}, HandleCreate(p) PROVE TreeInv' /\ Effect
  BY <1>1, CreateInv DEF HandleCreate, Edited, TreeInv
<1>2. ASSUME NEW n \in Orgs, NEW p \in Orgs \cup {None}, HandleMove(n, p) PROVE TreeInv' /\ Effect
  <2>. DEFINE new == Append(PathOf(p), n)
  <2>1. /\ n \in Nodes /\ p \in Nodes \cup {None} /\ p \notin Subtree(n)
        /\ path' = [o \in Orgs |-> IF o \in Subtree(n)
                                  THEN new \o SubSeq(path[o], Len(path[n]) + 1, Len(path[o])) ELSE path[o]]
    <3>1. None \notin Subtree(n)
      BY NoneAssumption DEF Subtree, Nodes
    <3>. QED
      BY <1>2, <3>1 DEF HandleMove
  <2>2. TreeFit' /\ Nodes' = Nodes
    BY <2>1, MovedIsWhole DEF TreeInv
  <2>3. UNCHANGED <<name, holder, gone, dropping>> /\ behind' = behind \cup Subtree(n)
    BY <1>2 DEF HandleMove, Edited
  <2>4. excused' \subseteq Orgs /\ Subtree(n) \subseteq Nodes
    BY <1>2 DEF HandleMove, TreeInv, Subtree, Nodes
  <2>5. ASSUME NEW o \in Orgs PROVE Alike(o)
    <3>1. CASE o \in Subtree(n)
      BY <1>2, <2>1, <2>2, <2>3, <3>1 DEF HandleMove, Alike, Depth2, Holds
    <3>2. CASE o \notin Subtree(n)
      <4>1. path'[o] = path[o]
        BY <2>1, <3>2
      <4>. QED
        BY <2>2, <2>3, <4>1 DEF Alike, Depth2, Holds
    <3>. QED
      BY <3>1, <3>2
  <2>6. Effect
    BY <1>2, <2>2, <2>3, <2>5 DEF HandleMove, Effect
  <2>. QED
    BY <2>2, <2>3, <2>4, <2>6 DEF TreeInv
<1>3. ASSUME NEW n \in Orgs, NEW nm \in Names, HandleRename(n, nm) PROVE TreeInv' /\ Effect
  BY <1>3, TreeStays DEF HandleRename, Edited, TreeInv
<1>4. ASSUME NEW n \in Orgs, HandleSetKeyHolder(n) PROVE TreeInv' /\ Effect
  <2>1. UNCHANGED <<path, name, gone, dropping>> /\ holder' \subseteq holder \cup {n} /\ n \in Nodes
        /\ excused' \subseteq excused \cup {n} /\ behind' = behind \cup {n}
        /\ holder \subseteq holder' \cup excused' /\ excused \subseteq excused'
    BY <1>4 DEF HandleSetKeyHolder, Edited
  <2>2. Nodes' = Nodes
    BY <2>1 DEF Nodes
  <2>3. Effect
    BY <2>1, <2>2 DEF Effect, Alike, Depth2, Holds
  <2>. QED
    BY <2>1, <2>2, <2>3 DEF TreeInv, TreeFit
<1>5. ASSUME NEW n \in Orgs, DeleteGet(n) PROVE TreeInv' /\ Effect
  <2>1. /\ UNCHANGED <<path, name, holder, gone, behind, excused>> /\ n \notin gone
        /\ dropping' = [dropping EXCEPT ![n] = [stage |-> "read", depth2 |-> Len(path[n]) = 2, holder |-> n \in holder]]
    BY <1>5 DEF DeleteGet, TreeInv
  <2>2. Nodes' = Nodes
    BY <2>1 DEF Nodes
  <2>3. [stage |-> "read", depth2 |-> Len(path[n]) = 2, holder |-> n \in holder] \in DroppingSet
    BY DEF DroppingSet
  <2>4. ASSUME NEW m \in Orgs PROVE Alike(m)
    <3>1. dropping[n].stage # "deleted"
      BY <2>1 DEF TreeInv
    <3>2. m # n => dropping'[m] = dropping[m]
      BY <2>1 DEF TreeInv
    <3>3. dropping'[n].stage = "read"
      BY <2>1 DEF TreeInv
    <3>. QED
      BY <2>1, <2>2, <3>1, <3>2, <3>3 DEF Alike, Depth2, Holds
  <2>5. Effect
    BY <2>1, <2>2, <2>4 DEF Effect
  <2>. QED
    BY <2>1, <2>2, <2>3, <2>5 DEF TreeInv, TreeFit
<1>6. ASSUME NEW n \in Orgs, DeleteRow(n) PROVE TreeInv' /\ Effect
  <2>1. /\ n \in Nodes /\ Subtree(n) = {n} /\ path' = [path EXCEPT ![n] = <<>>]
        /\ UNCHANGED name /\ holder' = holder \ {n} /\ gone' = gone \cup {n} /\ behind' = behind \ {n}
        /\ excused' \subseteq excused \cup {n} /\ excused \subseteq excused' /\ (n \in excused' \/ FreshlyRead(n))
    BY <1>6 DEF DeleteRow, Leaf
  <2>2. TreeFit' /\ Nodes' = Nodes \ {n}
    BY <2>1, DeletedIsWhole DEF TreeInv
  <2>3. /\ dropping' \in [Orgs -> DroppingSet] /\ dropping'[n].stage # "read"
        /\ \A m \in Orgs \ {n} : dropping'[m] = dropping[m]
        /\ \/ n \in excused'
           \/ /\ dropping'[n].stage = "deleted"
              /\ dropping'[n].depth2 = dropping[n].depth2 /\ dropping'[n].holder = dropping[n].holder
    <3>1. CASE dropping' = [dropping EXCEPT ![n].stage = "deleted"]
      BY <3>1 DEF TreeInv, DroppingSet
    <3>2. CASE dropping' = [dropping EXCEPT ![n] = Kept] /\ n \in excused'
      BY <3>2 DEF TreeInv, DroppingSet, Kept
    <3>. QED
      BY <1>6, <3>1, <3>2 DEF DeleteRow
  <2>4. ASSUME NEW m \in Orgs \ {n} PROVE Alike(m)
    <3>1. path'[m] = path[m]
      BY <2>1 DEF TreeInv, TreeFit
    <3>. QED
      BY <2>1, <2>2, <2>3, <3>1 DEF Alike, Depth2, Holds
  <2>5. Alike(n)
    <3>1. CASE n \notin excused' /\ FreshlyRead(n)
      <4>. DEFINE d == Len(path[n]) = 2
                  h == n \in holder
      <4>1. dropping[n].stage = "read" /\ dropping[n].depth2 = d /\ dropping[n].holder = h
        <5>. HIDE DEF d, h
        <5>1. dropping[n] = [stage |-> "read", depth2 |-> d, holder |-> h]
          BY <3>1, Zenon DEF d, h, FreshlyRead
        <5>. QED
          BY <5>1
      <4>2. Depth2(n)' <=> d
        BY <2>1, <2>2, <2>3, <3>1, <4>1, Zenon DEF Depth2
      <4>3. Depth2(n) <=> d
        BY <2>1, <4>1 DEF Depth2
      <4>4. Holds(n)' <=> h
        BY <2>1, <2>2, <2>3, <3>1, <4>1, Zenon DEF Holds
      <4>5. Holds(n) <=> h
        BY <2>1, <4>1 DEF Holds
      <4>. HIDE DEF d, h
      <4>. QED
        BY <4>2, <4>3, <4>4, <4>5, Zenon DEF Alike
    <3>2. CASE n \in excused'
      BY <3>2 DEF Alike
    <3>. QED
      BY <2>1, <3>1, <3>2
  <2>6. Effect
    BY <2>1, <2>2, <2>4, <2>5 DEF Effect
  <2>. QED
    BY <2>1, <2>2, <2>3, <2>6 DEF TreeInv
<1>7. ASSUME NEW n \in Orgs, DeleteRefused(n) \/ DropNode(n) PROVE TreeInv' /\ Effect
  <2>1. UNCHANGED <<path, name, holder, gone, behind>> /\ dropping' = [dropping EXCEPT ![n] = Kept]
        /\ excused' \subseteq excused \cup {n} /\ excused \subseteq excused'
    BY <1>7 DEF DeleteRefused, DropNode
  <2>2. Nodes' = Nodes
    BY <2>1 DEF Nodes
  <2>3. Kept \in DroppingSet /\ Kept.stage = "none"
    BY DEF DroppingSet, Kept
  <2>4. dropping'[n].stage = "none" /\ \A m \in Orgs \ {n} : dropping'[m] = dropping[m]
    BY <2>1, <2>3 DEF TreeInv
  <2>5. ASSUME NEW m \in Orgs PROVE Alike(m) \/ DropNode(m)
    <3>1. CASE m # n
      BY <2>1, <2>2, <2>4, <3>1 DEF Alike, Depth2, Holds
    <3>2. CASE m = n /\ DeleteRefused(n)
      <4>1. dropping[n].stage = "read"
        BY <3>2 DEF DeleteRefused
      <4>. QED
        BY <2>1, <2>2, <2>4, <3>2, <4>1 DEF Alike, Depth2, Holds
    <3>. QED
      BY <1>7, <3>1, <3>2
  <2>6. Effect
    BY <2>1, <2>2, <2>5 DEF Effect
  <2>. QED
    BY <2>1, <2>2, <2>3, <2>6 DEF TreeInv, TreeFit
<1>8. ASSUME Nudge PROVE TreeInv' /\ Effect
  BY <1>8, TreeStays DEF Nudge, TreeInv
<1>. QED
  BY <1>1, <1>2, <1>3, <1>4, <1>5, <1>6, <1>7, <1>8 DEF HandlerStep

LEMMA ImportTree ==
  ASSUME TreeInv, ImportsFit, NEW i \in Imports, ImportStep(i) PROVE TreeInv' /\ Effect
<1>. USE DEF tree, trigger, upstream
<1>1. ASSUME NEW d \in Directories, NEW S \in Selections, Fetch(i, d, S \cap DOMAIN d) PROVE TreeInv' /\ Effect
  BY <1>1, TreeStays DEF Fetch, TreeInv
<1>2. ASSUME NEW e \in import[i].todo, Look(i, e) PROVE TreeInv' /\ Effect
  BY <1>2, TreeStays DEF Look, vars, TreeInv
<1>3. ASSUME ImportCreate(i) PROVE TreeInv' /\ Effect
  <2>. DEFINE e == import[i].item
  <2>1. CASE import[i].under \in Nodes \cup {None} /\ Unique(e)
    <3>1. import[i].dir[e].name \in Names
      BY <1>3, NamesInDirectory DEF ImportsFit, ImportFits, ImportCreate, Stands
    <3>2. name' \in [Orgs -> Names]
      BY <1>3, <2>1, <3>1 DEF ImportCreate, TreeInv
    <3>. QED
      BY <1>3, <2>1, <3>2, CreateInv DEF ImportCreate
  <2>2. CASE ~(import[i].under \in Nodes \cup {None} /\ Unique(e))
    BY <1>3, <2>2, TreeStays DEF ImportCreate, TreeInv
  <2>. QED
    BY <2>1, <2>2
<1>4. ASSUME NEW r \in import[i].renamed, ImportRename(i, r) PROVE TreeInv' /\ Effect
  <2>1. r[1] \in Orgs /\ r[2] \in Names
    BY DEF ImportsFit, ImportRecord
  <2>2. name' \in [Orgs -> Names] /\ behind' \subseteq Nodes
    BY <1>4, <2>1 DEF ImportRename, TreeInv
  <2>. QED
    BY <1>4, <2>2, TreeStays DEF ImportRename, TreeInv
<1>5. ASSUME ImportEnds(i) \/ ImportFails(i) PROVE TreeInv' /\ Effect
  BY <1>5, TreeStays DEF ImportEnds, ImportFails, TreeInv
<1>. QED
  BY <1>1, <1>2, <1>3, <1>4, <1>5 DEF ImportStep

LEMMA RestartTree ==
  ASSUME TreeInv, Restart PROVE TreeInv' /\ Effect
<1>1. /\ UNCHANGED <<path, name, holder, gone>> /\ dropping' = [n \in Orgs |-> Kept] /\ behind' = {}
      /\ excused' = excused \cup {n \in Orgs : dropping[n].stage = "deleted"} /\ excused' \subseteq Orgs
  BY DEF Restart, tree, TreeInv
<1>2. Nodes' = Nodes
  BY <1>1 DEF Nodes
<1>3. Kept \in DroppingSet /\ Kept.stage = "none"
  BY DEF DroppingSet, Kept
<1>4. Effect
  BY <1>1, <1>2, <1>3 DEF Effect, Alike, Depth2, Holds
<1>. QED
  BY <1>1, <1>2, <1>3, <1>4 DEF TreeInv, TreeFit

LEMMA NextTree == TreeInv /\ ImportsFit /\ [ImportNext]_allVars => TreeInv' /\ Effect
<1>. SUFFICES ASSUME TreeInv, ImportsFit, [ImportNext]_allVars PROVE TreeInv' /\ Effect
  OBVIOUS
<1>1. ASSUME HandlerStep PROVE TreeInv' /\ Effect
  BY <1>1, HandlerTree
<1>2. ASSUME LoopBegins \/ \E r \in Manual : HandleTrigger(r) PROVE TreeInv' /\ Effect
  BY <1>2, TreeStays DEF LoopBegins, HandleTrigger, TreeInv, tree, trigger
<1>3. ASSUME NEW r \in Rounds, RoundStep(r) PROVE TreeInv' /\ Effect
  BY <1>3, RoundsLeave, TreeStays DEF TreeInv, tree, trigger
<1>4. ASSUME NEW i \in Imports, ImportStep(i) PROVE TreeInv' /\ Effect
  BY <1>4, ImportTree
<1>5. ASSUME Restart PROVE TreeInv' /\ Effect
  BY <1>5, RestartTree
<1>6. ASSUME UNCHANGED allVars PROVE TreeInv' /\ Effect
  BY <1>6, TreeStays DEF TreeInv, allVars, vars, tree, trigger
<1>. QED
  BY <1>1, <1>2, <1>3, <1>4, <1>5, <1>6 DEF ImportNext, SyncStep

-----------------------------------------------------------------------------
(* Counters, plans, and what is upstream.                                   *)

CountsFit ==
  /\ nudged \in BOOLEAN /\ due \in Nat /\ due <= edits
  /\ edits \in 0..MaxEdits /\ faults \in 0..MaxFaults

LEMMA CostsOne ==
  ASSUME faults \in 0..MaxFaults, NEW o \in Outcomes, Costs(o) PROVE faults' \in 0..MaxFaults
BY BoundsAssumption DEF Costs

LEMMA NextCounts == CountsFit /\ [ImportNext]_allVars => CountsFit'
<1>. SUFFICES ASSUME CountsFit, [ImportNext]_allVars PROVE CountsFit'
  OBVIOUS
<1>. USE BoundsAssumption DEF CountsFit, tree, trigger, upstream
<1>1. ASSUME HandlerStep PROVE CountsFit'
  <2>1. ASSUME NEW p \in Orgs \cup {None}, HandleCreate(p) PROVE CountsFit'
    BY <2>1, CostsOne DEF HandleCreate, Edited, Called, Outcomes
  <2>2. ASSUME NEW n \in Orgs, NEW p \in Orgs \cup {None}, HandleMove(n, p) PROVE CountsFit'
    BY <2>2, CostsOne DEF HandleMove, Edited, Called, Outcomes
  <2>3. ASSUME NEW n \in Orgs, NEW nm \in Names, HandleRename(n, nm) PROVE CountsFit'
    BY <2>3, CostsOne DEF HandleRename, Edited, Called, Outcomes
  <2>4. ASSUME NEW n \in Orgs, HandleSetKeyHolder(n) PROVE CountsFit'
    BY <2>4, CostsOne DEF HandleSetKeyHolder, Edited, Called, Outcomes
  <2>5. ASSUME NEW n \in Orgs, DeleteGet(n) PROVE CountsFit'
    BY <2>5 DEF DeleteGet, Called
  <2>6. ASSUME NEW n \in Orgs, DeleteRow(n) \/ DeleteRefused(n) PROVE CountsFit'
    BY <2>6, CostsOne DEF DeleteRow, DeleteRefused, Outcomes
  <2>7. ASSUME NEW n \in Orgs, DropNode(n) PROVE CountsFit'
    BY <2>7, CostsOne DEF DropNode
  <2>8. ASSUME Nudge PROVE CountsFit'
    BY <2>8 DEF Nudge
  <2>. QED
    BY <1>1, <2>1, <2>2, <2>3, <2>4, <2>5, <2>6, <2>7, <2>8 DEF HandlerStep
<1>2. ASSUME LoopBegins PROVE CountsFit'
  BY <1>2 DEF LoopBegins
<1>3. ASSUME NEW r \in Manual, HandleTrigger(r) PROVE CountsFit'
  BY <1>3 DEF HandleTrigger, Called
<1>4. ASSUME NEW r \in Rounds, RoundStep(r) PROVE CountsFit'
  <2>1. faults' \in 0..MaxFaults
    BY <1>4, CostsOne DEF RoundStep, PlanLocal, PlanOrgs, PlanTeams, PlanFails, RoundEnds, CreateOrganization,
         UpdateOrganization, SkipTeam, CreateTeam, UpdateTeam, Outcomes
  <2>. QED
    BY <1>4, <2>1, RoundsLeave
<1>5. ASSUME NEW i \in Imports, ImportStep(i) PROVE CountsFit'
  <2>1. ASSUME NEW d \in Directories, NEW S \in Selections, Fetch(i, d, S \cap DOMAIN d) PROVE CountsFit'
    BY <2>1 DEF Fetch, Called
  <2>2. ASSUME NEW e \in import[i].todo, Look(i, e) PROVE CountsFit'
    BY <2>2 DEF Look, vars
  <2>3. ASSUME ImportCreate(i) \/ \E r \in import[i].renamed : ImportRename(i, r) PROVE CountsFit'
    BY <2>3, CostsOne DEF ImportCreate, ImportRename, Outcomes
  <2>4. ASSUME ImportEnds(i) PROVE CountsFit'
    BY <2>4 DEF ImportEnds
  <2>5. ASSUME ImportFails(i) PROVE CountsFit'
    BY <2>5, CostsOne DEF ImportFails, Outcomes
  <2>. QED
    BY <1>5, <2>1, <2>2, <2>3, <2>4, <2>5 DEF ImportStep
<1>6. ASSUME Restart PROVE CountsFit'
  <2>1. Costs("err") /\ nudged' = FALSE /\ due' = 0 /\ edits' = edits
    BY <1>6 DEF Restart
  <2>2. faults' \in 0..MaxFaults
    BY <2>1, CostsOne DEF Outcomes
  <2>3. due' \in Nat /\ due' <= edits' /\ edits' \in 0..MaxEdits
    BY <2>1
  <2>4. nudged' \in BOOLEAN
    BY <2>1, Zenon
  <2>. QED
    BY <2>2, <2>3, <2>4, Zenon
<1>7. ASSUME UNCHANGED allVars PROVE CountsFit'
  BY <1>7 DEF allVars, vars
<1>. QED
  BY <1>1, <1>2, <1>3, <1>4, <1>5, <1>6, <1>7 DEF ImportNext, SyncStep

LEMMA NextPlans == TreeInv /\ PlansFit /\ [ImportNext]_allVars => PlansFit' /\ PlansFrom
<1>. SUFFICES ASSUME TreeInv, PlansFit, [ImportNext]_allVars PROVE PlansFit' /\ PlansFrom
  OBVIOUS
<1>1. ASSUME UNCHANGED round PROVE PlansFit' /\ PlansFrom
  BY <1>1 DEF PlansFit, PlansFrom
<1>2. ASSUME LoopBegins PROVE PlansFit' /\ PlansFrom
  BY <1>2, GoesNowhere DEF LoopBegins, Rounds
<1>3. ASSUME NEW r \in Manual, HandleTrigger(r) PROVE PlansFit' /\ PlansFrom
  BY <1>3, GoesNowhere DEF HandleTrigger, Rounds
<1>4. ASSUME NEW r \in Rounds, RoundStep(r) PROVE PlansFit' /\ PlansFrom
  BY <1>4, RoundPlans
<1>5. ASSUME Restart PROVE PlansFit' /\ PlansFrom
  <2>1. \A r \in Rounds : round'[r] \in RoundRecord /\ round'[r].plan = NoPlan
    BY <1>5, NoPlanFits DEF Restart, RoundRecord, PlanFits
  <2>2. round' \in [Rounds -> RoundRecord]
    BY <1>5, <2>1 DEF Restart
  <2>3. NoPlan.orgs = {} /\ NoPlan.teams = {}
    BY DEF NoPlan
  <2>. QED
    BY <2>1, <2>2, <2>3, NoPlanFits DEF PlansFit, PlansFrom
<1>6. HandlerStep => UNCHANGED round
  BY HandlersLeave
<1>7. \A i \in Imports : ImportStep(i) => UNCHANGED round
  BY ImportsLeave
<1>8. UNCHANGED allVars => UNCHANGED round
  BY DEF allVars, vars
<1>. QED
  BY <1>1, <1>2, <1>3, <1>4, <1>5, <1>6, <1>7, <1>8 DEF ImportNext, SyncStep

\* What a round may do upstream: give an organization or a team the name of an entry of its
\* plan; a team then has the organization of the entry, which exists, or keeps its own.
WritesOrg(r) ==
  /\ \E e \in round[r].plan.orgs : upOrg' = [upOrg EXCEPT ![e.id] = e.alias]
  /\ UNCHANGED upTeam

WritesTeam(r) ==
  /\ \E e \in round[r].plan.teams, o \in Orgs \cup {None} :
       /\ upTeam' = [upTeam EXCEPT ![e.id] = [alias |-> e.alias, org |-> o]]
       /\ (o = e.org /\ Attachable(o)) \/ (e.org = None /\ o = upTeam[e.id].org)
  /\ UNCHANGED upOrg

UpFits == upOrg \in [Orgs -> Names \cup {None}] /\ upTeam \in [Orgs -> Team]

LEMMA RoundWrites ==
  ASSUME PlansFit, UpFits, NEW r \in Rounds, RoundStep(r)
  PROVE  UNCHANGED upstream \/ WritesOrg(r) \/ WritesTeam(r)
<1>. USE DEF upstream
<1>. DEFINE p == round[r].plan
            Goal == UNCHANGED upstream \/ WritesOrg(r) \/ WritesTeam(r)
<1>1. /\ p.orgs \subseteq Entity /\ p.teams \subseteq Entity
      /\ p.todo["CreateOrganization"] \cup p.todo["UpdateOrganization"] \subseteq p.orgs
      /\ p.todo["CreateTeam"] \cup p.todo["UpdateTeam"] \subseteq p.teams
  BY DEF PlansFit, PlanFits, PlanRecord
<1>2. ASSUME PlanLocal(r) \/ PlanOrgs(r) \/ PlanTeams(r) \/ PlanFails(r) \/ RoundEnds(r) PROVE Goal
  BY <1>2 DEF PlanLocal, PlanOrgs, PlanTeams, PlanFails, RoundEnds
<1>3. ASSUME NEW e, CreateOrganization(r, e) PROVE Goal
  BY <1>1, <1>3 DEF CreateOrganization, Turn, WritesOrg
<1>4. ASSUME NEW e, UpdateOrganization(r, e) PROVE Goal
  BY <1>1, <1>4 DEF UpdateOrganization, Turn, WritesOrg
<1>5. ASSUME NEW v, NEW e, SkipTeam(r, v, e) PROVE Goal
  BY <1>5 DEF SkipTeam
<1>6. ASSUME NEW e, CreateTeam(r, e) PROVE Goal
  <2>1. e \in p.teams /\ e.org \in Orgs \cup {None}
    BY <1>1, <1>6 DEF CreateTeam, Turn, Entity
  <2>2. CASE UNCHANGED upTeam
    BY <1>6, <2>2 DEF CreateTeam
  <2>3. CASE ~UNCHANGED upTeam
    <3>1. /\ UNCHANGED upOrg /\ Attachable(e.org)
          /\ upTeam' = [upTeam EXCEPT ![e.id] = [alias |-> e.alias, org |-> e.org]]
      BY <1>6, <2>3 DEF CreateTeam
    <3>. QED
      BY <2>1, <3>1 DEF WritesTeam
  <2>. QED
    BY <2>2, <2>3
<1>7. ASSUME NEW e, UpdateTeam(r, e) PROVE Goal
  <2>1. e \in p.teams /\ e.org \in Orgs \cup {None} /\ e.id \in Orgs
    BY <1>1, <1>7 DEF UpdateTeam, Turn, Entity
  <2>2. upTeam[e.id].org \in Orgs \cup {None}
    BY <2>1 DEF UpFits, Team
  <2>3. CASE UNCHANGED upTeam
    BY <1>7, <2>3 DEF UpdateTeam
  <2>4. CASE ~UNCHANGED upTeam
    <3>1. /\ UNCHANGED upOrg /\ Attachable(e.org)
          /\ upTeam' = [upTeam EXCEPT ![e.id] = [alias |-> e.alias, org |-> IF e.org = None THEN @.org ELSE e.org]]
      BY <1>7, <2>4 DEF UpdateTeam
    <3>. DEFINE o == IF e.org = None THEN upTeam[e.id].org ELSE e.org
    <3>2. o \in Orgs \cup {None} /\ ((o = e.org /\ Attachable(o)) \/ (e.org = None /\ o = upTeam[e.id].org))
      BY <2>1, <2>2, <3>1
    <3>3. upTeam' = [upTeam EXCEPT ![e.id] = [alias |-> e.alias, org |-> o]]
      BY <3>1, Zenon DEF o
    <3>. HIDE DEF o
    <3>. QED
      BY <2>1, <3>1, <3>2, <3>3 DEF WritesTeam
  <2>. QED
    BY <2>3, <2>4
<1>. QED
  BY <1>2, <1>3, <1>4, <1>5, <1>6, <1>7 DEF RoundStep

\* A deletion, and only that, takes teams and organizations away.
LEMMA StepWrites ==
  ASSUME PlansFit, UpFits, [ImportNext]_allVars
  PROVE  \/ UNCHANGED upstream
         \/ \E r \in Rounds : WritesOrg(r) \/ WritesTeam(r)
         \/ \E n \in Orgs : DropNode(n)
<1>1. ASSUME HandlerStep PROVE UNCHANGED upstream \/ \E n \in Orgs : DropNode(n)
  BY <1>1 DEF HandlerStep, HandleCreate, HandleMove, HandleRename, HandleSetKeyHolder, Edited, DeleteGet,
              DeleteRow, DeleteRefused, Nudge
<1>2. ASSUME LoopBegins \/ (\E r \in Manual : HandleTrigger(r)) \/ Restart \/ UNCHANGED allVars
      PROVE  UNCHANGED upstream
  BY <1>2 DEF LoopBegins, HandleTrigger, Restart, allVars, vars
<1>3. ASSUME NEW i \in Imports, ImportStep(i) PROVE UNCHANGED upstream
  BY <1>3, ImportsLeave
<1>. QED
  BY <1>1, <1>2, <1>3, RoundWrites DEF ImportNext, SyncStep

LEMMA NextUp == PlansFit /\ UpFits /\ [ImportNext]_allVars => UpFits'
<1>. SUFFICES ASSUME PlansFit, UpFits, [ImportNext]_allVars PROVE UpFits'
  OBVIOUS
<1>1. \A r \in Rounds : round[r].plan.orgs \subseteq Entity /\ round[r].plan.teams \subseteq Entity
  BY DEF PlansFit, PlanFits, PlanRecord
<1>2. ASSUME UNCHANGED upstream PROVE UpFits'
  BY <1>2 DEF UpFits, upstream
<1>3. ASSUME NEW r \in Rounds, WritesOrg(r) PROVE UpFits'
  BY <1>1, <1>3 DEF WritesOrg, UpFits, Entity
<1>4. ASSUME NEW r \in Rounds, WritesTeam(r) PROVE UpFits'
  <2>1. PICK e \in round[r].plan.teams, o \in Orgs \cup {None} :
          upTeam' = [upTeam EXCEPT ![e.id] = [alias |-> e.alias, org |-> o]]
    BY <1>4 DEF WritesTeam
  <2>2. [alias |-> e.alias, org |-> o] \in Team
    BY <1>1 DEF Team, Entity
  <2>. QED
    BY <1>4, <2>1, <2>2 DEF WritesTeam, UpFits
<1>5. ASSUME NEW n \in Orgs, DropNode(n) PROVE UpFits'
  <2>1. NoTeam \in Team
    BY DEF NoTeam, Team
  <2>2. upOrg' \in [Orgs -> Names \cup {None}]
    BY <1>5 DEF DropNode, UpFits
  <2>3. upTeam' \in {upTeam, [t \in Orgs |-> IF upTeam[t].org = n THEN NoTeam ELSE upTeam[t]],
                     [upTeam EXCEPT ![n] = NoTeam]}
    BY <1>5 DEF DropNode
  <2>. QED
    BY <2>1, <2>2, <2>3 DEF UpFits
<1>. QED
  BY <1>2, <1>3, <1>4, <1>5, StepWrites

-----------------------------------------------------------------------------
(* The imports.                                                             *)

\* A call with one field changed.
WithAt(r, x) == [r EXCEPT !.at = x]
WithDir(r, x) == [r EXCEPT !.dir = x]
WithPicked(r, x) == [r EXCEPT !.picked = x]
WithAdded(r, x) == [r EXCEPT !.added = x]
WithTodo(r, x) == [r EXCEPT !.todo = x]
WithRenamed(r, x) == [r EXCEPT !.renamed = x]
WithMade(r, x) == [r EXCEPT !.made = x]
WithItem(r, x) == [r EXCEPT !.item = x]
WithUnder(r, x) == [r EXCEPT !.under = x]

\* c is r but for the field f.
But(c, r, f) ==
  /\ c \in ImportRecord
  /\ (f = "at" \/ c.at = r.at) /\ (f = "dir" \/ c.dir = r.dir) /\ (f = "picked" \/ c.picked = r.picked)
  /\ (f = "added" \/ c.added = r.added) /\ (f = "todo" \/ c.todo = r.todo)
  /\ (f = "renamed" \/ c.renamed = r.renamed) /\ (f = "made" \/ c.made = r.made)
  /\ (f = "item" \/ c.item = r.item) /\ (f = "under" \/ c.under = r.under)

LEMMA ButAt ==
  ASSUME NEW r \in ImportRecord, NEW x \in {"idle", "add", "create", "done", "aborted"}
  PROVE  But(WithAt(r, x), r, "at") /\ WithAt(r, x).at = x
BY DEF ImportRecord, But, WithAt

LEMMA ButDir ==
  ASSUME NEW r \in ImportRecord, NEW x \in Directories
  PROVE  But(WithDir(r, x), r, "dir") /\ WithDir(r, x).dir = x
BY DEF ImportRecord, But, WithDir

LEMMA ButPicked ==
  ASSUME NEW r \in ImportRecord, NEW x \in SUBSET Externals
  PROVE  But(WithPicked(r, x), r, "picked") /\ WithPicked(r, x).picked = x
BY DEF ImportRecord, But, WithPicked

LEMMA ButAdded ==
  ASSUME NEW r \in ImportRecord, NEW x \in SUBSET Externals
  PROVE  But(WithAdded(r, x), r, "added") /\ WithAdded(r, x).added = x
BY DEF ImportRecord, But, WithAdded

LEMMA ButTodo ==
  ASSUME NEW r \in ImportRecord, NEW x \in SUBSET Externals
  PROVE  But(WithTodo(r, x), r, "todo") /\ WithTodo(r, x).todo = x
BY DEF ImportRecord, But, WithTodo

LEMMA ButRenamed ==
  ASSUME NEW r \in ImportRecord, NEW x \in SUBSET (Orgs \X Names)
  PROVE  But(WithRenamed(r, x), r, "renamed") /\ WithRenamed(r, x).renamed = x
BY DEF ImportRecord, But, WithRenamed

LEMMA ButMade ==
  ASSUME NEW r \in ImportRecord, NEW x \in SUBSET Orgs
  PROVE  But(WithMade(r, x), r, "made") /\ WithMade(r, x).made = x
BY DEF ImportRecord, But, WithMade

LEMMA ButItem ==
  ASSUME NEW r \in ImportRecord, NEW x \in Externals \cup {None}
  PROVE  But(WithItem(r, x), r, "item") /\ WithItem(r, x).item = x
BY DEF ImportRecord, But, WithItem

LEMMA ButUnder ==
  ASSUME NEW r \in ImportRecord, NEW x \in Orgs \cup {None}
  PROVE  But(WithUnder(r, x), r, "under") /\ WithUnder(r, x).under = x
BY DEF ImportRecord, But, WithUnder

LEMMA NoImportFits == ImportFits(NoImport) /\ \A s \in {"done", "aborted"} : ImportFits([NoImport EXCEPT !.at = s])
<1>1. NoImport \in ImportRecord
  BY DEF NoImport, ImportRecord
<1>2. ASSUME NEW s \in {"done", "aborted"} PROVE ImportFits([NoImport EXCEPT !.at = s])
  BY <1>1 DEF NoImport, ImportFits, ImportRecord
<1>. QED
  BY <1>1, <1>2 DEF NoImport, ImportFits

LEMMA OneImport ==
  ASSUME ImportsFit, NEW i \in Imports, NEW r, ImportFits(r), import' = [import EXCEPT ![i] = r]
  PROVE  ImportsFit' /\ import'[i] = r /\ \A j \in Imports \ {i} : import'[j] = import[j]
BY DEF ImportsFit, ImportFits

\* A call goes on, with what it has just written among what it has made; or it is aborted, with what
\* its last statement has written nevertheless among what nobody will nudge for; or it ends.
Carries(i) ==
  /\ \A j \in Imports \ {i} : import'[j] = import[j]
  /\ behind \subseteq behind'
  /\ \/ /\ import'[i].at \in {"add", "create"} /\ import[i].made \subseteq import'[i].made
        /\ behind' \subseteq behind \cup import'[i].made /\ silent' = silent
     \/ \E written \in SUBSET Orgs : Abort(i, written) /\ behind' = behind \cup written
     \/ (nudged' = TRUE /\ silent' = silent)

LEMMA GoesOn ==
  ASSUME ImportsFit, NEW i \in Imports, import' \in [Imports -> ImportRecord],
         \A j \in Imports \ {i} : import'[j] = import[j], ImportFits(import'[i]),
         import'[i].at \in {"add", "create"}, import[i].made \subseteq import'[i].made,
         behind \subseteq behind', behind' \subseteq behind \cup import'[i].made, silent' = silent
  PROVE  ImportsFit' /\ Carries(i)
<1>1. \A j \in Imports : ImportFits(import'[j])
  BY DEF ImportsFit
<1>. QED
  BY <1>1 DEF ImportsFit, ImportFits, Carries

LEMMA AbortFits ==
  ASSUME ImportsFit, NEW i \in Imports, NEW written \in SUBSET Orgs, Abort(i, written), behind' = behind \cup written
  PROVE  ImportsFit' /\ Carries(i) /\ import'[i].at = "aborted"
<1>. DEFINE r == [NoImport EXCEPT !.at = "aborted"]
<1>1. import' = [import EXCEPT ![i] = r] /\ ImportFits(r)
  BY NoImportFits DEF Abort
<1>2. r.at = "aborted"
  BY DEF NoImport
<1>. HIDE DEF r
<1>3. ImportsFit' /\ import'[i] = r /\ \A j \in Imports \ {i} : import'[j] = import[j]
  BY <1>1, OneImport
<1>. QED
  BY <1>2, <1>3 DEF Carries

LEMMA AbortStays ==
  ASSUME ImportsFit, NEW i \in Imports, Abort(i, {}), behind' = behind
  PROVE  ImportsFit' /\ Carries(i) /\ import'[i].at = "aborted"
<1>1. {} \in SUBSET Orgs /\ behind' = behind \cup {}
  OBVIOUS
<1>. QED
  BY <1>1, AbortFits

\* The call goes on with the directory and the selection it has.
Continues(i, at, todo, renamed, made) ==
  /\ import' \in [Imports -> ImportRecord] /\ \A j \in Imports \ {i} : import'[j] = import[j]
  /\ import'[i].dir = import[i].dir /\ import'[i].picked = import[i].picked /\ import'[i].added = import[i].added
  /\ import'[i].at = at /\ import'[i].todo = todo /\ import'[i].renamed = renamed /\ import'[i].made = made

LEMMA Replaced ==
  ASSUME ImportsFit, NEW i \in Imports, NEW c \in ImportRecord, import' = [import EXCEPT ![i] = c]
  PROVE  import' \in [Imports -> ImportRecord] /\ import'[i] = c /\ \A j \in Imports \ {i} : import'[j] = import[j]
BY DEF ImportsFit

\* It begins, with the differences there are to its directory.
Begins(i, d, picked) ==
  /\ import' \in [Imports -> ImportRecord] /\ \A j \in Imports \ {i} : import'[j] = import[j]
  /\ import'[i].at = "add" /\ import'[i].dir = d /\ import'[i].picked = picked
  /\ import'[i].added = Added(d) \cap picked /\ import'[i].todo = Added(d) \cap picked
  /\ import'[i].renamed = {r \in Renamed(d) : ext[r[1]] \in picked} /\ import'[i].made = import[i].made

LEMMA Fetched ==
  ASSUME ImportsFit, ext \in [Orgs -> Externals \cup {None}], NEW i \in Imports, NEW d \in Directories,
         NEW picked \in SUBSET (DOMAIN d), Fetch(i, d, picked)
  PROVE  Begins(i, d, picked)
<1>. DEFINE r == import[i]
            added == Added(d) \cap picked
            renamed == {x \in Renamed(d) : ext[x[1]] \in picked}
<1>1. r \in ImportRecord
  BY DEF ImportsFit
<1>2. import' = [import EXCEPT ![i] =
        [@ EXCEPT !.at = "add", !.dir = d, !.picked = picked, !.added = added, !.todo = added, !.renamed = renamed]]
  BY DEF Fetch
<1>3. picked \in SUBSET Externals /\ added \in SUBSET Externals
  BY DirectoriesAssumption
<1>4. renamed \in SUBSET (Orgs \X Names)
  <2>1. ASSUME NEW x \in renamed PROVE x \in Orgs \X Names
    <3>1. PICK n \in Nodes : ext[n] \in DOMAIN d /\ x = <<n, d[ext[n]].name>>
      BY DEF Renamed
    <3>. QED
      BY <3>1, DirectoriesAssumption DEF Nodes
  <2>. QED
    BY <2>1
<1>. HIDE DEF added, renamed
<1>. DEFINE a == WithPicked(WithDir(WithAt(r, "add"), d), picked)
            c == WithRenamed(WithTodo(WithAdded(a, added), added), renamed)
<1>5. import' = [import EXCEPT ![i] = c]
  BY <1>2, Zenon DEF WithAt, WithDir, WithPicked, WithAdded, WithTodo, WithRenamed
<1>6. a \in ImportRecord /\ a.at = "add" /\ a.dir = d /\ a.picked = picked /\ a.made = r.made
  BY <1>1, <1>3, ButAt, ButDir, ButPicked DEF But
<1>. HIDE DEF a
<1>7. /\ c \in ImportRecord /\ c.at = "add" /\ c.dir = d /\ c.picked = picked /\ c.added = added /\ c.todo = added
      /\ c.renamed = renamed /\ c.made = r.made
  BY <1>3, <1>4, <1>6, ButAdded, ButTodo, ButRenamed DEF But
<1>. HIDE DEF c
<1>8. import' \in [Imports -> ImportRecord] /\ import'[i] = c /\ \A j \in Imports \ {i} : import'[j] = import[j]
  BY <1>5, <1>7, Replaced
<1>. QED
  BY <1>7, <1>8 DEF Begins, added, renamed

\* What Look comes to.
Skipped(i, e) ==
  /\ NodeOf(e) # {} /\ silent' = silent
  /\ Continues(i, "add", import[i].todo \ {e}, import[i].renamed, import[i].made)

Found(i, e) ==
  LET up == import[i].dir[e].parent IN
  /\ NodeOf(e) = {} /\ silent' = silent
  /\ Continues(i, "create", import[i].todo, import[i].renamed, import[i].made)
  /\ import'[i].item = e /\ import'[i].under \in IF up = None THEN {None} ELSE NodeOf(up)

Orphaned(i, e) ==
  LET up == import[i].dir[e].parent IN NodeOf(e) = {} /\ up # None /\ NodeOf(up) = {} /\ Abort(i, {})

LEMMA Looked ==
  ASSUME ImportsFit, NEW i \in Imports, NEW e \in import[i].todo, Look(i, e)
  PROVE  Skipped(i, e) \/ Found(i, e) \/ Orphaned(i, e)
<1>. DEFINE r == import[i]
            up == r.dir[e].parent
<1>1. r \in ImportRecord /\ e \in Externals
  BY DEF ImportsFit, ImportRecord
<1>2. CASE NodeOf(e) # {}
  <2>. DEFINE todo == r.todo \ {e}
              c == WithTodo(r, todo)
  <2>1. import' = [import EXCEPT ![i].todo = @ \ {e}] /\ silent' = silent
    BY <1>2 DEF Look
  <2>2. import' = [import EXCEPT ![i] = c] /\ r.at = "add"
    BY <2>1, Zenon DEF WithTodo, Look, Stands
  <2>3. todo \in SUBSET Externals
    BY <1>1 DEF ImportRecord
  <2>. HIDE DEF todo
  <2>4. But(c, r, "todo") /\ c.todo = todo
    BY <1>1, <2>3, ButTodo
  <2>. HIDE DEF c
  <2>5. import' \in [Imports -> ImportRecord] /\ import'[i] = c /\ \A j \in Imports \ {i} : import'[j] = import[j]
    BY <2>2, <2>4, Replaced DEF But
  <2>. QED
    BY <1>2, <2>1, <2>2, <2>4, <2>5 DEF Skipped, Continues, But, todo
<1>3. CASE NodeOf(e) = {} /\ (up = None \/ NodeOf(up) # {})
  <2>1. silent' = silent
    BY <1>3 DEF Look
  <2>2. PICK p \in IF up = None THEN {None} ELSE NodeOf(up) :
          import' = [import EXCEPT ![i] = [@ EXCEPT !.at = "create", !.item = e, !.under = p]]
    BY <1>3 DEF Look
  <2>. DEFINE a == WithAt(r, "create")
              b == WithItem(a, e)
              c == WithUnder(b, p)
  <2>3. import' = [import EXCEPT ![i] = c]
    BY <2>2, Zenon DEF WithAt, WithItem, WithUnder
  <2>4. p \in Orgs \cup {None}
    BY DEF NodeOf, Nodes
  <2>5. But(a, r, "at") /\ a.at = "create"
    BY <1>1, ButAt
  <2>6. But(b, a, "item") /\ b.item = e
    BY <1>1, <2>5, ButItem DEF But
  <2>7. But(c, b, "under") /\ c.under = p
    BY <2>4, <2>6, ButUnder DEF But
  <2>. HIDE DEF a, b, c
  <2>8. import' \in [Imports -> ImportRecord] /\ import'[i] = c /\ \A j \in Imports \ {i} : import'[j] = import[j]
    BY <2>3, <2>7, Replaced DEF But
  <2>. QED
    BY <1>3, <2>1, <2>2, <2>5, <2>6, <2>7, <2>8 DEF Found, Continues, But
<1>4. CASE NodeOf(e) = {} /\ ~(up = None \/ NodeOf(up) # {})
  BY <1>4 DEF Look, Orphaned
<1>. QED
  BY <1>2, <1>3, <1>4

\* A statement that writes either goes on, or returns an error although it took effect.
LEMMA CreatedOne ==
  ASSUME ImportsFit, NEW i \in Imports, ImportCreate(i), import[i].under \in Nodes \cup {None}, Unique(import[i].item)
  PROVE  \/ /\ silent' = silent
            /\ Continues(i, "add", import[i].todo \ {import[i].item}, import[i].renamed, import[i].made \cup {NewId})
         \/ Costs("lost") /\ Abort(i, {NewId})
<1>. SUFFICES ASSUME ~(Costs("lost") /\ Abort(i, {NewId}))
              PROVE  /\ silent' = silent
                     /\ Continues(i, "add", import[i].todo \ {import[i].item}, import[i].renamed, import[i].made \cup {NewId})
  OBVIOUS
<1>. DEFINE r == import[i]
            todo == r.todo \ {r.item}
            made == r.made \cup {NewId}
            a == WithAt(r, "add")
            b == WithUnder(WithItem(a, None), None)
            c == WithTodo(b, todo)
            d == WithMade(c, made)
<1>1. r \in ImportRecord
  BY DEF ImportsFit
<1>2. import' = [import EXCEPT ![i] =
        [r EXCEPT !.at = "add", !.item = None, !.under = None, !.todo = todo, !.made = made]] /\ silent' = silent
  BY Zenon DEF ImportCreate
<1>3. todo \in SUBSET Externals /\ made \in SUBSET Orgs
  BY <1>1, Fresh DEF ImportRecord, ImportCreate
<1>. HIDE DEF todo, made
<1>4. import' = [import EXCEPT ![i] = d]
  BY <1>2, Zenon DEF WithAt, WithItem, WithUnder, WithTodo, WithMade
<1>5. But(a, r, "at") /\ a.at = "add"
  BY <1>1, ButAt
<1>6. /\ b \in ImportRecord /\ b.at = "add" /\ b.added = r.added /\ b.picked = r.picked /\ b.dir = r.dir
      /\ b.renamed = r.renamed
  BY <1>5, ButItem, ButUnder DEF But
<1>. HIDE DEF b
<1>7. But(c, b, "todo") /\ c.todo = todo
  BY <1>3, <1>6, ButTodo
<1>. HIDE DEF c
<1>8. But(d, c, "made") /\ d.made = made
  BY <1>3, <1>7, ButMade DEF But
<1>. HIDE DEF d
<1>9. import' \in [Imports -> ImportRecord] /\ import'[i] = d /\ \A j \in Imports \ {i} : import'[j] = import[j]
  BY <1>4, <1>8, Replaced DEF But
<1>. QED
  BY <1>2, <1>6, <1>7, <1>8, <1>9 DEF Continues, But, todo, made

LEMMA RenamedOne ==
  ASSUME ImportsFit, NEW i \in Imports, NEW x \in import[i].renamed, ImportRename(i, x), x[1] \in Nodes
  PROVE  \/ /\ silent' = silent
            /\ Continues(i, "add", import[i].todo, import[i].renamed \ {x}, import[i].made \cup {x[1]})
         \/ Costs("lost") /\ Abort(i, {x[1]})
<1>. SUFFICES ASSUME ~(Costs("lost") /\ Abort(i, {x[1]}))
              PROVE  /\ silent' = silent
                     /\ Continues(i, "add", import[i].todo, import[i].renamed \ {x}, import[i].made \cup {x[1]})
  OBVIOUS
<1>. DEFINE r == import[i]
            renamed == r.renamed \ {x}
            made == r.made \cup {x[1]}
            b == WithRenamed(r, renamed)
            c == WithMade(b, made)
<1>1. r \in ImportRecord /\ r.at = "add"
  BY DEF ImportsFit, ImportRename, Stands
<1>2. import' = [import EXCEPT ![i] = [r EXCEPT !.renamed = renamed, !.made = made]] /\ silent' = silent
  BY Zenon DEF ImportRename
<1>3. renamed \in SUBSET (Orgs \X Names) /\ made \in SUBSET Orgs
  BY <1>1 DEF ImportRecord, Nodes
<1>. HIDE DEF renamed, made
<1>4. import' = [import EXCEPT ![i] = c]
  BY <1>2, Zenon DEF WithRenamed, WithMade
<1>5. But(b, r, "renamed") /\ b.renamed = renamed
  BY <1>1, <1>3, ButRenamed
<1>6. But(c, b, "made") /\ c.made = made
  BY <1>3, <1>5, ButMade DEF But
<1>. HIDE DEF b, c
<1>7. import' \in [Imports -> ImportRecord] /\ import'[i] = c /\ \A j \in Imports \ {i} : import'[j] = import[j]
  BY <1>4, <1>6, Replaced DEF But
<1>. QED
  BY <1>1, <1>2, <1>5, <1>6, <1>7 DEF Continues, But, renamed, made

LEMMA StepImports ==
  ASSUME ImportsFit, TreeInv, ext \in [Orgs -> Externals \cup {None}], NEW i \in Imports, ImportStep(i)
  PROVE  ImportsFit' /\ Carries(i)
<1>. USE DEF tree, trigger, vars
<1>. DEFINE r == import[i]
<1>1. r \in ImportRecord /\ ImportFits(r)
  BY DEF ImportsFit
<1>2. ASSUME NEW d \in Directories, NEW S \in Selections, Fetch(i, d, S \cap DOMAIN d) PROVE ImportsFit' /\ Carries(i)
  <2>. DEFINE c == import'[i]
  <2>1. /\ import' \in [Imports -> ImportRecord] /\ \A j \in Imports \ {i} : import'[j] = import[j]
        /\ c.at = "add" /\ c.dir = d /\ c.picked = S \cap DOMAIN d /\ c.added = Added(d) \cap c.picked
        /\ c.todo = c.added /\ c.made = r.made
    <3>. DEFINE picked == S \cap DOMAIN d
    <3>1. picked \in SUBSET (DOMAIN d) /\ Fetch(i, d, picked)
      BY <1>2
    <3>. HIDE DEF picked
    <3>2. Begins(i, d, picked)
      BY <3>1, Fetched
    <3>. QED
      BY <3>2 DEF Begins, picked
  <2>2. ImportFits(c)
    BY <2>1 DEF ImportFits
  <2>. QED
    BY <1>2, <2>1, <2>2, GoesOn DEF Fetch
<1>3. ASSUME NEW e \in r.todo, Look(i, e) PROVE ImportsFit' /\ Carries(i)
  <2>1. behind' = behind
    BY <1>3 DEF Look
  <2>2. CASE Skipped(i, e)
    <3>1. ImportFits(import'[i])
      BY <1>1, <2>2 DEF Skipped, Continues, ImportFits
    <3>. QED
      BY <2>1, <2>2, <3>1, GoesOn DEF Skipped, Continues
  <2>3. CASE Found(i, e)
    <3>1. ImportFits(import'[i])
      BY <1>1, <2>3 DEF Found, Continues, ImportFits
    <3>. QED
      BY <2>1, <2>3, <3>1, GoesOn DEF Found, Continues
  <2>4. CASE Orphaned(i, e)
    BY <2>1, <2>4, AbortStays DEF Orphaned
  <2>. QED
    BY <1>3, <2>2, <2>3, <2>4, Looked
<1>4. ASSUME ImportCreate(i) PROVE ImportsFit' /\ Carries(i)
  <2>1. CASE r.under \in Nodes \cup {None} /\ Unique(r.item)
    <3>1. behind' = behind \cup {NewId} /\ {NewId} \in SUBSET Orgs
      BY <1>4, <2>1, Fresh DEF ImportCreate
    <3>2. ASSUME Abort(i, {NewId}) PROVE ImportsFit' /\ Carries(i)
      BY <3>1, <3>2, AbortFits
    <3>3. ASSUME silent' = silent, Continues(i, "add", r.todo \ {r.item}, r.renamed, r.made \cup {NewId})
          PROVE  ImportsFit' /\ Carries(i)
      <4>1. ImportFits(import'[i])
        BY <1>1, <3>3 DEF Continues, ImportFits
      <4>. QED
        BY <3>1, <3>3, <4>1, GoesOn DEF Continues
    <3>. QED
      BY <1>4, <2>1, <3>2, <3>3, CreatedOne
  <2>2. CASE ~(r.under \in Nodes \cup {None} /\ Unique(r.item))
    BY <1>4, <2>2, AbortStays DEF ImportCreate
  <2>. QED
    BY <2>1, <2>2
<1>5. ASSUME NEW x \in r.renamed, ImportRename(i, x) PROVE ImportsFit' /\ Carries(i)
  <2>1. CASE x[1] \in Nodes
    <3>1. behind' = behind \cup {x[1]} /\ {x[1]} \in SUBSET Orgs
      BY <1>5, <2>1 DEF ImportRename, Nodes
    <3>2. ASSUME Abort(i, {x[1]}) PROVE ImportsFit' /\ Carries(i)
      BY <3>1, <3>2, AbortFits
    <3>3. ASSUME silent' = silent, Continues(i, "add", r.todo, r.renamed \ {x}, r.made \cup {x[1]})
          PROVE  ImportsFit' /\ Carries(i)
      <4>1. ImportFits(import'[i])
        BY <1>1, <3>3 DEF Continues, ImportFits
      <4>. QED
        BY <3>1, <3>3, <4>1, GoesOn DEF Continues
    <3>. QED
      BY <1>5, <2>1, <3>2, <3>3, RenamedOne
  <2>2. CASE x[1] \notin Nodes
    BY <1>5, <2>2, AbortStays DEF ImportRename
  <2>. QED
    BY <2>1, <2>2
<1>6. ASSUME ImportEnds(i) PROVE ImportsFit' /\ Carries(i)
  <2>. DEFINE new == [NoImport EXCEPT !.at = "done"]
  <2>1. import' = [import EXCEPT ![i] = new] /\ ImportFits(new)
    BY <1>6, NoImportFits DEF ImportEnds
  <2>. HIDE DEF new
  <2>2. ImportsFit' /\ \A j \in Imports \ {i} : import'[j] = import[j]
    BY <2>1, OneImport
  <2>. QED
    BY <1>6, <2>2 DEF ImportEnds, Carries
<1>7. ASSUME ImportFails(i) PROVE ImportsFit' /\ Carries(i)
  BY <1>7, AbortStays DEF ImportFails
<1>. QED
  BY <1>2, <1>3, <1>4, <1>5, <1>6, <1>7 DEF ImportStep

LEMMA NextImports ==
  ImportsFit /\ TreeInv /\ ext \in [Orgs -> Externals \cup {None}] /\ [ImportNext]_allVars => ImportsFit'
<1>. SUFFICES ASSUME ImportsFit, TreeInv, ext \in [Orgs -> Externals \cup {None}], [ImportNext]_allVars
              PROVE  ImportsFit'
  OBVIOUS
<1>1. ASSUME UNCHANGED import PROVE ImportsFit'
  BY <1>1 DEF ImportsFit, ImportFits
<1>2. ASSUME NEW i \in Imports, ImportStep(i) PROVE ImportsFit'
  BY <1>2, StepImports
<1>3. ASSUME import' = [i \in Imports |-> IF i \in Running THEN [NoImport EXCEPT !.at = "aborted"] ELSE import[i]]
      PROVE  ImportsFit'
  <2>1. \A i \in Imports : ImportFits(import'[i])
    BY <1>3, NoImportFits DEF ImportsFit
  <2>2. \A i \in Imports : import'[i] \in ImportRecord
    BY <2>1 DEF ImportFits
  <2>. QED
    BY <1>3, <2>1, <2>2 DEF ImportsFit, ImportFits
<1>. QED
  BY <1>1, <1>2, <1>3 DEF ImportNext, allVars

\* A node gets the external id nobody has.
LEMMA NextExt ==
  TreeInv /\ ImportsFit /\ ExtFits /\ Effect /\ [ImportNext]_allVars => ExtFits'
<1>. SUFFICES ASSUME TreeInv, ImportsFit, ExtFits, Effect, [ImportNext]_allVars PROVE ExtFits'
  OBVIOUS
<1>1. ASSUME UNCHANGED ext PROVE ExtFits'
  <2>1. \A n \in Orgs : ext[n] # None => n \notin Unused
    BY DEF ExtFits, Unused
  <2>2. \A n \in Nodes' : n \in Orgs /\ (ext[n] # None => n \in Nodes)
    BY <2>1, Fresh DEF Effect, Nodes
  <2>. QED
    BY <1>1, <2>2 DEF ExtFits, Effect
<1>2. ASSUME NEW i \in Imports, ImportCreate(i) PROVE ExtFits'
  <2>. DEFINE e == import[i].item
              p == import[i].under
  <2>1. CASE p \in Nodes \cup {None} /\ Unique(e)
    <3>1. e \in Externals
      BY <1>2 DEF ImportCreate, Stands, ImportsFit, ImportFits, ImportRecord
    <3>2. /\ ext' = [ext EXCEPT ![NewId] = e] /\ path' = [path EXCEPT ![NewId] = Append(PathOf(p), NewId)]
          /\ gone' = gone /\ NewId \in Orgs /\ path[NewId] = <<>> /\ NewId \notin Nodes
      BY <1>2, <2>1, Fresh DEF ImportCreate
    <3>3. Nodes' = Nodes \cup {NewId}
      BY <2>1, <3>2, CreatedIsWhole DEF TreeInv
    <3>4. \A n \in Nodes : ext[n] # e
      BY <2>1 DEF Unique, NodeOf
    <3>. QED
      BY <3>1, <3>2, <3>3, <3>4 DEF ExtFits, Nodes
  <2>2. CASE ~(p \in Nodes \cup {None} /\ Unique(e))
    BY <1>1, <1>2, <2>2 DEF ImportCreate
  <2>. QED
    BY <2>1, <2>2
<1>3. ASSUME NEW i \in Imports, ImportStep(i) PROVE ImportCreate(i) \/ UNCHANGED ext
  BY <1>3 DEF ImportStep, Fetch, Look, ImportRename, ImportEnds, ImportFails
<1>. QED
  BY <1>1, <1>2, <1>3 DEF ImportNext, allVars

\* What is marked silent has not been seen by the loop, and it is the calls under way that are disturbed.
MarksFit == silent \subseteq behind /\ disturbed \subseteq Imports

LEMMA NextMarks ==
  ImportsFit /\ TreeInv /\ ext \in [Orgs -> Externals \cup {None}] /\ MarksFit /\ [ImportNext]_allVars => MarksFit'
<1>. SUFFICES ASSUME ImportsFit, TreeInv, ext \in [Orgs -> Externals \cup {None}], MarksFit, [ImportNext]_allVars
              PROVE  MarksFit'
  OBVIOUS
<1>1. ASSUME NEW S, Disturbs(S) PROVE disturbed' \subseteq Imports
  BY <1>1 DEF Disturbs, Running, Imports
<1>2. ASSUME SyncStep PROVE silent' \subseteq behind'
  <2>. USE DEF tree, trigger, MarksFit
  <2>1. ASSUME NEW S, Edited(S) PROVE silent' \subseteq behind'
    BY <2>1 DEF Edited
  <2>2. ASSUME NEW n \in Orgs, DeleteGet(n) \/ DeleteRow(n) \/ DeleteRefused(n) \/ DropNode(n) PROVE silent' \subseteq behind'
    BY <2>2 DEF DeleteGet, DeleteRow, DeleteRefused, DropNode
  <2>3. ASSUME Nudge \/ LoopBegins \/ \E r \in Manual : HandleTrigger(r) PROVE silent' \subseteq behind'
    BY <2>3 DEF Nudge, LoopBegins, HandleTrigger
  <2>4. ASSUME NEW r \in Rounds, RoundStep(r) PROVE silent' \subseteq behind'
    BY <2>4, RoundsLeave
  <2>. QED
    BY <1>2, <2>1, <2>2, <2>3, <2>4 DEF SyncStep, HandlerStep, HandleCreate, HandleMove, HandleRename, HandleSetKeyHolder
<1>3. ASSUME NEW i \in Imports, ImportStep(i), Disturbs(Imports \ {i}) PROVE MarksFit'
  <2>1. Carries(i)
    BY <1>3, StepImports
  <2>2. silent' \subseteq behind'
    BY <2>1 DEF Carries, Abort, MarksFit
  <2>. QED
    BY <1>1, <1>3, <2>2 DEF MarksFit
<1>4. ASSUME Restart, disturbed' = {} PROVE MarksFit'
  BY <1>4 DEF MarksFit, Restart
<1>5. ASSUME UNCHANGED allVars PROVE MarksFit'
  BY <1>5 DEF MarksFit, allVars, vars, trigger
<1>6. ASSUME SyncStep, Disturbs(Imports) PROVE MarksFit'
  BY <1>1, <1>2, <1>6 DEF MarksFit
<1>. QED
  BY <1>3, <1>4, <1>5, <1>6 DEF ImportNext

Shapes == TreeInv /\ CountsFit /\ PlansFit /\ UpFits /\ ImportsFit /\ ExtFits /\ MarksFit

LEMMA InitShapes == ImportInit => Shapes
<1>. SUFFICES ASSUME ImportInit PROVE Shapes
  OBVIOUS
<1>. USE DEF ImportInit, Init
<1>1. TreeInv
  BY InitTree
<1>2. CountsFit
  <2>1. nudged = FALSE /\ due = 0 /\ edits = 0 /\ faults = 0
    OBVIOUS
  <2>2. due \in Nat /\ due <= edits /\ edits \in 0..MaxEdits /\ faults \in 0..MaxFaults
    BY <2>1, BoundsAssumption
  <2>3. nudged \in BOOLEAN
    BY <2>1, Zenon
  <2>. QED
    BY <2>2, <2>3, Zenon DEF CountsFit
<1>3. PlansFit
  <2>1. \A r \in Rounds : round[r] \in RoundRecord /\ round[r].plan = NoPlan
    BY NoPlanFits DEF RoundRecord, PlanFits
  <2>2. round \in [Rounds -> RoundRecord]
    BY <2>1
  <2>. QED
    BY <2>1, <2>2, NoPlanFits DEF PlansFit
<1>4. UpFits
  BY DEF UpFits, NoTeam, Team
<1>5. ImportsFit
  <2>1. NoImport \in ImportRecord
    BY NoImportFits DEF ImportFits
  <2>. QED
    BY <2>1, NoImportFits DEF ImportsFit
<1>6. ExtFits /\ MarksFit
  BY DEF ExtFits, MarksFit, Nodes
<1>. QED
  BY <1>1, <1>2, <1>3, <1>4, <1>5, <1>6 DEF Shapes

LEMMA NextShapes == Shapes /\ [ImportNext]_allVars => Shapes'
<1>. SUFFICES ASSUME Shapes, [ImportNext]_allVars PROVE Shapes'
  OBVIOUS
<1>1. TreeInv' /\ Effect
  BY NextTree DEF Shapes
<1>2. CountsFit' /\ PlansFit' /\ UpFits'
  BY NextCounts, NextPlans, NextUp DEF Shapes
<1>3. ImportsFit' /\ MarksFit'
  BY NextImports, NextMarks DEF Shapes, ExtFits
<1>4. ExtFits'
  BY <1>1, NextExt DEF Shapes
<1>. QED
  BY <1>1, <1>2, <1>3, <1>4 DEF Shapes

LEMMA ShapesHold == ImportSpec => []Shapes
BY InitShapes, NextShapes, PTL DEF ImportSpec

LEMMA OneNodeOf ==
  ASSUME ExtFits, NEW e \in Externals PROVE Cardinality(NodeOf(e)) <= 1
<1>1. e # None
  BY ExternalsAssumption
<1>2. CASE NodeOf(e) = {}
  BY <1>2, FS_EmptySet
<1>3. CASE NodeOf(e) # {}
  <2>1. PICK n \in NodeOf(e) : TRUE
    BY <1>3
  <2>2. NodeOf(e) = {n}
    BY <1>1, <2>1 DEF NodeOf, ExtFits
  <2>. QED
    BY <2>2, FS_Singleton
<1>. QED
  BY <1>2, <1>3

\* The types of the tree, of its image upstream, of the rounds and of the imports: among them that
\* paths stay those of the nodes on them, and that an external id is that of one node, whatever
\* handlers, imports and crashes do between the statements of an import.
THEOREM ImportTypes == ImportSpec => []ImportTypeOK
<1>1. Shapes => TypeOK
  <2>. SUFFICES ASSUME Shapes PROVE TypeOK
    OBVIOUS
  <2>1. /\ path \in [Orgs -> Seq(Orgs)] /\ Whole(path) /\ name \in [Orgs -> Names]
        /\ holder \cup behind \subseteq Nodes /\ silent \subseteq behind /\ gone \subseteq Orgs \ Nodes
        /\ excused \subseteq Orgs
        /\ upOrg \in [Orgs -> Names \cup {None}] /\ upTeam \in [Orgs -> Team]
    BY DEF Shapes, TreeInv, TreeFit, UpFits, MarksFit
  <2>2. \A r \in Rounds :
          /\ round[r].at \in {"wait", "local", "orgs", "teams", "apply"}
          /\ round[r].plan.orgs \cup round[r].plan.teams \subseteq Entity /\ round[r].plan.live \subseteq Orgs
          /\ \A v \in Verbs : round[r].plan.todo[v] \subseteq round[r].plan.orgs \cup round[r].plan.teams
    BY DEF Shapes, PlansFit, PlanFits, PlanRecord, RoundRecord, Verbs
  <2>3. dropping \in [Orgs -> [stage : {"none", "read", "deleted"}, depth2 : BOOLEAN, holder : BOOLEAN]]
    BY DEF Shapes, TreeInv, DroppingSet
  <2>4. due \in 0..MaxEdits /\ edits \in 0..MaxEdits /\ faults \in 0..MaxFaults
    BY BoundsAssumption DEF Shapes, CountsFit
  <2>5. nudged \in BOOLEAN
    BY DEF Shapes, CountsFit
  <2>. QED
    BY <2>1, <2>2, <2>3, <2>4, <2>5, Zenon DEF TypeOK
<1>2. Shapes => ImportTypeOK
  <2>. SUFFICES ASSUME Shapes PROVE ImportTypeOK
    OBVIOUS
  <2>1. ext \in [Orgs -> Externals \cup {None}] /\ \A e \in Externals : Cardinality(NodeOf(e)) <= 1
    BY OneNodeOf DEF Shapes, ExtFits
  <2>2. \A i \in Imports :
          /\ import[i].at \in {"idle", "add", "create", "done", "aborted"}
          /\ import[i].dir \in Directories \cup {<<>>}
          /\ import[i].todo \subseteq import[i].added /\ import[i].added \subseteq import[i].picked
          /\ import[i].made \subseteq Orgs
          /\ import[i].item \in Externals \cup {None} /\ import[i].under \in Orgs \cup {None}
    BY DEF Shapes, ImportsFit, ImportFits, ImportRecord
  <2>3. disturbed \subseteq Imports
    BY DEF Shapes, MarksFit
  <2>. QED
    BY <1>1, <2>1, <2>2, <2>3, Zenon DEF ImportTypeOK
<1>. QED
  BY <1>2, ShapesHold, PTL

-----------------------------------------------------------------------------
(* No edit goes unnoticed.                                                  *)

LEMMA NextNoticed == Shapes /\ EditsAreNoticed /\ [ImportNext]_allVars => EditsAreNoticed'
<1>. SUFFICES ASSUME Shapes, EditsAreNoticed, [ImportNext]_allVars PROVE EditsAreNoticed'
  OBVIOUS
<1>. USE DEF tree, trigger, vars, upstream
<1>1. due \in Nat
  BY DEF Shapes, CountsFit
<1>2. ASSUME UNCHANGED <<import, nudged, due>>, NEW S, silent \subseteq silent' \cup S, behind' \subseteq (behind \ S) \cup silent'
      PROVE  EditsAreNoticed'
  BY <1>2 DEF EditsAreNoticed, Running
<1>3. ASSUME behind' = {} \/ nudged' = TRUE \/ due' > 0 PROVE EditsAreNoticed'
  BY <1>3 DEF EditsAreNoticed
<1>6. ASSUME UNCHANGED <<trigger, import>> PROVE EditsAreNoticed'
  BY <1>6 DEF EditsAreNoticed, Running
<1>4. ASSUME HandlerStep, UNCHANGED import PROVE EditsAreNoticed'
  <2>1. ASSUME NEW S, Edited(S) PROVE EditsAreNoticed'
    <3>1. CASE due' = due + 1
      <4>1. due' > 0
        BY <1>1, <3>1
      <4>. QED
        BY <1>3, <4>1
    <3>2. CASE silent' = silent \cup S /\ UNCHANGED due
      <4>1. UNCHANGED <<import, nudged, due>> /\ silent \subseteq silent' \cup {} /\ behind' \subseteq (behind \ {}) \cup silent'
        BY <1>4, <2>1, <3>2 DEF Edited
      <4>. QED
        BY <1>2, <4>1
    <3>. QED
      BY <2>1, <3>1, <3>2 DEF Edited
  <2>2. ASSUME NEW n \in Orgs, DeleteGet(n) \/ DeleteRefused(n) \/ DropNode(n) PROVE EditsAreNoticed'
    BY <1>4, <1>6, <2>2 DEF DeleteGet, DeleteRefused, DropNode
  <2>4. ASSUME NEW n \in Orgs, DeleteRow(n) PROVE EditsAreNoticed'
    <3>1. UNCHANGED <<import, nudged, due>> /\ silent \subseteq silent' \cup {n} /\ behind' \subseteq (behind \ {n}) \cup silent'
      BY <1>4, <2>4 DEF DeleteRow
    <3>. QED
      BY <1>2, <3>1
  <2>3. ASSUME Nudge PROVE EditsAreNoticed'
    BY <1>3, <2>3 DEF Nudge
  <2>. QED
    BY <1>4, <2>1, <2>2, <2>3, <2>4 DEF HandlerStep, HandleCreate, HandleMove, HandleRename, HandleSetKeyHolder
<1>5. ASSUME LoopBegins \/ Restart PROVE EditsAreNoticed'
  BY <1>3, <1>5 DEF LoopBegins, Restart
<1>7. ASSUME (\E r \in Manual : HandleTrigger(r)) \/ (\E r \in Rounds : RoundStep(r)) PROVE UNCHANGED trigger
  BY <1>7, RoundsLeave DEF HandleTrigger
<1>8. ASSUME NEW i \in Imports, ImportStep(i) PROVE EditsAreNoticed'
  <2>1. Carries(i) /\ due' = due
    BY <1>8, StepImports, ImportsLeave DEF Shapes, ExtFits
  <2>2. CASE nudged' = TRUE
    BY <1>3, <2>2
  <2>3. ASSUME nudged' = nudged, NEW written \in SUBSET Orgs, Abort(i, written), behind' = behind \cup written
        PROVE  EditsAreNoticed'
    BY <2>1, <2>3 DEF EditsAreNoticed, Running, Carries, Abort
  <2>4. CASE /\ nudged' = nudged
             /\ import'[i].at \in {"add", "create"} /\ import[i].made \subseteq import'[i].made
             /\ behind' \subseteq behind \cup import'[i].made /\ silent' = silent
    BY <2>1, <2>4 DEF EditsAreNoticed, Running, Carries
  <2>5. nudged' \in {nudged, TRUE}
    BY <1>8 DEF ImportStep, Fetch, Look, ImportCreate, ImportRename, ImportEnds, ImportFails
  <2>. QED
    BY <2>1, <2>2, <2>3, <2>4, <2>5 DEF Carries
<1>9. ASSUME UNCHANGED allVars PROVE EditsAreNoticed'
  BY <1>9 DEF allVars, EditsAreNoticed, Running
<1>. QED
  BY <1>4, <1>5, <1>6, <1>7, <1>8, <1>9 DEF ImportNext, SyncStep

\* A node edited since the loop last began a round has left a nudge, is about to, or is one that
\* an import has written and not nudged for, in any interleaving of handlers, imports, rounds and
\* crashes.
THEOREM EditsNoticed == ImportSpec => []EditsAreNoticed
<1>1. ImportInit => EditsAreNoticed
  BY DEF ImportInit, Init, EditsAreNoticed
<1>. QED
  BY <1>1, NextNoticed, ShapesHold, PTL DEF ImportSpec

-----------------------------------------------------------------------------
(* The cascade, and what a deletion leaves.                                 *)

\* The organization a wanted team is attached to is in the tree.
LEMMA WantedBelowNodes ==
  ASSUME TreeInv, NEW e \in WantedTeams(Nodes) PROVE e.id \in Nodes /\ e.org \in Nodes \cup {None}
<1>1. e.id \in Nodes /\ e.org = IF Len(path[e.id]) >= 2 THEN path[e.id][2] ELSE None
  BY Wanted
<1>2. ASSUME Len(path[e.id]) >= 2 PROVE path[e.id][2] \in Nodes
  <2>1. e.id \in Orgs /\ 2 \in 1..Len(path[e.id])
    BY <1>1, <1>2, NodeHasPath DEF TreeInv
  <2>. QED
    BY <2>1, OnThePath DEF TreeInv
<1>. QED
  BY <1>1, <1>2

LEMMA StepSpares ==
  ASSUME Shapes, [ImportNext]_allVars, NEW e \in WantedTeams(Nodes), upTeam[e.id] # NoTeam, upTeam'[e.id] = NoTeam
  PROVE  upTeam[e.id].org # e.org
<1>1. e.id \in Nodes /\ e.id \in Orgs /\ e.org \in Nodes \cup {None}
  BY WantedBelowNodes DEF Shapes, Nodes
<1>2. ~UNCHANGED upstream /\ \A r \in Rounds : ~WritesOrg(r)
  BY DEF upstream, WritesOrg
<1>3. ASSUME NEW r \in Rounds, WritesTeam(r) PROVE FALSE
  <2>1. PICK w \in round[r].plan.teams, o \in Orgs \cup {None} :
          upTeam' = [upTeam EXCEPT ![w.id] = [alias |-> w.alias, org |-> o]]
    BY <1>3 DEF WritesTeam
  <2>2. w.alias \in Names /\ w.alias # None
    BY NoneAssumption DEF Shapes, PlansFit, PlanFits, PlanRecord, Entity
  <2>3. [alias |-> w.alias, org |-> o] # NoTeam
    BY <2>2 DEF NoTeam
  <2>. QED
    BY <1>1, <2>1, <2>3 DEF Shapes, UpFits
<1>4. PICK n \in Orgs : DropNode(n)
  BY <1>2, <1>3, StepWrites DEF Shapes
<1>5. n \notin Nodes
  BY <1>4 DEF DropNode, Shapes, TreeInv
<1>6. upTeam' = [t \in Orgs |-> IF upTeam[t].org = n THEN NoTeam ELSE upTeam[t]] \/ upTeam'[e.id] = upTeam[e.id]
  BY <1>1, <1>4, <1>5 DEF DropNode, Shapes, UpFits
<1>7. upTeam[e.id].org = n
  BY <1>1, <1>6
<1>. QED
  BY <1>1, <1>4, <1>5, <1>7, NoneAssumption

\* A deletion takes the team of a node that is in the tree only when the node has moved away from
\* below the deleted one and its team has not followed yet.
THEOREM CascadeSpares == ImportSpec => CascadeSparesAttachedTeams
<1>1. Shapes /\ [ImportNext]_allVars =>
        [\A e \in WantedTeams(Nodes) :
           upTeam[e.id] # NoTeam /\ upTeam'[e.id] = NoTeam => upTeam[e.id].org # e.org]_vars
  BY StepSpares
<1>. QED
  BY <1>1, ShapesHold, PTL DEF ImportSpec, CascadeSparesAttachedTeams

\* What is upstream under an id, or about to be written there, is what the node is: an organization
\* at depth 2, a team for a key holder, attached to itself at depth 2.
PlannedOrg(n) == \E r \in Rounds : \E e \in round[r].plan.orgs : e.id = n
PlannedTeam(n) == \E r \in Rounds : \E e \in round[r].plan.teams : e.id = n
Accounted(n) ==
  /\ upOrg[n] # None \/ PlannedOrg(n) => Depth2(n)
  /\ upTeam[n] # NoTeam \/ PlannedTeam(n) => Holds(n)
  /\ Depth2(n) =>
       /\ \A r \in Rounds : \A e \in round[r].plan.teams : e.id = n => e.org = n
       /\ upTeam[n] # NoTeam => upTeam[n].org = n /\ upOrg[n] # None

AllAccounted == \A n \in Orgs \ excused : Accounted(n)

\* Neither there nor deleted by a handler still at it: it is nothing.
LEMMA NothingLeft ==
  ASSUME TreeInv, NEW n \in Orgs, n \in Unused \/ (n \in gone /\ dropping[n].stage # "deleted")
  PROVE  ~Depth2(n) /\ ~Holds(n)
BY DEF TreeInv, Unused, Depth2, Holds

\* Plans as they come to be, against what the node was.
LEMMA PlansAccounted ==
  ASSUME TreeInv, PlansFrom, NEW n \in Orgs, Accounted(n)
  PROVE  /\ PlannedOrg(n)' => Depth2(n)
         /\ PlannedTeam(n)' => Holds(n)
         /\ Depth2(n) => \A r \in Rounds : \A e \in round'[r].plan.teams : e.id = n => e.org = n
<1>1. PlannedOrg(n)' => Depth2(n)
  <2>. SUFFICES ASSUME NEW r \in Rounds, NEW e \in round'[r].plan.orgs, e.id = n PROVE Depth2(n)
    BY DEF PlannedOrg
  <2>1. e \in round[r].plan.orgs \/ e \in WantedOrgs(Nodes)
    BY DEF PlansFrom
  <2>. QED
    BY <2>1, Wanted DEF Accounted, PlannedOrg, Depth2
<1>2. PlannedTeam(n)' => Holds(n)
  <2>. SUFFICES ASSUME NEW r \in Rounds, NEW e \in round'[r].plan.teams, e.id = n PROVE Holds(n)
    BY DEF PlannedTeam
  <2>1. e \in round[r].plan.teams \/ e \in WantedTeams(Nodes)
    BY DEF PlansFrom
  <2>. QED
    BY <2>1, Wanted DEF Accounted, PlannedTeam, Holds
<1>3. ASSUME Depth2(n), NEW r \in Rounds, NEW e \in round'[r].plan.teams, e.id = n PROVE e.org = n
  <2>1. e \in round[r].plan.teams \/ e \in WantedTeams(Nodes)
    BY DEF PlansFrom
  <2>2. ASSUME e \in WantedTeams(Nodes) PROVE e.org = n
    <3>1. n \in Nodes /\ (Len(path[n]) = 2 => e.org = n)
      BY <1>3, <2>2, Wanted
    <3>. QED
      BY <1>3, <3>1 DEF Depth2, TreeInv
  <2>. QED
    BY <1>3, <2>1, <2>2 DEF Accounted
<1>. QED
  BY <1>1, <1>2, <1>3

\* What is upstream as it comes to be, against what the node was.
LEMMA UpstreamAccounted ==
  ASSUME Shapes, [ImportNext]_allVars, NEW n \in Orgs, Accounted(n), ~DropNode(n)
  PROVE  /\ upOrg'[n] # None => Depth2(n)
         /\ upTeam'[n] # NoTeam => Holds(n)
         /\ Depth2(n) /\ upTeam'[n] # NoTeam => upTeam'[n].org = n /\ upOrg'[n] # None
<1>. DEFINE Goal == /\ upOrg'[n] # None => Depth2(n)
                    /\ upTeam'[n] # NoTeam => Holds(n)
                    /\ Depth2(n) /\ upTeam'[n] # NoTeam => upTeam'[n].org = n /\ upOrg'[n] # None
<1>1. ASSUME UNCHANGED upstream PROVE Goal
  BY <1>1 DEF Accounted, upstream
<1>2. ASSUME NEW r \in Rounds, WritesOrg(r) PROVE Goal
  <2>1. PICK e \in round[r].plan.orgs : upOrg' = [upOrg EXCEPT ![e.id] = e.alias]
    BY <1>2 DEF WritesOrg
  <2>2. e.alias # None /\ upTeam' = upTeam
    BY <1>2, NoneAssumption DEF WritesOrg, Shapes, PlansFit, PlanFits, PlanRecord, Entity
  <2>3. CASE e.id = n
    <3>1. upOrg'[n] = e.alias /\ Depth2(n)
      BY <2>1, <2>3 DEF Accounted, PlannedOrg, Shapes, UpFits
    <3>. QED
      BY <2>2, <3>1 DEF Accounted
  <2>4. CASE e.id # n
    <3>1. upOrg'[n] = upOrg[n]
      BY <2>1, <2>4 DEF Shapes, UpFits
    <3>. QED
      BY <2>2, <3>1 DEF Accounted
  <2>. QED
    BY <2>3, <2>4
<1>3. ASSUME NEW r \in Rounds, WritesTeam(r) PROVE Goal
  <2>1. PICK e \in round[r].plan.teams, o \in Orgs \cup {None} :
          /\ upTeam' = [upTeam EXCEPT ![e.id] = [alias |-> e.alias, org |-> o]]
          /\ (o = e.org /\ Attachable(o)) \/ (e.org = None /\ o = upTeam[e.id].org)
    BY <1>3 DEF WritesTeam
  <2>2. upOrg' = upOrg
    BY <1>3 DEF WritesTeam
  <2>3. CASE e.id = n
    <3>1. upTeam'[n] = [alias |-> e.alias, org |-> o] /\ Holds(n)
      BY <2>1, <2>3 DEF Accounted, PlannedTeam, Shapes, UpFits
    <3>2. ASSUME Depth2(n) PROVE o = n /\ upOrg[n] # None
      <4>1. e.org = n /\ n # None
        BY <2>3, <3>2, NoneAssumption DEF Accounted
      <4>. QED
        BY <2>1, <4>1 DEF Attachable
    <3>. QED
      BY <2>2, <3>1, <3>2 DEF Accounted
  <2>4. CASE e.id # n
    <3>1. upTeam'[n] = upTeam[n]
      BY <2>1, <2>4 DEF Shapes, UpFits
    <3>. QED
      BY <2>2, <3>1 DEF Accounted
  <2>. QED
    BY <2>3, <2>4
<1>4. ASSUME NEW m \in Orgs, DropNode(m) PROVE Goal
  <2>1. upOrg'[n] = upOrg[n] /\ upTeam'[n] \in {upTeam[n], NoTeam}
    BY <1>4 DEF DropNode, Shapes, UpFits
  <2>. QED
    BY <2>1 DEF Accounted
<1>. QED
  BY <1>1, <1>2, <1>3, <1>4, StepWrites DEF Shapes

\* DropNode, when it is not excused, takes down all there is.
LEMMA Dropped ==
  ASSUME Shapes, NEW n \in Orgs, Accounted(n), DropNode(n), n \notin excused'
  PROVE  Accounted(n)'
<1>1. n \notin Nodes /\ n \notin holder /\ n # None
  BY NoneAssumption DEF DropNode, Shapes, TreeInv
<1>2. (Depth2(n) <=> dropping[n].depth2) /\ (Holds(n) <=> dropping[n].holder)
  BY <1>1 DEF DropNode, Depth2, Holds
<1>3. PICK o \in Outcomes :
        /\ upOrg' = IF Applied(o) /\ dropping[n].depth2 THEN [upOrg EXCEPT ![n] = None] ELSE upOrg
        /\ upTeam' =
             IF ~Applied(o) THEN upTeam
             ELSE IF dropping[n].depth2 /\ upOrg[n] # None
             THEN [t \in Orgs |-> IF upTeam[t].org = n THEN NoTeam ELSE upTeam[t]]
             ELSE IF ~dropping[n].depth2 /\ dropping[n].holder THEN [upTeam EXCEPT ![n] = NoTeam]
             ELSE upTeam
        /\ excused' = IF Applied(o) /\ ~Planned(n) THEN excused ELSE excused \cup {n}
  BY DEF DropNode
<1>4. Applied(o) /\ ~Planned(n)
  BY <1>3
<1>5. upOrg'[n] = None
  BY <1>2, <1>3, <1>4 DEF Accounted, Shapes, UpFits
<1>6. upTeam'[n] = NoTeam
  <2>1. CASE dropping[n].depth2 /\ upOrg[n] # None
    <3>1. upTeam' = [t \in Orgs |-> IF upTeam[t].org = n THEN NoTeam ELSE upTeam[t]]
      BY <1>3, <1>4, <2>1
    <3>. QED
      BY <1>2, <2>1, <3>1 DEF Accounted
  <2>2. CASE dropping[n].depth2 /\ upOrg[n] = None
    BY <1>2, <1>3, <1>4, <2>2 DEF Accounted
  <2>3. CASE ~dropping[n].depth2 /\ dropping[n].holder
    BY <1>3, <1>4, <2>3 DEF Shapes, UpFits
  <2>4. CASE ~dropping[n].depth2 /\ ~dropping[n].holder
    BY <1>2, <1>3, <1>4, <2>4 DEF Accounted
  <2>. QED
    BY <2>1, <2>2, <2>3, <2>4
<1>7. round' = round
  BY DEF DropNode
<1>8. ASSUME NEW r \in Rounds, NEW e \in round[r].plan.orgs \cup round[r].plan.teams PROVE e.id # n
  BY <1>4 DEF Planned
<1>. QED
  BY <1>5, <1>6, <1>7, <1>8 DEF Accounted, PlannedOrg, PlannedTeam

LEMMA NextAccounted == Shapes /\ AllAccounted /\ [ImportNext]_allVars => AllAccounted'
<1>. SUFFICES ASSUME Shapes, AllAccounted, [ImportNext]_allVars, NEW n \in Orgs, n \notin excused'
              PROVE  Accounted(n)'
  BY DEF AllAccounted
<1>1. TreeInv /\ Effect /\ PlansFrom
  BY NextTree, NextPlans DEF Shapes
<1>2. Accounted(n)
  BY <1>1 DEF Effect, AllAccounted
<1>3. CASE DropNode(n)
  BY <1>2, <1>3, Dropped
<1>4. CASE ~DropNode(n)
  <2>1. /\ PlannedOrg(n)' => Depth2(n)
        /\ PlannedTeam(n)' => Holds(n)
        /\ Depth2(n) => \A r \in Rounds : \A e \in round'[r].plan.teams : e.id = n => e.org = n
    BY <1>1, <1>2, PlansAccounted
  <2>2. /\ upOrg'[n] # None => Depth2(n)
        /\ upTeam'[n] # NoTeam => Holds(n)
        /\ Depth2(n) /\ upTeam'[n] # NoTeam => upTeam'[n].org = n /\ upOrg'[n] # None
    BY <1>2, <1>4, UpstreamAccounted
  <2>3. n \in Unused \/ ((Depth2(n)' <=> Depth2(n)) /\ (Holds(n) => Holds(n)'))
    BY <1>1, <1>4 DEF Effect, Alike
  <2>4. ASSUME n \in Unused PROVE Accounted(n)'
    <3>1. ~Depth2(n) /\ ~Holds(n)
      BY <1>1, <2>4, NothingLeft
    <3>. QED
      BY <2>1, <2>2, <3>1 DEF Accounted, PlannedTeam
  <2>5. ASSUME (Depth2(n)' <=> Depth2(n)) /\ (Holds(n) => Holds(n)') PROVE Accounted(n)'
    BY <2>1, <2>2, <2>5 DEF Accounted
  <2>. QED
    BY <2>3, <2>4, <2>5
<1>. QED
  BY <1>3, <1>4

\* Of a deleted node nothing is left upstream without a reason the model names, whatever rounds,
\* imports and other handlers were under way when it was taken down.
THEOREM Leftovers == ImportSpec => []LeftoversHaveAReason
<1>1. ImportInit => AllAccounted
  <2>. SUFFICES ASSUME ImportInit PROVE AllAccounted
    OBVIOUS
  <2>1. \A r \in Rounds : round[r].plan.orgs = {} /\ round[r].plan.teams = {}
    BY DEF ImportInit, Init, NoPlan
  <2>. QED
    BY <2>1 DEF ImportInit, Init, AllAccounted, Accounted, PlannedOrg, PlannedTeam
<1>2. Shapes /\ AllAccounted => LeftoversHaveAReason
  <2>. SUFFICES ASSUME Shapes, AllAccounted, NEW n \in gone \ excused, dropping[n].stage = "none"
                PROVE  upOrg[n] = None /\ upTeam[n] = NoTeam
    BY DEF LeftoversHaveAReason
  <2>1. n \in Orgs /\ Accounted(n)
    BY DEF Shapes, TreeInv, AllAccounted
  <2>2. ~Depth2(n) /\ ~Holds(n)
    BY <2>1, NothingLeft DEF Shapes
  <2>. QED
    BY <2>1, <2>2 DEF Accounted
<1>. QED
  BY <1>1, <1>2, NextAccounted, ShapesHold, PTL DEF ImportSpec

-----------------------------------------------------------------------------
(* What an import comes to that nobody disturbs.                            *)

\* What it has read is still so, but for what it has done itself.
Intact(i) ==
  LET r == import[i] IN
  /\ r.dir \in Directories
  /\ r.todo = Added(r.dir) \cap r.picked
  /\ \A x \in r.renamed : x[1] \in Nodes /\ ext[x[1]] \in r.picked /\ x[2] = r.dir[ext[x[1]]].name
  /\ \A x \in Renamed(r.dir) : ext[x[1]] \in r.picked => x \in r.renamed
  /\ \A e \in r.added \ r.todo : Placed(r.dir, e)
  /\ r.at = "create" =>
       r.under \in IF r.dir[r.item].parent = None THEN {None} ELSE NodeOf(r.dir[r.item].parent)

AllIntact == \A i \in Running \ disturbed : Intact(i)

\* A call that stays undisturbed has either made the step itself or seen nothing of it.
LEMMA Untouched ==
  ASSUME Shapes, [ImportNext]_allVars, NEW i \in Running', i \notin disturbed'
  PROVE  \/ ImportStep(i) /\ (i \in Running => i \notin disturbed)
         \/ i \in Running \ disturbed /\ import'[i] = import[i] /\ UNCHANGED <<path, name, ext>>
<1>. DEFINE Same == i \in Running \ disturbed /\ import'[i] = import[i] /\ UNCHANGED <<path, name, ext>>
<1>1. i \in Imports /\ import'[i].at \in {"add", "create"}
  BY DEF Running, Imports
<1>2. ASSUME UNCHANGED <<ext, import>>, Disturbs(Imports) PROVE Same
  BY <1>1, <1>2 DEF Disturbs, Running
<1>3. ASSUME NEW j \in Imports \ {i}, ImportStep(j), Disturbs(Imports \ {j}) PROVE Same
  <2>1. import'[i] = import[i]
    BY <1>1, <1>3, StepImports DEF Carries, Shapes, ExtFits
  <2>2. i \in Running \ disturbed /\ path' = path /\ name' = name
    BY <1>1, <1>3, <2>1 DEF Disturbs, Running
  <2>3. ext' = ext
    <3>1. CASE ImportCreate(j) /\ ~UNCHANGED ext
      <4>1. /\ path' = [path EXCEPT ![NewId] = Append(PathOf(import[j].under), NewId)]
            /\ import[j].under \in Nodes \cup {None} /\ Unused # {}
        BY <3>1 DEF ImportCreate
      <4>2. NewId \in Orgs /\ path[NewId] = <<>> /\ NewId \notin Nodes
        BY <4>1, Fresh
      <4>3. Nodes' = Nodes \cup {NewId}
        BY <4>1, <4>2, CreatedIsWhole DEF Shapes, TreeInv
      <4>. QED
        BY <2>2, <4>2, <4>3 DEF Nodes
    <3>2. CASE UNCHANGED ext
      BY <3>2
    <3>3. ImportCreate(j) \/ UNCHANGED ext
      BY <1>3 DEF ImportStep, Fetch, Look, ImportRename, ImportEnds, ImportFails
    <3>. QED
      BY <3>1, <3>2, <3>3
  <2>. QED
    BY <2>1, <2>2, <2>3
<1>4. ASSUME ImportStep(i), Disturbs(Imports \ {i}) PROVE i \in Running => i \notin disturbed
  BY <1>4 DEF Disturbs
<1>5. ASSUME Restart, import' = [j \in Imports |-> IF j \in Running THEN [NoImport EXCEPT !.at = "aborted"] ELSE import[j]]
      PROVE  FALSE
  <2>1. CASE i \in Running
    BY <1>1, <1>5, <2>1 DEF NoImport
  <2>2. CASE i \notin Running
    BY <1>1, <1>5, <2>2 DEF Running
  <2>. QED
    BY <2>1, <2>2
<1>6. ASSUME UNCHANGED allVars PROVE Same
  BY <1>1, <1>6 DEF allVars, vars, tree, Running
<1>. QED
  BY <1>2, <1>3, <1>4, <1>5, <1>6 DEF ImportNext

LEMMA SameIntact ==
  ASSUME NEW i, Intact(i), import'[i] = import[i], UNCHANGED <<path, name, ext>>
  PROVE  Intact(i)'
<1>1. Nodes' = Nodes
  BY DEF Nodes
<1>. QED
  BY <1>1 DEF Intact, Added, Renamed, Placed, NodeOf

LEMMA FetchIntact ==
  ASSUME Shapes, NEW i \in Imports, NEW d \in Directories, NEW picked \in SUBSET (DOMAIN d), Fetch(i, d, picked)
  PROVE  Intact(i)'
<1>1. Begins(i, d, picked) /\ UNCHANGED <<path, name, ext>>
  BY Fetched DEF Shapes, ExtFits, Fetch, tree
<1>2. Nodes' = Nodes
  BY <1>1 DEF Nodes
<1>3. Added(d)' = Added(d) /\ Renamed(d)' = Renamed(d)
  BY <1>1, <1>2 DEF Added, Renamed, NodeOf
<1>. DEFINE c == import'[i]
<1>4. /\ c.at = "add" /\ c.dir = d /\ c.picked = picked /\ c.added = Added(d) \cap picked /\ c.todo = c.added
      /\ c.renamed = {r \in Renamed(d) : ext[r[1]] \in picked}
  BY <1>1 DEF Begins
<1>. HIDE DEF c
<1>5. ASSUME NEW x \in c.renamed PROVE x[1] \in Nodes /\ ext[x[1]] \in picked /\ x[2] = d[ext[x[1]]].name
  BY <1>4 DEF Renamed
<1>. QED
  BY <1>1, <1>2, <1>3, <1>4, <1>5 DEF Intact, c

LEMMA LookIntact ==
  ASSUME Shapes, NEW i \in Imports, NEW e \in import[i].todo, Look(i, e), Intact(i), import'[i].at # "aborted"
  PROVE  Intact(i)'
<1>1. UNCHANGED <<path, name, ext>>
  BY DEF Look, vars, tree
<1>2. Nodes' = Nodes
  BY <1>1 DEF Nodes
<1>3. NodeOf(e) = {}
  BY DEF Intact, Added
<1>4. ~Orphaned(i, e)
  <2>1. ASSUME Abort(i, {}) PROVE import'[i].at = "aborted"
    BY <2>1 DEF Abort, Shapes, ImportsFit, NoImport
  <2>. QED
    BY <2>1 DEF Orphaned
<1>5. Found(i, e)
  BY <1>3, <1>4, Looked DEF Shapes, Skipped
<1>. QED
  BY <1>1, <1>2, <1>5 DEF Found, Continues, Intact, Added, Renamed, Placed, NodeOf

\* It creates what it has found missing, where it has found the parent.
LEMMA CanCreate ==
  ASSUME Shapes, NEW i \in Imports, ImportCreate(i), Intact(i)
  PROVE  /\ import[i].under \in Nodes \cup {None} /\ Unique(import[i].item) /\ import[i].item \in import[i].todo
         /\ import[i].item # None
<1>1. import[i].at = "create" /\ import[i].item \in import[i].todo /\ import[i].item \in Externals
  BY DEF ImportCreate, Stands, Shapes, ImportsFit, ImportFits, ImportRecord
<1>. QED
  BY <1>1, ExternalsAssumption DEF Intact, Added, Unique, NodeOf

LEMMA CreateIntact ==
  ASSUME Shapes, NEW i \in Imports, ImportCreate(i), Intact(i), import'[i].at # "aborted"
  PROVE  Intact(i)'
<1>. SUFFICES ASSUME NEW r, r = import[i], NEW e, e = r.item, NEW p, p = r.under, NEW n, n = NewId
              PROVE  Intact(i)'
  OBVIOUS
<1>1. p \in Nodes \cup {None} /\ Unique(e) /\ e \in r.todo /\ e # None
  BY CanCreate
<1>2. /\ path' = [path EXCEPT ![n] = Append(PathOf(p), n)] /\ name' = [name EXCEPT ![n] = r.dir[e].name]
      /\ ext' = [ext EXCEPT ![n] = e] /\ n \in Orgs /\ path[n] = <<>> /\ n \notin Nodes
  BY <1>1, Fresh DEF ImportCreate
<1>3. Nodes' = Nodes \cup {n}
  BY <1>1, <1>2, CreatedIsWhole DEF Shapes, TreeInv
<1>4. /\ path'[n] = Append(PathOf(p), n) /\ name'[n] = r.dir[e].name /\ ext'[n] = e
      /\ \A o \in Orgs \ {n} : path'[o] = path[o] /\ name'[o] = name[o] /\ ext'[o] = ext[o]
  BY <1>2 DEF Shapes, TreeInv, TreeFit, ExtFits
<1>5. Continues(i, "add", r.todo \ {e}, r.renamed, r.made \cup {n})
  <2>1. ~Abort(i, {n})
    BY DEF Abort, Shapes, ImportsFit, NoImport
  <2>. QED
    BY <1>1, <2>1, CreatedOne DEF Shapes
<1>6. \A o \in Nodes : o \in Orgs \ {n}
  BY <1>2 DEF Nodes
<1>7. NodeOf(e)' = {n} /\ \A x : x # e => NodeOf(x)' = NodeOf(x)
  <2>. DEFINE nodes == Nodes
  <2>1. NodeOf(e)' = {o \in nodes \cup {n} : ext'[o] = e} /\ {o \in nodes : ext[o] = e} = {}
    BY <1>1, <1>3 DEF Unique, NodeOf
  <2>2. \A x : NodeOf(x)' = {o \in nodes \cup {n} : ext'[o] = x} /\ NodeOf(x) = {o \in nodes : ext[o] = x}
    BY <1>3 DEF NodeOf
  <2>3. ext'[n] = e /\ \A o \in nodes : ext'[o] = ext[o]
    BY <1>4, <1>6
  <2>. HIDE DEF nodes
  <2>. QED
    BY <2>1, <2>2, <2>3
<1>8. r.todo \ {e} = Added(r.dir)' \cap r.picked
  BY <1>1, <1>7 DEF Intact, Added
<1>9. \A x \in r.renamed : x[1] \in Nodes' /\ ext'[x[1]] \in r.picked /\ x[2] = r.dir[ext'[x[1]]].name
  BY <1>3, <1>4, <1>6 DEF Intact
<1>10. ASSUME NEW x \in Renamed(r.dir)', ext'[x[1]] \in r.picked PROVE x \in r.renamed
  <2>1. PICK m \in Nodes' : ext'[m] \in DOMAIN r.dir /\ name'[m] # r.dir[ext'[m]].name /\ x = <<m, r.dir[ext'[m]].name>>
    BY DEF Renamed
  <2>2. m # n /\ m \in Nodes
    BY <1>3, <1>4, <2>1
  <2>3. ext'[m] = ext[m] /\ name'[m] = name[m]
    BY <1>4, <1>6, <2>2
  <2>4. x \in Renamed(r.dir) /\ ext[x[1]] \in r.picked
    BY <1>10, <2>1, <2>2, <2>3 DEF Renamed
  <2>. QED
    BY <2>4 DEF Intact
<1>11. Placed(r.dir, e)'
  <2>1. CASE p = None
    <3>1. Len(path'[n]) = 1
      <4>1. <<>> \in Seq(Orgs) /\ Len(<<>>) = 0
        BY EmptySeq
      <4>. QED
        BY <1>2, <1>4, <2>1, <4>1, Extended DEF PathOf
    <3>2. r.dir[e].parent = None
      BY <2>1, NoneAssumption DEF Intact, ImportCreate, Stands, NodeOf, Nodes
    <3>. QED
      BY <1>7, <3>1, <3>2 DEF Placed
  <2>2. CASE p \in Nodes
    <3>1. path[p] \in Seq(Orgs) /\ Len(path[p]) \in Nat \ {0} /\ path[p][Len(path[p])] = p /\ p # None
      BY <2>2, NodeHasPath, NoneAssumption DEF Shapes, TreeInv, Nodes
    <3>. DEFINE l == Len(path[p])
    <3>2. Len(path'[n]) = l + 1 /\ path'[n][l] = p
      <4>1. path'[n] = Append(path[p], n) /\ l \in 1..l
        BY <1>4, <3>1 DEF PathOf
      <4>2. \A s \in Seq(Orgs) : Len(Append(s, n)) = Len(s) + 1 /\ \A k \in 1..Len(s) : Append(s, n)[k] = s[k]
        BY <1>2, Extended
      <4>. QED
        BY <3>1, <4>1, <4>2
    <3>3. ext'[p] = ext[p]
      BY <1>4, <1>6, <2>2
    <3>4. p \in NodeOf(r.dir[e].parent)
      BY <3>1 DEF Intact, ImportCreate, Stands
    <3>5. Len(path'[n]) # 1 /\ Len(path'[n]) - 1 = l
      BY <3>1, <3>2
    <3>. QED
      BY <1>7, <3>2, <3>3, <3>4, <3>5 DEF Placed, NodeOf
  <2>. QED
    BY <1>1, <2>1, <2>2
<1>12. ASSUME NEW x \in r.added \ r.todo PROVE Placed(r.dir, x)'
  <2>1. Placed(r.dir, x) /\ NodeOf(x)' = NodeOf(x)
    BY <1>1, <1>7 DEF Intact
  <2>2. ASSUME NEW m \in NodeOf(x) PROVE r.dir[x].parent = IF Len(path'[m]) = 1 THEN None ELSE ext'[path'[m][Len(path'[m]) - 1]]
    <3>1. m \in Nodes /\ path'[m] = path[m] /\ Len(path[m]) \in Nat \ {0} /\ m \in Orgs
      BY <1>4, <1>6, NodeHasPath DEF NodeOf, Shapes, TreeInv
    <3>2. ASSUME Len(path[m]) # 1 PROVE ext'[path[m][Len(path[m]) - 1]] = ext[path[m][Len(path[m]) - 1]]
      <4>1. Len(path[m]) - 1 \in 1..Len(path[m])
        <5>1. \A l \in Nat \ {0} : l # 1 => l - 1 \in 1..l
          OBVIOUS
        <5>. QED
          BY <3>1, <3>2, <5>1
      <4>2. path[m][Len(path[m]) - 1] \in Nodes
        BY <3>1, <4>1, OnThePath DEF Shapes, TreeInv
      <4>. QED
        BY <1>4, <1>6, <4>2
    <3>. QED
      BY <2>1, <3>1, <3>2 DEF Placed
  <2>. QED
    BY <2>1, <2>2 DEF Placed
<1>13. \A x \in r.added \ (r.todo \ {e}) : Placed(r.dir, x)'
  BY <1>11, <1>12
<1>14. r.dir \in Directories
  BY DEF Intact
<1>. QED
  BY <1>5, <1>8, <1>9, <1>10, <1>13, <1>14 DEF Continues, Intact

LEMMA RenameIntact ==
  ASSUME Shapes, NEW i \in Imports, NEW x \in import[i].renamed, ImportRename(i, x), Intact(i), import'[i].at # "aborted"
  PROVE  Intact(i)'
<1>. SUFFICES ASSUME NEW r, r = import[i] PROVE Intact(i)'
  OBVIOUS
<1>1. x[1] \in Nodes /\ x[1] \in Orgs /\ x[2] = r.dir[ext[x[1]]].name
  BY DEF Intact, Nodes
<1>2. name' = [name EXCEPT ![x[1]] = x[2]] /\ UNCHANGED <<path, ext>> /\ r.at = "add"
  BY <1>1 DEF ImportRename, Stands
<1>3. Continues(i, "add", r.todo, r.renamed \ {x}, r.made \cup {x[1]})
  <2>1. ~Abort(i, {x[1]})
    BY DEF Abort, Shapes, ImportsFit, NoImport
  <2>. QED
    BY <1>1, <2>1, RenamedOne DEF Shapes
<1>4. Nodes' = Nodes
  BY <1>2 DEF Nodes
<1>5. Added(r.dir)' = Added(r.dir) /\ \A e : Placed(r.dir, e)' <=> Placed(r.dir, e)
  BY <1>2, <1>4 DEF Added, Placed, NodeOf
<1>6. ASSUME NEW y \in Renamed(r.dir)', ext'[y[1]] \in r.picked PROVE y \in r.renamed \ {x}
  <2>1. PICK m \in Nodes : ext[m] \in DOMAIN r.dir /\ name'[m] # r.dir[ext[m]].name /\ y = <<m, r.dir[ext[m]].name>>
    BY <1>2, <1>4 DEF Renamed
  <2>2. m # x[1] /\ name'[m] = name[m]
    BY <1>1, <1>2, <2>1 DEF Shapes, TreeInv, Nodes
  <2>3. y \in Renamed(r.dir) /\ ext[y[1]] \in r.picked /\ y[1] = m
    BY <1>2, <1>6, <2>1, <2>2 DEF Renamed
  <2>. QED
    BY <2>2, <2>3 DEF Intact
<1>. QED
  BY <1>1, <1>2, <1>3, <1>4, <1>5, <1>6 DEF Continues, Intact

LEMMA NextIntact == Shapes /\ AllIntact /\ [ImportNext]_allVars => AllIntact'
<1>. SUFFICES ASSUME Shapes, AllIntact, [ImportNext]_allVars, NEW i \in Running', i \notin disturbed'
              PROVE  Intact(i)'
  BY DEF AllIntact
<1>1. i \in Imports /\ import'[i].at \in {"add", "create"}
  BY DEF Running, Imports
<1>2. CASE i \in Running \ disturbed /\ import'[i] = import[i] /\ UNCHANGED <<path, name, ext>>
  BY <1>2, SameIntact DEF AllIntact
<1>3. CASE ImportStep(i) /\ (i \in Running => i \notin disturbed)
  <2>1. i \in Running => Intact(i)
    BY <1>3 DEF AllIntact
  <2>2. ASSUME NEW d \in Directories, NEW S \in Selections, Fetch(i, d, S \cap DOMAIN d) PROVE Intact(i)'
    <3>. DEFINE picked == S \cap DOMAIN d
    <3>1. picked \in SUBSET (DOMAIN d) /\ Fetch(i, d, picked)
      BY <2>2
    <3>. HIDE DEF picked
    <3>. QED
      BY <1>1, <3>1, FetchIntact
  <2>3. ASSUME NEW e \in import[i].todo, Look(i, e) PROVE Intact(i)'
    <3>1. Stands(i, "add")
      BY <2>3, Zenon DEF Look
    <3>2. Intact(i)
      BY <1>1, <2>1, <3>1 DEF Running, Stands
    <3>. QED
      BY <1>1, <2>3, <3>2, LookIntact
  <2>4. ASSUME ImportCreate(i) PROVE Intact(i)'
    <3>1. Stands(i, "create")
      BY <2>4, Zenon DEF ImportCreate
    <3>2. Intact(i)
      BY <1>1, <2>1, <3>1 DEF Running, Stands
    <3>. QED
      BY <1>1, <2>4, <3>2, CreateIntact
  <2>5. ASSUME NEW x \in import[i].renamed, ImportRename(i, x) PROVE Intact(i)'
    <3>1. Stands(i, "add")
      BY <2>5, Zenon DEF ImportRename
    <3>2. Intact(i)
      BY <1>1, <2>1, <3>1 DEF Running, Stands
    <3>. QED
      BY <1>1, <2>5, <3>2, RenameIntact
  <2>6. ~ImportEnds(i) /\ ~ImportFails(i)
    BY <1>1 DEF ImportEnds, ImportFails, Abort, NoImport, Shapes, ImportsFit
  <2>. QED
    BY <1>3, <2>2, <2>3, <2>4, <2>5, <2>6 DEF ImportStep
<1>. QED
  BY <1>2, <1>3, Untouched

\* What an import goes for that it has read and nobody has touched since.
Differs(dir, picked) == picked \cap Added(dir) # {} \/ \E x \in Renamed(dir) : ext[x[1]] \in picked

\* It ends only with its statements done, and what it has read still holds.
LEMMA EndsDone ==
  ASSUME Shapes, NEW i \in Imports, ImportEnds(i), Intact(i)
  PROVE  /\ ~Differs(import[i].dir, import[i].picked)
         /\ \A e \in import[i].added : Placed(import[i].dir, e)
<1>1. import[i].todo = {} /\ import[i].renamed = {}
  BY DEF ImportEnds
<1>. QED
  BY <1>1 DEF Intact, Differs

\* An entry that has not been placed although its parent was selected would have had to wait.
LEMMA OnlyOrphans ==
  ASSUME Shapes, NEW i \in Imports, NEW e \in import[i].todo, Look(i, e), Orphaned(i, e), Intact(i)
  PROVE  /\ e \in import[i].picked
         /\ import[i].dir[e].parent \notin import[i].picked \cup {None}
         /\ NodeOf(import[i].dir[e].parent) = {}
<1>. SUFFICES ASSUME NEW r, r = import[i], NEW up, up = r.dir[e].parent
              PROVE  e \in r.picked /\ up \notin r.picked \cup {None} /\ NodeOf(up) = {}
  OBVIOUS
<1>1. e \in DOMAIN r.dir /\ e \in r.picked /\ r.dir \in Directories /\ r.todo = Added(r.dir) \cap r.picked
  BY DEF Intact, Added
<1>2. up # None /\ NodeOf(up) = {} /\ up \notin r.todo
  BY DEF Orphaned, Look, ParentPending
<1>3. up \in DOMAIN r.dir
  BY <1>1, <1>2, DirectoriesAssumption
<1>. QED
  BY <1>1, <1>2, <1>3 DEF Added

LEMMA StepEffect ==
  ASSUME Shapes, [ImportNext]_allVars, NEW i \in Imports, import[i].at \in {"add", "create"}, Intact(i)
  PROVE  /\ import'[i].at = "done" => ImportEnds(i)
         /\ import'[i].at = "aborted" /\ faults' = faults =>
              \E e \in import[i].todo : Look(i, e) /\ Orphaned(i, e)
<1>. DEFINE Goal == /\ import'[i].at = "done" => ImportEnds(i)
                    /\ import'[i].at = "aborted" /\ faults' = faults =>
                         \E e \in import[i].todo : Look(i, e) /\ Orphaned(i, e)
<1>1. faults \in Nat /\ ImportsFit /\ TreeInv /\ ext \in [Orgs -> Externals \cup {None}]
  BY BoundsAssumption DEF Shapes, CountsFit, ExtFits
<1>2. ASSUME UNCHANGED import PROVE Goal
  BY <1>2
<1>3. ASSUME NEW j \in Imports \ {i}, ImportStep(j) PROVE Goal
  <2>1. import'[i] = import[i]
    BY <1>1, <1>3, StepImports DEF Carries
  <2>. QED
    BY <2>1
<1>4. ASSUME Costs("err") \/ Costs("lost") PROVE faults' # faults
  BY <1>1, <1>4 DEF Costs
<1>5. ASSUME NEW e \in import[i].todo, Look(i, e) PROVE Goal
  <2>1. CASE Skipped(i, e)
    BY <2>1 DEF Skipped, Continues
  <2>2. CASE Found(i, e)
    BY <2>2 DEF Found, Continues
  <2>3. CASE Orphaned(i, e)
    <3>1. import'[i].at = "aborted"
      BY <1>1, <2>3 DEF Orphaned, Abort, ImportsFit, NoImport
    <3>. QED
      BY <1>5, <2>3, <3>1
  <2>. QED
    BY <1>1, <1>5, <2>1, <2>2, <2>3, Looked
<1>6. ASSUME ImportCreate(i) PROVE Goal
  <2>1. ASSUME Continues(i, "add", import[i].todo \ {import[i].item}, import[i].renamed, import[i].made \cup {NewId})
        PROVE  Goal
    BY <2>1 DEF Continues
  <2>2. ASSUME Costs("lost"), Abort(i, {NewId}) PROVE Goal
    <3>1. import'[i].at = "aborted" /\ faults' # faults
      BY <1>1, <1>4, <2>2 DEF Abort, ImportsFit, NoImport
    <3>. QED
      BY <3>1
  <2>. QED
    BY <1>1, <1>6, <2>1, <2>2, CanCreate, CreatedOne
<1>7. ASSUME NEW x \in import[i].renamed, ImportRename(i, x) PROVE Goal
  <2>1. x[1] \in Nodes
    BY DEF Intact
  <2>2. ASSUME Continues(i, "add", import[i].todo, import[i].renamed \ {x}, import[i].made \cup {x[1]}) PROVE Goal
    BY <2>2 DEF Continues
  <2>3. ASSUME Costs("lost"), Abort(i, {x[1]}) PROVE Goal
    <3>1. import'[i].at = "aborted" /\ faults' # faults
      BY <1>1, <1>4, <2>3 DEF Abort, ImportsFit, NoImport
    <3>. QED
      BY <3>1
  <2>. QED
    BY <1>1, <1>7, <2>1, <2>2, <2>3, RenamedOne
<1>8. ASSUME ImportEnds(i) PROVE Goal
  <2>1. import'[i].at = "done"
    BY <1>1, <1>8 DEF ImportEnds, ImportsFit, NoImport
  <2>. QED
    BY <1>8, <2>1
<1>9. ASSUME ImportFails(i) PROVE Goal
  <2>1. import'[i].at = "aborted"
    BY <1>1, <1>9 DEF ImportFails, Abort, ImportsFit, NoImport
  <2>. QED
    BY <1>4, <1>9, <2>1 DEF ImportFails
<1>10. ASSUME NEW d \in Directories, NEW S \in Selections, Fetch(i, d, S \cap DOMAIN d) PROVE FALSE
  <2>1. Stands(i, "idle")
    BY <1>10, Zenon DEF Fetch
  <2>. QED
    BY <2>1 DEF Stands
<1>11. ASSUME Restart, import' = [j \in Imports |-> IF j \in Running THEN [NoImport EXCEPT !.at = "aborted"] ELSE import[j]]
       PROVE  Goal
  <2>1. import'[i].at = "aborted"
    BY <1>11 DEF Running, NoImport
  <2>. QED
    BY <1>4, <1>11, <2>1 DEF Restart
<1>12. ASSUME ImportStep(i) PROVE Goal
  BY <1>5, <1>6, <1>7, <1>8, <1>9, <1>10, <1>12 DEF ImportStep
<1>. QED
  BY <1>2, <1>3, <1>11, <1>12 DEF ImportNext, allVars

\* An import that nobody disturbs does what was selected, or lacked a parent for a reason of the selection.
THEOREM ImportsTakeEffect == ImportSpec => ImportTakesEffect
<1>1. ImportInit => AllIntact
  BY DEF ImportInit, AllIntact, Running, NoImport
<1>2. ASSUME Shapes, AllIntact, [ImportNext]_allVars, NEW i \in Running \ disturbed
      PROVE  LET dir == import[i].dir
                 picked == import[i].picked IN
             /\ import'[i].at = "done" =>
                  /\ picked \cap Added(dir) = {}
                  /\ \A r \in Renamed(dir) : ext[r[1]] \notin picked
                  /\ \A e \in import[i].added : Placed(dir, e)
             /\ import'[i].at = "aborted" /\ faults' = faults =>
                  \E e \in picked : dir[e].parent \notin picked \cup {None} /\ NodeOf(dir[e].parent) = {}
  <2>1. i \in Imports /\ import[i].at \in {"add", "create"} /\ Intact(i)
    BY <1>2 DEF AllIntact, Running
  <2>2. ASSUME import'[i].at = "done"
        PROVE  /\ ~Differs(import[i].dir, import[i].picked)
               /\ \A e \in import[i].added : Placed(import[i].dir, e)
    BY <1>2, <2>1, <2>2, StepEffect, EndsDone
  <2>3. ASSUME import'[i].at = "aborted", faults' = faults
        PROVE  \E e \in import[i].picked : /\ import[i].dir[e].parent \notin import[i].picked \cup {None}
                                           /\ NodeOf(import[i].dir[e].parent) = {}
    <3>1. PICK e \in import[i].todo : Look(i, e) /\ Orphaned(i, e)
      BY <1>2, <2>1, <2>3, StepEffect
    <3>. QED
      BY <1>2, <2>1, <3>1, OnlyOrphans
  <2>. QED
    BY <2>2, <2>3 DEF Differs
<1>3. Shapes /\ AllIntact /\ [ImportNext]_allVars =>
        [\A i \in Running \ disturbed :
           LET dir == import[i].dir
               picked == import[i].picked IN
           /\ import'[i].at = "done" =>
                /\ picked \cap Added(dir) = {}
                /\ \A r \in Renamed(dir) : ext[r[1]] \notin picked
                /\ \A e \in import[i].added : Placed(dir, e)
           /\ import'[i].at = "aborted" /\ faults' = faults =>
                \E e \in picked : dir[e].parent \notin picked \cup {None} /\ NodeOf(dir[e].parent) = {}]_allVars
  BY <1>2
<1>. QED
  BY <1>1, <1>3, NextIntact, ShapesHold, PTL DEF ImportSpec, ImportTakesEffect

-----------------------------------------------------------------------------
(* A round that nobody disturbs.                                            *)

\* An organization that is created is known to exist from then on.
LEMMA CreatedPlan ==
  ASSUME PlansFit, NEW r \in Rounds, NEW e \in round[r].plan.todo["CreateOrganization"],
         CreateOrganization(r, e), faults' = faults, faults \in Nat, upOrg[e.id] = None
  PROVE  LET p == round[r].plan IN
         /\ upOrg' = [upOrg EXCEPT ![e.id] = e.alias]
         /\ round'[r].at = round[r].at
         /\ round'[r].plan = [orgs |-> p.orgs, teams |-> p.teams, live |-> p.live \cup {e.id},
                              todo |-> [p.todo EXCEPT !["CreateOrganization"] = p.todo["CreateOrganization"] \ {e}]]
<1>. DEFINE p == round[r].plan
            done == Done(r, "CreateOrganization", e)
            t == [p.todo EXCEPT !["CreateOrganization"] = p.todo["CreateOrganization"] \ {e}]
            d == done[r].plan
<1>1. PICK o \in Outcomes :
        /\ Costs(o)
        /\ upOrg' = IF Applied(o) /\ upOrg[e.id] = None THEN [upOrg EXCEPT ![e.id] = e.alias] ELSE upOrg
        /\ round' = [done EXCEPT ![r].plan.live = IF Acked(o) /\ upOrg[e.id] = None THEN @ \cup {e.id} ELSE @]
  BY DEF CreateOrganization
<1>2. o = "ok"
  BY <1>1 DEF Costs
<1>3. "CreateOrganization" \in Verbs
  BY DEF Verbs
<1>4. /\ done \in [Rounds -> RoundRecord] /\ done[r].at = round[r].at
      /\ d = [orgs |-> p.orgs, teams |-> p.teams, live |-> p.live, todo |-> t]
  BY <1>3, DonePlan, DoneFits DEF Fits
<1>5. done[r] \in RoundRecord /\ d \in PlanRecord
  BY <1>4 DEF RoundRecord
<1>. HIDE DEF done
<1>6. round' = [done EXCEPT ![r].plan.live = d.live \cup {e.id}]
  BY <1>1, <1>2 DEF Acked
<1>. DEFINE l == d.live \cup {e.id}
            new == [orgs |-> d.orgs, teams |-> d.teams, live |-> l, todo |-> d.todo]
            rec == [at |-> done[r].at, plan |-> new]
<1>7. rec = [done[r] EXCEPT !.plan = [d EXCEPT !.live = l]]
  <2>1. new = [d EXCEPT !.live = l]
    BY <1>5, ChangedLive
  <2>. HIDE DEF new, l
  <2>. QED
    BY <1>5, <2>1, ChangedPlan, Zenon
<1>8. round' = [done EXCEPT ![r] = rec]
  BY <1>6, <1>7, Zenon
<1>9. rec.at = done[r].at /\ rec.plan = new
  OBVIOUS
<1>. HIDE DEF rec
<1>10. round'[r] = rec
  BY <1>4, <1>8
<1>11. upOrg' = [upOrg EXCEPT ![e.id] = e.alias]
  BY <1>1, <1>2 DEF Applied
<1>12. new = [orgs |-> p.orgs, teams |-> p.teams, live |-> p.live \cup {e.id}, todo |-> t]
  BY <1>4
<1>. QED
  BY <1>4, <1>9, <1>10, <1>11, <1>12

\* A tree has one entry of a kind for a node.
LEMMA OneEntry ==
  /\ \A e, w \in WantedOrgs(Nodes) : e.id = w.id => e = w
  /\ \A e, w \in WantedTeams(Nodes) : e.id = w.id => e = w
<1>1. ASSUME NEW e \in WantedOrgs(Nodes), NEW w \in WantedOrgs(Nodes), e.id = w.id PROVE e = w
  <2>1. PICK m \in Nodes, n \in Nodes :
          /\ e = [id |-> m, alias |-> name[m], org |-> None]
          /\ w = [id |-> n, alias |-> name[n], org |-> None]
    BY DEF WantedOrgs
  <2>2. e.id = m /\ w.id = n
    BY <2>1
  <2>. QED
    BY <1>1, <2>1, <2>2
<1>2. ASSUME NEW e \in WantedTeams(Nodes), NEW w \in WantedTeams(Nodes), e.id = w.id PROVE e = w
  <2>. DEFINE Org(n) == IF Len(path[n]) >= 2 THEN path[n][2] ELSE None
  <2>1. PICK m \in Nodes, n \in Nodes :
          /\ e = [id |-> m, alias |-> name[m], org |-> Org(m)]
          /\ w = [id |-> n, alias |-> name[n], org |-> Org(n)]
    BY DEF WantedTeams
  <2>. HIDE DEF Org
  <2>2. e.id = m /\ w.id = n
    BY <2>1
  <2>. QED
    BY <1>2, <2>1, <2>2
<1>. QED
  BY <1>1, <1>2

\* The organization a wanted team belongs to is itself wanted.
LEMMA WantedOrgOf ==
  ASSUME TreeInv, NEW e \in WantedTeams(Nodes), e.org # None
  PROVE  \E w \in WantedOrgs(Nodes) : w.id = e.org
<1>. DEFINE n == e.id
            o == path[n][2]
<1>1. n \in Nodes /\ n \in Orgs /\ Len(path[n]) >= 2 /\ e.org = o
  BY Wanted DEF Nodes
<1>2. path \in [Orgs -> Seq(Orgs)] /\ Len(path[n]) \in Nat /\ 2 \in 1..Len(path[n])
  BY <1>1 DEF TreeInv, TreeFit
<1>3. o \in Nodes /\ Len(path[o]) = 2
  BY <1>1, <1>2, OnThePath DEF TreeInv
<1>. DEFINE w == [id |-> o, alias |-> name[o], org |-> None]
<1>4. w \in WantedOrgs(Nodes) /\ w.id = o
  BY <1>3 DEF WantedOrgs
<1>. QED
  BY <1>1, <1>4

\* Of the plan of a round that nobody disturbs: the lists hold just what is missing, and whatever
\* is there but not on a list is as it should be.
OrgsMended ==
  LET p == round[Loop].plan IN
  \A w \in p.orgs :
    /\ w \in p.todo["CreateOrganization"] <=> upOrg[w.id] = None
    /\ upOrg[w.id] # None => w.id \in p.live /\ (upOrg[w.id] = w.alias \/ w \in p.todo["UpdateOrganization"])

TeamsMended ==
  LET p == round[Loop].plan IN
  \A w \in p.teams :
    /\ w \in p.todo["CreateTeam"] <=> upTeam[w.id] = NoTeam
    /\ \/ upTeam[w.id] = NoTeam \/ w \in p.todo["UpdateTeam"]
       \/ upTeam[w.id].alias = w.alias /\ w.org \in {upTeam[w.id].org, None}

Mending ==
  LET p == round[Loop].plan IN
  /\ round[Loop].at \in {"orgs", "teams", "apply"} => p.orgs = WantedOrgs(Nodes) /\ p.teams = WantedTeams(Nodes)
  /\ round[Loop].at \in {"teams", "apply"} => OrgsMended
  /\ At(Loop, "apply") => TeamsMended
  /\ At(Loop, "wait") => InSync

\* The loop alone takes steps, and nothing fails.
Undisturbed == (LoopBegins \/ RoundStep(Loop)) /\ UNCHANGED faults

\* When a round turns to a team, the organization it belongs to is there, and the round knows.
LEMMA OrgIsThere ==
  ASSUME TreeInv, PlansFit, Mending, NEW v \in {"CreateTeam", "UpdateTeam"}, NEW e, Turn(Loop, v, e)
  PROVE  e \in WantedTeams(Nodes) /\ e.org \in round[Loop].plan.live \cup {None} /\ Attachable(e.org)
<1>. DEFINE p == round[Loop].plan
<1>1. Loop \in Rounds /\ PlanFits(p) /\ At(Loop, "apply") /\ e \in p.todo[v]
  BY DEF Rounds, PlansFit, Turn
<1>2. e \in WantedTeams(Nodes) /\ p.orgs = WantedOrgs(Nodes) /\ OrgsMended
  BY <1>1 DEF Mending, At, PlanFits
<1>3. p.todo["CreateOrganization"] = {}
  BY DEF Turn, Earlier, Verbs
<1>4. CASE e.org = None
  BY <1>2, <1>4 DEF Attachable
<1>5. CASE e.org # None
  <2>1. PICK w \in WantedOrgs(Nodes) : w.id = e.org
    BY <1>2, <1>5, WantedOrgOf
  <2>2. upOrg[w.id] # None /\ w.id \in p.live
    BY <1>2, <1>3, <2>1 DEF OrgsMended
  <2>. QED
    BY <1>2, <2>1, <2>2 DEF Attachable
<1>. QED
  BY <1>4, <1>5

LEMMA NextMending == Shapes /\ Mending /\ [Undisturbed]_vars => Mending'
<1>. SUFFICES ASSUME Shapes, Mending, [Undisturbed]_vars PROVE Mending'
  OBVIOUS
<1>. DEFINE p == round[Loop].plan
            q == round'[Loop].plan
            orgs == WantedOrgs(Nodes)
            teams == WantedTeams(Nodes)
<1>1. /\ Loop \in Rounds /\ TreeInv /\ PlansFit /\ UpFits /\ faults \in Nat
      /\ round[Loop] \in RoundRecord /\ p \in PlanRecord /\ PlanFits(p)
  BY DEF Shapes, CountsFit, Rounds, PlansFit, RoundRecord
<1>2. orgs \subseteq Entity /\ teams \subseteq Entity
  BY <1>1, Wanted
<1>3. CASE UNCHANGED vars
  <2>1. UNCHANGED <<path, name, holder, upOrg, upTeam, round>>
    BY <1>3 DEF vars, tree, upstream
  <2>2. UNCHANGED <<Nodes, orgs, teams, InSync>>
    BY <2>1 DEF Nodes, WantedOrgs, WantedTeams, InSync
  <2>. QED
    BY <2>1, <2>2 DEF Mending, At, OrgsMended, TeamsMended
<1>4. SUFFICES ASSUME LoopBegins \/ RoundStep(Loop), UNCHANGED faults PROVE Mending'
  BY <1>3 DEF Undisturbed
<1>5. UNCHANGED <<path, name, holder>>
  BY <1>4 DEF LoopBegins, RoundStep, PlanLocal, PlanOrgs, PlanTeams, PlanFails, RoundEnds, CreateOrganization,
              UpdateOrganization, SkipTeam, CreateTeam, UpdateTeam, tree
<1>6. orgs' = orgs /\ teams' = teams
  BY <1>5 DEF Nodes, WantedOrgs, WantedTeams
<1>7. CASE LoopBegins
  <2>1. round'[Loop].at = "local"
    BY <1>1, <1>7 DEF LoopBegins, Goes, PlansFit
  <2>. QED
    BY <2>1 DEF Mending, At
<1>8. CASE PlanLocal(Loop)
  <2>1. round'[Loop].at = "orgs" /\ q.orgs = orgs /\ q.teams = teams
    BY <1>1, <1>8, LocalPlan, Gone
  <2>. QED
    BY <1>6, <2>1 DEF Mending, At
<1>9. CASE PlanOrgs(Loop)
  <2>. DEFINE live == {e.id : e \in {w \in p.orgs : upOrg[w.id] # None}}
              missing == {w \in p.orgs : upOrg[w.id] = None}
              other == {w \in p.orgs : upOrg[w.id] \notin {None, w.alias}}
              todo == Lists(p.todo, "CreateOrganization", missing, "UpdateOrganization", other)
  <2>1. round'[Loop].at = "teams" /\ q = [orgs |-> p.orgs, teams |-> p.teams, live |-> live, todo |-> todo]
    BY <1>1, <1>9, OrgsPlan, Gone
  <2>2. todo["CreateOrganization"] = missing /\ todo["UpdateOrganization"] = other
    BY <1>1 DEF Lists, PlanRecord, Verbs
  <2>. HIDE DEF todo
  <2>3. q.orgs = orgs /\ q.teams = teams /\ q.live = live /\ q.todo = todo /\ upOrg' = upOrg
    BY <1>9, <2>1 DEF PlanOrgs, Mending, At, upstream
  <2>4. OrgsMended'
    BY <2>1, <2>2, <2>3 DEF OrgsMended
  <2>. QED
    BY <1>6, <2>1, <2>3, <2>4 DEF Mending, At
<1>10. CASE PlanTeams(Loop)
  <2>. DEFINE missing == {w \in p.teams : upTeam[w.id] = NoTeam}
              other == {w \in p.teams : upTeam[w.id] \notin {NoTeam, [alias |-> w.alias, org |-> w.org]}}
              todo == Lists(p.todo, "CreateTeam", missing, "UpdateTeam", other)
  <2>1. round'[Loop].at = "apply" /\ q = [orgs |-> p.orgs, teams |-> p.teams, live |-> p.live, todo |-> todo]
    BY <1>1, <1>10, TeamsPlan, Gone
  <2>2. /\ todo["CreateTeam"] = missing /\ todo["UpdateTeam"] = other
        /\ todo["CreateOrganization"] = p.todo["CreateOrganization"]
        /\ todo["UpdateOrganization"] = p.todo["UpdateOrganization"]
    BY <1>1 DEF Lists, PlanRecord, Verbs
  <2>. HIDE DEF todo, missing, other
  <2>3. /\ q.orgs = orgs /\ q.teams = teams /\ q.live = p.live /\ q.todo = todo
        /\ p.orgs = orgs /\ p.teams = teams /\ upOrg' = upOrg /\ upTeam' = upTeam
    BY <1>10, <2>1 DEF PlanTeams, Mending, At, upstream
  <2>4. OrgsMended
    BY <1>10 DEF PlanTeams, Mending, At
  <2>5. OrgsMended'
    BY <2>2, <2>3, <2>4 DEF OrgsMended
  <2>6. ASSUME NEW w \in teams, w \notin missing, w \notin other
        PROVE  upTeam[w.id].alias = w.alias /\ w.org = upTeam[w.id].org
    <3>1. upTeam[w.id] = [alias |-> w.alias, org |-> w.org]
      BY <2>3, <2>6 DEF missing, other
    <3>. QED
      BY <3>1
  <2>7. TeamsMended'
    BY <2>2, <2>3, <2>6 DEF TeamsMended, missing
  <2>. QED
    BY <1>6, <2>1, <2>3, <2>5, <2>7 DEF Mending, At
<1>11. ~PlanFails(Loop)
  BY <1>1, <1>4 DEF PlanFails, Costs
<1>12. CASE RoundEnds(Loop)
  <2>1. /\ At(Loop, "apply") /\ round'[Loop].at = "wait"
        /\ \A v \in Verbs : p.todo[v] = {}
        /\ upOrg' = upOrg /\ upTeam' = upTeam
    BY <1>1, <1>12 DEF RoundEnds, Goes, PlansFit, upstream
  <2>2. p.orgs = orgs /\ p.teams = teams /\ OrgsMended /\ TeamsMended
    BY <2>1 DEF Mending, At
  <2>3. \A v \in {"CreateOrganization", "UpdateOrganization", "CreateTeam", "UpdateTeam"} : p.todo[v] = {}
    BY <2>1 DEF Verbs
  <2>4. \A w \in orgs : upOrg[w.id] = w.alias
    BY <2>2, <2>3 DEF OrgsMended
  <2>5. \A w \in teams : upTeam[w.id].alias = w.alias /\ w.org \in {upTeam[w.id].org, None}
    BY <2>2, <2>3 DEF TeamsMended
  <2>6. InSync'
    BY <1>6, <2>1, <2>4, <2>5 DEF InSync
  <2>. QED
    BY <2>1, <2>6 DEF Mending, At
<1>13. ASSUME NEW v \in Verbs, NEW e, Turn(Loop, v, e), q.orgs = p.orgs, q.teams = p.teams, round'[Loop].at = "apply",
              OrgsMended', TeamsMended'
       PROVE  Mending'
  <2>1. p.orgs = orgs /\ p.teams = teams
    BY <1>13 DEF Turn, Mending, At
  <2>. QED
    BY <1>6, <1>13, <2>1 DEF Mending, At
<1>14. ASSUME NEW e, CreateOrganization(Loop, e) PROVE Mending'
  <2>1. Turn(Loop, "CreateOrganization", e) /\ e \in p.todo["CreateOrganization"] /\ "CreateOrganization" \in Verbs
    BY <1>14 DEF CreateOrganization, Turn, Verbs
  <2>2. p.orgs = orgs /\ p.teams = teams /\ OrgsMended /\ TeamsMended /\ e \in orgs
    BY <1>1, <2>1 DEF Turn, Mending, At, PlanFits
  <2>3. upOrg[e.id] = None
    BY <2>1, <2>2 DEF OrgsMended
  <2>. DEFINE todo == [p.todo EXCEPT !["CreateOrganization"] = p.todo["CreateOrganization"] \ {e}]
  <2>4. /\ upOrg' = [upOrg EXCEPT ![e.id] = e.alias] /\ upTeam' = upTeam
        /\ round'[Loop].at = "apply"
        /\ q = [orgs |-> p.orgs, teams |-> p.teams, live |-> p.live \cup {e.id}, todo |-> todo]
    BY <1>1, <1>4, <1>14, <2>1, <2>3, CreatedPlan DEF CreateOrganization, Turn, At
  <2>5. /\ todo["CreateOrganization"] = p.todo["CreateOrganization"] \ {e}
        /\ \A u \in {"UpdateOrganization", "CreateTeam", "UpdateTeam"} : todo[u] = p.todo[u]
    BY <1>1 DEF PlanRecord, Verbs
  <2>. HIDE DEF todo
  <2>6. q.orgs = p.orgs /\ q.teams = p.teams /\ q.live = p.live \cup {e.id} /\ q.todo = todo
    BY <2>4
  <2>7. \A w \in orgs : w # e => w.id # e.id
    BY <2>2, OneEntry
  <2>8. e.id \in Orgs /\ e.alias # None /\ upOrg'[e.id] = e.alias /\ \A w \in orgs : w # e => upOrg'[w.id] = upOrg[w.id]
    BY <1>1, <1>2, <2>2, <2>4, <2>7, NoneAssumption DEF UpFits, Entity
  <2>9. OrgsMended'
    BY <2>2, <2>5, <2>6, <2>8 DEF OrgsMended
  <2>10. TeamsMended'
    BY <2>2, <2>4, <2>5, <2>6 DEF TeamsMended
  <2>. QED
    BY <1>13, <2>1, <2>4, <2>6, <2>9, <2>10
<1>15. ASSUME NEW e, UpdateOrganization(Loop, e) PROVE Mending'
  <2>1. Turn(Loop, "UpdateOrganization", e) /\ e \in p.todo["UpdateOrganization"] /\ "UpdateOrganization" \in Verbs
    BY <1>15 DEF UpdateOrganization, Turn, Verbs
  <2>2. p.orgs = orgs /\ p.teams = teams /\ OrgsMended /\ TeamsMended /\ e \in orgs
    BY <1>1, <2>1 DEF Turn, Mending, At, PlanFits
  <2>3. upOrg[e.id] # None
    <3>1. p.todo["CreateOrganization"] = {}
      BY <2>1 DEF Turn, Earlier, Verbs
    <3>. QED
      BY <2>2, <3>1 DEF OrgsMended
  <2>. DEFINE todo == [p.todo EXCEPT !["UpdateOrganization"] = p.todo["UpdateOrganization"] \ {e}]
  <2>4. upOrg' = [upOrg EXCEPT ![e.id] = e.alias] /\ upTeam' = upTeam
    <3>1. PICK o \in Outcomes : /\ Costs(o)
                                /\ upOrg' = IF Applied(o) /\ upOrg[e.id] # None THEN [upOrg EXCEPT ![e.id] = e.alias] ELSE upOrg
      BY <1>15 DEF UpdateOrganization
    <3>2. Applied(o)
      BY <1>1, <1>4, <3>1 DEF Costs, Applied
    <3>. QED
      BY <1>15, <2>3, <3>1, <3>2 DEF UpdateOrganization
  <2>5. round'[Loop].at = "apply" /\ q = [orgs |-> p.orgs, teams |-> p.teams, live |-> p.live, todo |-> todo]
    BY <1>1, <1>15, <2>1, DonePlan DEF UpdateOrganization, Turn, At
  <2>6. /\ todo["UpdateOrganization"] = p.todo["UpdateOrganization"] \ {e}
        /\ \A u \in {"CreateOrganization", "CreateTeam", "UpdateTeam"} : todo[u] = p.todo[u]
    BY <1>1 DEF PlanRecord, Verbs
  <2>. HIDE DEF todo
  <2>7. q.orgs = p.orgs /\ q.teams = p.teams /\ q.live = p.live /\ q.todo = todo
    BY <2>5
  <2>8. \A w \in orgs : w # e => w.id # e.id
    BY <2>2, OneEntry
  <2>9. e.id \in Orgs /\ e.alias # None /\ upOrg'[e.id] = e.alias /\ \A w \in orgs : w # e => upOrg'[w.id] = upOrg[w.id]
    BY <1>1, <1>2, <2>2, <2>4, <2>8, NoneAssumption DEF UpFits, Entity
  <2>10. OrgsMended'
    BY <2>2, <2>3, <2>6, <2>7, <2>9 DEF OrgsMended
  <2>11. TeamsMended'
    BY <2>2, <2>4, <2>6, <2>7 DEF TeamsMended
  <2>. QED
    BY <1>13, <2>1, <2>5, <2>7, <2>10, <2>11
<1>16. ASSUME NEW v \in {"CreateTeam", "UpdateTeam"}, NEW e PROVE ~SkipTeam(Loop, v, e)
  BY <1>1, OrgIsThere DEF SkipTeam
<1>17. ASSUME NEW v \in {"CreateTeam", "UpdateTeam"}, NEW e, Turn(Loop, v, e), NEW o,
              upTeam' = [upTeam EXCEPT ![e.id] = [alias |-> e.alias, org |-> o]], e.org \in {o, None},
              upOrg' = upOrg, round' = Done(Loop, v, e)
       PROVE  Mending'
  <2>1. e \in p.todo[v] /\ v \in Verbs
    BY <1>17 DEF Turn, Verbs
  <2>2. p.orgs = orgs /\ p.teams = teams /\ OrgsMended /\ TeamsMended /\ e \in teams
    BY <1>1, <1>17, <2>1 DEF Turn, Mending, At, PlanFits
  <2>. DEFINE todo == [p.todo EXCEPT ![v] = p.todo[v] \ {e}]
  <2>3. round'[Loop].at = "apply" /\ q = [orgs |-> p.orgs, teams |-> p.teams, live |-> p.live, todo |-> todo]
    BY <1>1, <1>17, <2>1, DonePlan DEF Turn, At
  <2>4. todo[v] = p.todo[v] \ {e} /\ \A u \in Verbs \ {v} : todo[u] = p.todo[u]
    BY <1>1 DEF PlanRecord, Verbs
  <2>. HIDE DEF todo
  <2>5. q.orgs = p.orgs /\ q.teams = p.teams /\ q.live = p.live /\ q.todo = todo
    BY <2>3
  <2>6. \A w \in teams : w # e => w.id # e.id
    BY <2>2, OneEntry
  <2>7. e.id \in Orgs /\ e.alias # None
    BY <1>2, <2>2, NoneAssumption DEF Entity
  <2>8. upTeam'[e.id] = [alias |-> e.alias, org |-> o] /\ \A w \in teams : w # e => upTeam'[w.id] = upTeam[w.id]
    BY <1>1, <1>2, <1>17, <2>2, <2>6, <2>7 DEF UpFits, Entity
  <2>9. upTeam'[e.id].alias = e.alias /\ upTeam'[e.id].org = o /\ upTeam'[e.id] # NoTeam
    BY <2>7, <2>8 DEF NoTeam
  <2>10. OrgsMended'
    BY <1>17, <2>2, <2>4, <2>5 DEF OrgsMended, Verbs
  <2>11. TeamsMended'
    <3>1. v = "UpdateTeam" => p.todo["CreateTeam"] = {}
      BY <1>17 DEF Turn, Earlier, Verbs
    <3>2. ASSUME NEW w \in teams, w # e
          PROVE  \A u \in {"CreateTeam", "UpdateTeam"} : w \in todo[u] <=> w \in p.todo[u]
      BY <2>4, <3>2 DEF Verbs
    <3>3. e \notin todo["CreateTeam"]
      BY <2>4, <3>1 DEF Verbs
    <3>. QED
      BY <1>17, <2>2, <2>5, <2>8, <2>9, <3>2, <3>3 DEF TeamsMended
  <2>. QED
    BY <1>13, <1>17, <2>1, <2>3, <2>5, <2>10, <2>11
<1>18. ASSUME NEW e, CreateTeam(Loop, e) PROVE Mending'
  <2>1. Turn(Loop, "CreateTeam", e) /\ Attachable(e.org)
    BY <1>1, <1>18, OrgIsThere DEF CreateTeam
  <2>2. upTeam[e.id] = NoTeam
    BY <1>1, <2>1 DEF Turn, Mending, At, PlanFits, TeamsMended
  <2>3. PICK o \in Outcomes :
          /\ Costs(o)
          /\ upTeam' = IF Applied(o) /\ upTeam[e.id] = NoTeam /\ Attachable(e.org)
                       THEN [upTeam EXCEPT ![e.id] = [alias |-> e.alias, org |-> e.org]] ELSE upTeam
    BY <1>18 DEF CreateTeam
  <2>4. Applied(o)
    BY <1>1, <1>4, <2>3 DEF Costs, Applied
  <2>. QED
    BY <1>17, <1>18, <2>1, <2>2, <2>3, <2>4 DEF CreateTeam
<1>19. ASSUME NEW e, UpdateTeam(Loop, e) PROVE Mending'
  <2>1. Turn(Loop, "UpdateTeam", e) /\ Attachable(e.org)
    BY <1>1, <1>19, OrgIsThere DEF UpdateTeam
  <2>2. upTeam[e.id] # NoTeam
    <3>1. p.todo["CreateTeam"] = {}
      BY <2>1 DEF Turn, Earlier, Verbs
    <3>. QED
      BY <1>1, <2>1, <3>1 DEF Turn, Mending, At, PlanFits, TeamsMended
  <2>3. PICK o \in Outcomes :
          /\ Costs(o)
          /\ upTeam' = IF Applied(o) /\ upTeam[e.id] # NoTeam /\ Attachable(e.org)
                       THEN [upTeam EXCEPT ![e.id] =
                               [alias |-> e.alias, org |-> IF e.org = None THEN @.org ELSE e.org]] ELSE upTeam
    BY <1>19 DEF UpdateTeam
  <2>4. Applied(o)
    BY <1>1, <1>4, <2>3 DEF Costs, Applied
  <2>. DEFINE org == IF e.org = None THEN upTeam[e.id].org ELSE e.org
  <2>5. upTeam' = [upTeam EXCEPT ![e.id] = [alias |-> e.alias, org |-> org]]
    BY <2>1, <2>2, <2>3, <2>4, Zenon
  <2>6. e.org \in {org, None}
    OBVIOUS
  <2>. HIDE DEF org
  <2>. QED
    BY <1>17, <1>19, <2>1, <2>5, <2>6 DEF UpdateTeam
<1>. QED
  BY <1>4, <1>7, <1>8, <1>9, <1>10, <1>11, <1>12, <1>14, <1>15, <1>16, <1>18, <1>19 DEF RoundStep, SkipTeam

\* What is in sync stays so: there is nothing to create, and an update writes what is there.
LEMMA NextInSync == Shapes /\ Mending /\ InSync /\ [Undisturbed]_vars => InSync'
<1>. SUFFICES ASSUME Shapes, Mending, InSync, [Undisturbed]_vars PROVE InSync'
  OBVIOUS
<1>. DEFINE p == round[Loop].plan
            orgs == WantedOrgs(Nodes)
            teams == WantedTeams(Nodes)
<1>1. Loop \in Rounds /\ TreeInv /\ PlansFit /\ UpFits
  BY DEF Shapes, Rounds
<1>2. orgs \subseteq Entity /\ teams \subseteq Entity
  BY <1>1, Wanted
<1>3. UNCHANGED <<path, name, holder>>
  BY DEF Undisturbed, LoopBegins, RoundStep, PlanLocal, PlanOrgs, PlanTeams, PlanFails, RoundEnds,
         CreateOrganization, UpdateOrganization, SkipTeam, CreateTeam, UpdateTeam, tree, vars
<1>4. orgs' = orgs /\ teams' = teams
  BY <1>3 DEF Nodes, WantedOrgs, WantedTeams
<1>5. CASE UNCHANGED upstream
  BY <1>4, <1>5 DEF InSync, upstream
<1>6. SUFFICES ASSUME ~UNCHANGED upstream PROVE InSync'
  BY <1>5
<1>7. RoundStep(Loop) /\ At(Loop, "apply")
  BY <1>6 DEF Undisturbed, vars, LoopBegins, RoundStep, PlanLocal, PlanOrgs, PlanTeams, PlanFails, RoundEnds,
              CreateOrganization, UpdateOrganization, SkipTeam, CreateTeam, UpdateTeam, Turn
<1>8. p.orgs = orgs /\ p.teams = teams
  BY <1>7 DEF Mending, At
<1>9. CASE WritesOrg(Loop)
  <2>1. PICK e \in orgs : upOrg' = [upOrg EXCEPT ![e.id] = e.alias] /\ upTeam' = upTeam
    BY <1>8, <1>9 DEF WritesOrg
  <2>2. \A w \in orgs : w.id = e.id => w = e
    BY OneEntry
  <2>3. \A w \in orgs : upOrg'[w.id] = w.alias
    BY <1>1, <1>2, <2>1, <2>2 DEF InSync, UpFits, Entity
  <2>. QED
    BY <1>4, <2>1, <2>3 DEF InSync
<1>10. CASE WritesTeam(Loop)
  <2>1. PICK e \in teams, o \in Orgs \cup {None} :
          /\ upTeam' = [upTeam EXCEPT ![e.id] = [alias |-> e.alias, org |-> o]] /\ upOrg' = upOrg
          /\ e.org \in {o, None}
    BY <1>8, <1>10 DEF WritesTeam
  <2>2. \A w \in teams : w.id = e.id => w = e
    BY OneEntry
  <2>3. upTeam'[e.id].alias = e.alias /\ upTeam'[e.id].org = o
    BY <1>1, <1>2, <2>1 DEF UpFits, Entity
  <2>4. \A w \in teams : w # e => upTeam'[w.id] = upTeam[w.id]
    BY <1>1, <1>2, <2>1, <2>2 DEF UpFits, Entity
  <2>5. \A w \in teams : upTeam'[w.id].alias = w.alias /\ w.org \in {upTeam'[w.id].org, None}
    BY <2>1, <2>3, <2>4 DEF InSync
  <2>. QED
    BY <1>4, <2>1, <2>5 DEF InSync
<1>. QED
  BY <1>1, <1>6, <1>7, <1>9, <1>10, RoundWrites

\* A round that nobody disturbs and in which nothing fails mends everything: whatever edits,
\* imports, crashes and overlapping rounds have left in the tree and upstream, once it is over
\* the two agree, and go on doing so (Plan, ReconcileOnce).
CalmRoundsMend ==
  [](At(Loop, "local") /\ [][Undisturbed]_vars => [](At(Loop, "wait") => []InSync))

THEOREM RoundsMend == ImportSpec => CalmRoundsMend
<1>1. At(Loop, "local") => Mending
  BY DEF Mending, At
<1>2. Mending /\ At(Loop, "wait") => InSync
  BY DEF Mending
<1>. QED
  BY <1>1, <1>2, NextMending, NextInSync, ShapesHold, PTL DEF CalmRoundsMend
=============================================================================

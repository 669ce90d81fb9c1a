--------------------------- MODULE ConfigApplyProofs ---------------------------
(***************************************************************************)
(* Proofs about module ConfigApply, for any files, slugs and ids, and for  *)
(* every order in which the maps of a file can be ranged over.             *)
(*                                                                         *)
(* The tables are good when ids and slugs are unique and nothing refers to *)
(* what is not there; that, with finitely many rows, is inductive.  A loop *)
(* of applyConfig is a fold, and a fold is a path from tables to tables,   *)
(* one entry a step.  Of each stage it is then shown what it reaches, what *)
(* it leaves alone and which ids it keeps, and the stages are put together *)
(* to the transaction.                                                     *)
(*                                                                         *)
(* That the order of renames decides nothing needs the place of every row  *)
(* after any of the renames: a slug that was taken is left before it is    *)
(* given again, one that was free is given before it is left, and so every *)
(* order that works carries the same rows to the same slugs.               *)
(***************************************************************************)
EXTENDS ConfigApply, FiniteSetTheorems, WellFoundedInduction, TLAPS

-----------------------------------------------------------------------------
(* Numbers *)

\* A set of numbers that holds 0, and n + 1 with every n, holds them all: the
\* least number it does not hold would be neither.
LEMMA SetInduction ==
  ASSUME NEW T, 0 \in T, \A n \in Nat : n \in T => n + 1 \in T
  PROVE  Nat \subseteq T
<1> DEFINE others == Nat \ T
<1>1. SUFFICES ASSUME others # {} PROVE FALSE
  OBVIOUS
<1>2. PICK n \in others : \A m \in others : ~ (<<m, n>> \in OpToRel(<, Nat))
  BY <1>1, NatLessThanWellFounded, WFMin
<1>3. \A m \in others : ~(m < n)
  BY <1>2 DEF OpToRel
<1>4. n # 0 /\ n - 1 \in Nat /\ n - 1 \notin others
  BY <1>3
<1>5. QED
  BY <1>4

\* A finite set of numbers has an upper bound, and so a greatest member.
LEMMA MaxBounds ==
  ASSUME NEW S \in SUBSET Nat, IsFiniteSet(S), S # {}
  PROVE  Max(S) \in S /\ \A y \in S : Max(S) >= y
<1> DEFINE HasMax(R) == \E x \in R : \A y \in R : x >= y
           T == {n \in Nat : \A R \in SUBSET Nat :
                   IsFiniteSet(R) /\ Cardinality(R) = n /\ R # {} => HasMax(R)}
<1>1. 0 \in T
  BY FS_EmptySet
<1>2. ASSUME NEW n \in Nat, n \in T PROVE n + 1 \in T
  <2> SUFFICES ASSUME NEW R \in SUBSET Nat, IsFiniteSet(R), Cardinality(R) = n + 1, R # {}
               PROVE  HasMax(R)
    OBVIOUS
  <2>1. PICK a \in R : TRUE
    OBVIOUS
  <2>2. IsFiniteSet(R \ {a}) /\ Cardinality(R \ {a}) = n
    <3>1. (n + 1) - 1 = n
      OBVIOUS
    <3>2. QED
      BY <2>1, <3>1, FS_RemoveElement
  <2>3. CASE R \ {a} = {}
    BY <2>1, <2>3
  <2>4. CASE R \ {a} # {}
    <3>1. PICK x \in R \ {a} : \A y \in R \ {a} : x >= y
      BY <1>2, <2>2, <2>4
    <3>2. x \in Nat /\ a \in Nat
      OBVIOUS
    <3>3. CASE x >= a
      BY <3>1, <3>3
    <3>4. CASE a >= x
      BY <3>1, <3>2, <3>4
    <3>5. QED
      BY <3>2, <3>3, <3>4
  <2>5. QED
    BY <2>3, <2>4
<1> HIDE DEF T
<1>3. Nat \subseteq T
  BY <1>1, <1>2, SetInduction
<1>4. Cardinality(S) \in T
  BY <1>3, FS_CardinalityType
<1>5. HasMax(S)
  BY <1>4 DEF T
<1>6. QED
  BY <1>5 DEF Max

\* The greatest of the numbers that hold n and are in 1..n.
LEMMA MaxIsLast ==
  ASSUME NEW n \in Nat, NEW s \in SUBSET (1..n), n \in s
  PROVE  Max(s) = n
<1>1. \A y \in s : n >= y
  OBVIOUS
<1>2. \A x \in s : (\A y \in s : x >= y) => x = n
  OBVIOUS
<1>3. QED
  BY <1>1, <1>2 DEF Max

-----------------------------------------------------------------------------
(* Folds, as paths of tables *)

\* What an entry of a section does: a rename, or a new entity of a kind.
Entry(f, section, u, e) ==
  IF section = "rename" THEN RenameEntity(f, u, e) ELSE Insert(u, section, e.slug, e.type, e.value)

IsPath(path, f, section, t, order, n) ==
  /\ path[0] = t
  /\ \A k \in 1..n : path[k] = Entry(f, section, path[k - 1], order[k])

\* The equation of the recursive function that FoldLeft applies to 1..n.
Folds(g, f, section, t, order, n) ==
  g = [s \in SUBSET (1..n) |->
         IF s = {} THEN t ELSE Entry(f, section, g[s \ {Max(s)}], order[Max(s)])]

\* Such a function exists: one for the first n entries extends to the next.
LEMMA FoldsExist ==
  ASSUME NEW f, NEW section, NEW t, NEW order, NEW n \in Nat
  PROVE  \E g : Folds(g, f, section, t, order, n)
<1> DEFINE Loop(g, m) == Folds(g, f, section, t, order, m)
           T == {m \in Nat : \E g : Loop(g, m)}
<1>1. 0 \in T
  <2> DEFINE g == [s \in SUBSET (1..0) |-> t]
  <2>1. \A s \in SUBSET (1..0) : s = {}
    OBVIOUS
  <2>2. Loop(g, 0)
    BY <2>1 DEF Folds
  <2>3. QED
    BY <2>2
<1>2. ASSUME NEW m \in Nat, m \in T PROVE m + 1 \in T
  <2>1. PICK g : Loop(g, m)
    BY <1>2
  <2> DEFINE h == [s \in SUBSET (1..m + 1) |->
                     IF m + 1 \in s
                     THEN Entry(f, section, g[s \ {m + 1}], order[m + 1])
                     ELSE g[s]]
  <2>2. \A s \in SUBSET (1..m + 1) : m + 1 \notin s => s \in SUBSET (1..m)
    OBVIOUS
  <2>3. \A s \in SUBSET (1..m) : s \in SUBSET (1..m + 1) /\ m + 1 \notin s /\ h[s] = g[s]
    OBVIOUS
  <2> SUFFICES ASSUME NEW s \in SUBSET (1..m + 1)
               PROVE  h[s] = IF s = {} THEN t
                             ELSE Entry(f, section, h[s \ {Max(s)}], order[Max(s)])
    <3>1. Loop(h, m + 1)
      BY DEF Folds
    <3> HIDE DEF Loop, h
    <3>2. QED
      BY <3>1
  <2>4. CASE m + 1 \in s
    <3>1. Max(s) = m + 1
      BY <2>4, MaxIsLast
    <3>2. s \ {m + 1} \in SUBSET (1..m)
      OBVIOUS
    <3>3. h[s \ {m + 1}] = g[s \ {m + 1}]
      BY <2>3, <3>2
    <3>4. h[s] = Entry(f, section, g[s \ {m + 1}], order[m + 1])
      BY <2>4
    <3>5. QED
      BY <2>4, <3>1, <3>3, <3>4
  <2>5. CASE m + 1 \notin s
    <3>1. s \in SUBSET (1..m) /\ h[s] = g[s]
      BY <2>2, <2>3, <2>5
    <3>2. s \ {Max(s)} \in SUBSET (1..m)
      BY <3>1
    <3>3. h[s \ {Max(s)}] = g[s \ {Max(s)}]
      BY <2>3, <3>2
    <3> HIDE DEF h
    <3>4. QED
      BY <2>1, <3>1, <3>3 DEF Folds
  <2>6. QED
    BY <2>4, <2>5
<1> HIDE DEF T
<1>3. Nat \subseteq T
  BY <1>1, <1>2, SetInduction
<1>4. QED
  BY <1>3 DEF T

\* Read along 1..k, it is a path.
LEMMA FoldsArePaths ==
  ASSUME NEW f, NEW section, NEW t, NEW order, NEW n \in Nat,
         NEW g, Folds(g, f, section, t, order, n)
  PROVE  \E path : IsPath(path, f, section, t, order, n) /\ path[n] = g[1..n]
<1> DEFINE path == [k \in 0..n |-> g[1..k]]
<1>1. path[0] = t
  BY DEF Folds
<1>2. ASSUME NEW k \in 1..n
      PROVE  path[k] = Entry(f, section, path[k - 1], order[k])
  <2>1. 1..k \in SUBSET (1..n) /\ 1..k # {} /\ k - 1 \in 0..n /\ k \in 0..n
    OBVIOUS
  <2>2. Max(1..k) = k
    BY MaxIsLast
  <2>3. (1..k) \ {k} = 1..(k - 1)
    OBVIOUS
  <2>4. QED
    BY <2>1, <2>2, <2>3 DEF Folds
<1>3. path[n] = g[1..n]
  OBVIOUS
<1> HIDE DEF path
<1>4. QED
  BY <1>1, <1>2, <1>3 DEF IsPath

\* The folds of the model.
Creates(t, kind, order) == FoldLeft(LAMBDA u, e : Insert(u, kind, e.slug, e.type, e.value), t, order)
Renames(f, t, order)    == FoldLeft(LAMBDA u, e : RenameEntity(f, u, e), t, order)

\* Creating entities is a path.
LEMMA InsertsArePath ==
  ASSUME NEW f, IsFile(f), NEW kind, kind # "rename", NEW t, NEW n \in Nat,
         NEW order, DOMAIN order = 1..n
  PROVE  \E path : IsPath(path, f, kind, t, order, n) /\ Creates(t, kind, order) = path[n]
<1> DEFINE Loop(g) == g = [s \in SUBSET (1..n) |->
                             IF s = {} THEN t
                             ELSE Insert(g[s \ {Max(s)}], kind, order[Max(s)].slug,
                                         order[Max(s)].type, order[Max(s)].value)]
           iter == CHOOSE g : Loop(g)
           result == Creates(t, kind, order)
<1>1. DOMAIN order = 1..n
  OBVIOUS
<1>2. result = iter[1..n]
  BY <1>1 DEF FoldLeft, MapThenFoldSet, Creates
<1>3. \A g : Loop(g) <=> Folds(g, f, kind, t, order, n)
  BY DEF Folds, Entry
<1> HIDE DEF Loop
<1>4. Loop(iter)
  <2>1. \E g : Loop(g)
    BY <1>3, FoldsExist
  <2>2. QED
    BY <2>1
<1> HIDE DEF iter, result
<1>5. Folds(iter, f, kind, t, order, n)
  BY <1>3, <1>4
<1>6. \E path : IsPath(path, f, kind, t, order, n) /\ path[n] = iter[1..n]
  BY <1>5, FoldsArePaths
<1>7. \E path : IsPath(path, f, kind, t, order, n) /\ result = path[n]
  BY <1>2, <1>6
<1>8. QED
  BY <1>7 DEF result

\* Renaming is a path.
LEMMA RenamesArePath ==
  ASSUME NEW f, IsFile(f), NEW t, NEW n \in Nat, NEW order, DOMAIN order = 1..n
  PROVE  \E path : IsPath(path, f, "rename", t, order, n) /\ Renames(f, t, order) = path[n]
<1> DEFINE Loop(g) == g = [s \in SUBSET (1..n) |->
                             IF s = {} THEN t
                             ELSE RenameEntity(f, g[s \ {Max(s)}], order[Max(s)])]
           iter == CHOOSE g : Loop(g)
           result == Renames(f, t, order)
<1>1. DOMAIN order = 1..n
  OBVIOUS
<1>2. result = iter[1..n]
  BY <1>1 DEF FoldLeft, MapThenFoldSet, Renames
<1>3. \A g : Loop(g) <=> Folds(g, f, "rename", t, order, n)
  BY DEF Folds, Entry
<1> HIDE DEF Loop
<1>4. Loop(iter)
  <2>1. \E g : Loop(g)
    BY <1>3, FoldsExist
  <2>2. QED
    BY <2>1
<1> HIDE DEF iter, result
<1>5. Folds(iter, f, "rename", t, order, n)
  BY <1>3, <1>4
<1>6. \E path : IsPath(path, f, "rename", t, order, n) /\ path[n] = iter[1..n]
  BY <1>5, FoldsArePaths
<1>7. \E path : IsPath(path, f, "rename", t, order, n) /\ result = path[n]
  BY <1>2, <1>6
<1>8. QED
  BY <1>7 DEF result

-----------------------------------------------------------------------------
(* Good tables: ids and slugs are unique, nothing refers to what is not there *)

Unique(rows) ==
  \A r1, r2 \in rows : r1.kind = r2.kind /\ (r1.id = r2.id \/ r1.slug = r2.slug) => r1 = r2

GoodRows(rows) == rows \in SUBSET Row /\ IsFiniteSet(rows) /\ Unique(rows)

Known(rows, kind, id) == \E r \in rows : r.kind = kind /\ r.id = id

GoodReferences(rows, links, email) ==
  /\ \A l \in links : Known(rows, "monitors", l.monitor) /\ Known(rows, l.kind, l.id)
  /\ email = 0 \/ Known(rows, "notification-channels", email)

Good(t) == GoodRows(t.rows) /\ GoodReferences(t.rows, t.links, t.email)

\* A transaction, or the tables between transactions, in good order.
GoodTables(t)      == t \in Tables /\ Good(t)
GoodTransaction(t) == t \in Transactions /\ Good(t)

\* The type invariant says that the tables are good, and IInv that they are finite.
LEMMA TypeIsGood == TypeOK /\ IsFiniteSet(tables.rows) <=> GoodTables(tables)
BY DEF TypeOK, GoodTables, Good, GoodRows, GoodReferences, Unique, Known, Tables

\* The next id is a new one.
LEMMA NextIdIsNew ==
  ASSUME NEW t, GoodRows(t.rows), NEW kind
  PROVE  /\ NextId(t, kind) \in Nat \ {0}
         /\ \A r \in t.rows : r.kind = kind => r.id # NextId(t, kind)
<1> DEFINE peers == {x \in t.rows : x.kind = kind}
           ids   == {r.id : r \in peers}
<1>1. IsFiniteSet(peers)
  BY FS_Subset DEF GoodRows
<1>2. IsFiniteSet(ids)
  <2> DEFINE idOf == [r \in peers |-> r.id]
  <2>1. idOf \in Surjection(peers, ids)
    BY DEF Surjection
  <2> HIDE DEF idOf, peers, ids
  <2>2. QED
    BY <1>1, <2>1, FS_Surjection
<1>3. IsFiniteSet({0} \cup ids)
  <2>1. IsFiniteSet(ids \cup {0})
    BY <1>2, FS_AddElement
  <2>2. ids \cup {0} = {0} \cup ids
    OBVIOUS
  <2>3. QED
    BY <2>1, <2>2
<1>4. ids \subseteq Nat
  BY DEF GoodRows, Row
<1> DEFINE all == {0} \cup ids
<1>5. all \in SUBSET Nat /\ all # {}
  BY <1>4
<1>6. Max(all) \in all /\ \A y \in all : Max(all) >= y
  <2>1. IsFiniteSet(all)
    BY <1>3
  <2> HIDE DEF all
  <2>2. QED
    BY <1>5, <2>1, MaxBounds
<1>7. NextId(t, kind) = 1 + Max(all)
  BY DEF NextId
<1>8. ASSUME NEW r \in t.rows, r.kind = kind PROVE r.id \in all
  BY <1>8
<1> HIDE DEF all
<1>9. Max(all) \in Nat
  BY <1>5, <1>6
<1>10. ASSUME NEW r \in t.rows, r.kind = kind PROVE r.id # NextId(t, kind)
  <2>1. r.id \in Nat /\ Max(all) >= r.id
    BY <1>5, <1>6, <1>8, <1>10
  <2>2. QED
    BY <1>7, <1>9, <2>1
<1>11. QED
  BY <1>7, <1>9, <1>10

\* More rows, or the same ids, keep what refers to them.
LEMMA ReferencesKept ==
  ASSUME NEW rows, NEW more, NEW links, NEW email, GoodReferences(rows, links, email),
         \A r \in rows : Known(more, r.kind, r.id)
  PROVE  GoodReferences(more, links, email)
BY DEF GoodReferences, Known

\* A new row.
LEMMA NewRow ==
  ASSUME NEW rows, GoodRows(rows), NEW kind \in Kinds, NEW slug \in Slugs, NEW type \in Types,
         NEW value \in Values, NEW id \in Nat \ {0}, \A r \in rows : r.kind = kind => r.id # id /\ r.slug # slug
  PROVE  GoodRows(rows \cup {[kind |-> kind, id |-> id, slug |-> slug,
                              type |-> type, value |-> value]})
<1> DEFINE row == [kind |-> kind, id |-> id, slug |-> slug, type |-> type, value |-> value]
<1>1. row \in Row
  BY DEF Row
<1>2. IsFiniteSet(rows \cup {row})
  BY FS_AddElement DEF GoodRows
<1>3. Unique(rows \cup {row})
  <2>1. row.kind = kind /\ row.id = id /\ row.slug = slug
    OBVIOUS
  <2> HIDE DEF row
  <2>2. QED
    BY <2>1 DEF Unique, GoodRows
<1>4. QED
  BY <1>1, <1>2, <1>3 DEF GoodRows

\* Insert keeps ids and slugs unique when the slug is free.
LEMMA InsertRows ==
  ASSUME NEW t, GoodRows(t.rows), NEW kind \in Kinds, NEW slug \in Slugs, NEW type \in Types,
         NEW value \in Values, Fresh(t, kind, slug)
  PROVE  GoodRows(t.rows \cup {[kind |-> kind, id |-> NextId(t, kind), slug |-> slug,
                                type |-> type, value |-> value]})
<1>1. \A r \in t.rows : r.kind = kind => r.slug # slug
  BY DEF Fresh, Named
<1>2. QED
  BY <1>1, NextIdIsNew, NewRow

\* Rows that are gone, with what referred to them.
LEMMA DeleteIsGood ==
  ASSUME NEW rows, NEW links, NEW email, GoodRows(rows), GoodReferences(rows, links, email),
         NEW gone \in SUBSET rows
  PROVE  /\ GoodRows(rows \ gone)
         /\ GoodReferences(rows \ gone,
              {l \in links : \A r \in gone : /\ ~(r.kind = "monitors" /\ r.id = l.monitor)
                                             /\ ~(r.kind = l.kind /\ r.id = l.id)},
              IF \E r \in gone : r.kind = "notification-channels" /\ r.id = email
              THEN 0 ELSE email)
<1>1. IsFiniteSet(rows \ gone)
  BY FS_Subset DEF GoodRows
<1>2. QED
  BY <1>1 DEF GoodRows, Unique, GoodReferences, Known

\* Rows with a part of them under another slug.
Moved(rows, source, slug) == (rows \ source) \cup {[r EXCEPT !.slug = slug] : r \in source}

\* A row under a slug that is free.
LEMMA RenameIsGood ==
  ASSUME NEW t, GoodRows(t.rows), NEW kind, NEW src \in Slugs, NEW dst \in Slugs,
         Named(t, kind, dst) \subseteq Named(t, kind, src)
  PROVE  /\ GoodRows(Moved(t.rows, Named(t, kind, src), dst))
         /\ \A r \in t.rows : Known(Moved(t.rows, Named(t, kind, src), dst), r.kind, r.id)
<1> DEFINE rows   == t.rows
           source == Named(t, kind, src)
           moved  == Moved(rows, source, dst)
<1>1. CASE source = {}
  BY <1>1 DEF Known, Moved
<1>2. CASE source # {}
  <2>1. PICK r \in source : TRUE
    BY <1>2
  <2>2. source = {r}
    BY <2>1 DEF GoodRows, Unique, Named
  <2> DEFINE new == [r EXCEPT !.slug = dst]
  <2>3. r \in Row /\ r \in rows /\ r.kind = kind
    BY <2>1 DEF GoodRows, Named
  <2>4. new \in Row /\ new.kind = kind /\ new.id = r.id /\ new.slug = dst
    BY <2>3 DEF Row
  <2>5. moved = (rows \ {r}) \cup {new}
    BY <2>2 DEF Moved
  <2> HIDE DEF new, moved
  <2>6. IsFiniteSet(moved)
    <3>1. IsFiniteSet(rows \ {r})
      BY FS_RemoveElement DEF GoodRows
    <3>2. IsFiniteSet((rows \ {r}) \cup {new})
      BY <3>1, FS_AddElement
    <3>3. QED
      BY <2>5, <3>2
  <2>7. \A x \in rows \ {r} : x.kind = kind => x.id # r.id /\ x.slug # dst
    BY <2>2, <2>3 DEF GoodRows, Unique, Named
  <2>8. Unique(moved)
    BY <2>4, <2>5, <2>7 DEF GoodRows, Unique
  <2>9. \A x \in rows : Known(moved, x.kind, x.id)
    BY <2>3, <2>4, <2>5 DEF Known
  <2>10. moved \in SUBSET Row
    BY <2>4, <2>5 DEF GoodRows
  <2>11. QED
    BY <2>6, <2>8, <2>9, <2>10 DEF GoodRows, moved
<1>3. QED
  BY <1>1, <1>2

-----------------------------------------------------------------------------
(* New entities, as the map of the file is ranged over *)

\* Insert, on a transaction: one more row, and nothing else.
LEMMA InsertInto ==
  ASSUME NEW t, GoodTransaction(t), NEW kind \in Kinds, NEW slug \in Slugs, NEW type \in Types,
         NEW value \in Values, Fresh(t, kind, slug)
  PROVE  LET u   == Insert(t, kind, slug, type, value)
             row == [kind |-> kind, id |-> NextId(t, kind), slug |-> slug,
                     type |-> type, value |-> value]
         IN  /\ GoodTransaction(u)
             /\ u.rows = t.rows \cup {row}
             /\ u.links = t.links /\ u.email = t.email /\ u.ok = t.ok
<1> DEFINE u   == Insert(t, kind, slug, type, value)
           row == [kind |-> kind, id |-> NextId(t, kind), slug |-> slug,
                   type |-> type, value |-> value]
           R   == t.rows \cup {row}
<1>1. GoodRows(R)
  BY InsertRows DEF GoodTransaction, Good
<1>2. GoodReferences(R, t.links, t.email)
  <2>1. \A r \in t.rows : Known(R, r.kind, r.id)
    BY DEF Known
  <2>2. QED
    BY <2>1, ReferencesKept DEF GoodTransaction, Good
<1>3. u = [t EXCEPT !.rows = R]
  BY DEF Insert, GoodTransaction, Transactions
<1> HIDE DEF u, R
<1>4. u \in Transactions /\ u.rows = R /\ u.links = t.links /\ u.email = t.email /\ u.ok = t.ok
  BY <1>1, <1>3 DEF GoodRows, GoodTransaction, Transactions
<1>5. QED
  BY <1>1, <1>2, <1>4 DEF GoodTransaction, Good, u, R

\* In whatever order a set is ranged over, every member has its turn, once.
LEMMA RangedOver ==
  ASSUME NEW S, IsFiniteSet(S), NEW order \in SetToSeqs(S)
  PROVE  /\ Cardinality(S) \in Nat
         /\ order \in [1..Cardinality(S) -> S]
         /\ \A i, j \in 1..Cardinality(S) : i # j => order[i] # order[j]
         /\ \A e \in S : \E i \in 1..Cardinality(S) : order[i] = e
<1> DEFINE n == Cardinality(S)
<1>1. n \in Nat
  BY FS_CardinalityType
<1>2. order \in [1..n -> S] /\ \A i, j \in 1..n : i # j => order[i] # order[j]
  BY DEF SetToSeqs
<1>3. IsFiniteSet(1..n) /\ Cardinality(1..n) = n
  <2>1. ~(1 > n) => n - 1 + 1 = n
    BY <1>1
  <2>2. 1 > n => n = 0
    BY <1>1
  <2>3. QED
    BY <1>1, <2>1, <2>2, FS_Interval
<1>4. order \in Injection(1..n, S)
  BY <1>2 DEF Injection, IsInjective
<1>5. order \in Surjection(1..n, S)
  BY <1>3, <1>4, FS_Injection
<1>6. QED
  BY <1>1, <1>2, <1>5 DEF Surjection

\* What creating the declared entities of a kind leaves alone, adds and reaches.
LEMMA CreatesDeclared ==
  ASSUME NEW f, IsFile(f), NEW t, GoodTransaction(t), NEW kind \in Kinds,
         NEW u \in CreateDeclared(t, f, kind)
  PROVE  /\ GoodTransaction(u)
         /\ u.links = t.links /\ u.email = t.email /\ u.ok = t.ok
         /\ t.rows \subseteq u.rows
         /\ \A r \in u.rows \ t.rows : r.kind = kind /\ r.slug \in Declared(f, kind)
         /\ \A s \in Declared(f, kind) : ~Fresh(u, kind, s)
<1> DEFINE new == {e \in f.entities : e.kind = kind /\ Fresh(t, kind, e.slug)}
           n   == Cardinality(new)
<1>1. IsFiniteSet(new)
  BY FS_Subset DEF IsFile
<1>2. PICK order \in SetToSeqs(new) :
        u = Creates(t, kind, order)
  BY DEF CreateDeclared, Creates
<1>3. /\ n \in Nat
      /\ order \in [1..n -> new]
      /\ \A i, j \in 1..n : i # j => order[i] # order[j]
      /\ \A e \in new : \E i \in 1..n : order[i] = e
  <2> HIDE DEF new
  <2>1. QED
    BY <1>1, RangedOver
<1>4. kind # "rename"
  BY DEF Kinds
<1>5. PICK path : IsPath(path, f, kind, t, order, n) /\ u = path[n]
  <2> HIDE DEF new, n
  <2>1. \E path : IsPath(path, f, kind, t, order, n) /\ Creates(t, kind, order) = path[n]
    <3>1. DOMAIN order = 1..n
      BY <1>3
    <3>2. QED
      BY <1>3, <1>4, <3>1, InsertsArePath
  <2>2. QED
    BY <1>2, <2>1
<1>6. \A i \in 1..n : /\ order[i].slug \in Slugs /\ order[i].type \in Types
                      /\ order[i].value \in Values
                      /\ order[i].slug \in Declared(f, kind)
                      /\ Fresh(t, kind, order[i].slug)
                      /\ \A j \in 1..n : i # j => order[i].slug # order[j].slug
  <2>1. \A e \in new : /\ e.slug \in Slugs /\ e.type \in Types /\ e.value \in Values
                       /\ e.slug \in Declared(f, kind) /\ Fresh(t, kind, e.slug)
    BY DEF IsFile, Entity, Values, Declared
  <2>2. \A d, e \in new : d # e => d.slug # e.slug
    BY DEF IsFile
  <2> HIDE DEF new
  <2>3. \A i \in 1..n : order[i] \in new
    BY <1>3
  <2>4. QED
    BY <1>3, <2>1, <2>2, <2>3
<1> DEFINE Made(v, k) ==
             /\ GoodTransaction(v)
             /\ v.links = t.links /\ v.email = t.email /\ v.ok = t.ok
             /\ t.rows \subseteq v.rows
             /\ \A r \in v.rows \ t.rows : r.kind = kind /\ \E i \in 1..k : r.slug = order[i].slug
             /\ \A i \in 1..k : ~Fresh(v, kind, order[i].slug)
<1>7. Made(path[n], n)
  <2> DEFINE T == {k \in Nat : k \in 0..n => Made(path[k], k)}
  <2>1. 0 \in T
    BY <1>5 DEF IsPath
  <2>2. ASSUME NEW k \in Nat, k \in T PROVE k + 1 \in T
    <3> SUFFICES ASSUME k + 1 \in 0..n PROVE Made(path[k + 1], k + 1)
      OBVIOUS
    <3> DEFINE v == path[k]
               e == order[k + 1]
               w == path[k + 1]
               row == [kind |-> kind, id |-> NextId(v, kind), slug |-> e.slug,
                       type |-> e.type, value |-> e.value]
    <3>1. k \in 0..n /\ k + 1 \in 1..n /\ (k + 1) - 1 = k
      BY <1>3
    <3>2. Made(v, k)
      BY <2>2, <3>1
    <3>3. w = Insert(v, kind, e.slug, e.type, e.value)
      BY <1>4, <1>5, <3>1 DEF IsPath, Entry
    <3> HIDE DEF v, w
    <3>4. e.slug \in Slugs /\ e.type \in Types /\ e.value \in Values /\ Fresh(t, kind, e.slug)
          /\ \A i \in 1..k : e.slug # order[i].slug
      <4>1. \A i \in 1..k : i \in 1..n /\ i # k + 1
        BY <1>3, <3>1
      <4>2. QED
        BY <1>6, <3>1, <4>1
    <3>5. Fresh(v, kind, e.slug)
      BY <3>2, <3>4 DEF Fresh, Named
    <3>6. /\ GoodTransaction(w)
          /\ w.rows = v.rows \cup {row}
          /\ w.links = v.links /\ w.email = v.email /\ w.ok = v.ok
      BY <3>2, <3>3, <3>4, <3>5, InsertInto
    <3>7. row.kind = kind /\ row.slug = e.slug
      OBVIOUS
    <3> HIDE DEF row
    <3>8. \A r \in w.rows \ t.rows : r.kind = kind /\ \E i \in 1..(k + 1) : r.slug = order[i].slug
      BY <3>1, <3>2, <3>6, <3>7
    <3>9. \A i \in 1..(k + 1) : ~Fresh(w, kind, order[i].slug)
      <4>1. \A i \in 1..(k + 1) : i \in 1..k \/ i = k + 1
        OBVIOUS
      <4>2. QED
        BY <3>2, <3>6, <3>7, <4>1 DEF Fresh, Named
    <3>10. QED
      BY <3>2, <3>6, <3>8, <3>9 DEF w
  <2> HIDE DEF T
  <2>3. Nat \subseteq T
    BY <2>1, <2>2, SetInduction
  <2>4. n \in Nat /\ n \in 0..n
    BY <1>3
  <2>5. QED
    BY <2>3, <2>4 DEF T
<1>8. \A s \in Declared(f, kind) : ~Fresh(u, kind, s)
  <2> SUFFICES ASSUME NEW s \in Declared(f, kind) PROVE ~Fresh(u, kind, s)
    OBVIOUS
  <2>1. CASE ~Fresh(t, kind, s)
    BY <1>5, <1>7, <2>1 DEF Fresh, Named
  <2>2. CASE Fresh(t, kind, s)
    <3>1. PICK e \in new : e.slug = s
      BY <2>2 DEF Declared
    <3>2. PICK i \in 1..n : order[i] = e
      BY <1>3, <3>1
    <3>3. QED
      BY <1>5, <1>7, <3>1, <3>2
  <2>3. QED
    BY <2>1, <2>2
<1>9. QED
  BY <1>5, <1>6, <1>7, <1>8

-----------------------------------------------------------------------------
(* Renames *)

\* RenameEntity, on a transaction: the rows stay good; without a message the source
\* was there, the destination free, and the row has moved.
LEMMA RenameInto ==
  ASSUME NEW f, IsFile(f), NEW t, GoodTransaction(t), NEW e \in f.rename
  PROVE  LET u == RenameEntity(f, t, e)
             source == Named(t, e.kind, e.src)
         IN  /\ GoodTransaction(u)
             /\ u.links = t.links /\ u.email = t.email
             /\ u.ok => /\ t.ok
                        /\ source # {}
                        /\ Named(t, e.kind, e.dst) \subseteq source /\ e.src # e.dst
                        /\ u.rows = Moved(t.rows, source, e.dst)
<1> DEFINE u      == RenameEntity(f, t, e)
           source == Named(t, e.kind, e.src)
           free   == Named(t, e.kind, e.dst) \subseteq source
           moved  == Moved(t.rows, source, e.dst)
           R      == IF free THEN moved ELSE t.rows
           fine   == t.ok /\ source # {} /\ free /\ e.src # e.dst /\ e.dst \in Declared(f, e.kind)
<1>1. u = [t EXCEPT !.ok = fine, !.rows = R]
  BY DEF RenameEntity, GoodTransaction, Transactions, Moved
<1>2. GoodRows(R) /\ \A r \in t.rows : Known(R, r.kind, r.id)
  <2>1. CASE free
    <3>1. GoodRows(t.rows)
      BY DEF GoodTransaction, Good
    <3>2. e.src \in Slugs /\ e.dst \in Slugs
      BY DEF IsFile
    <3>3. GoodRows(moved) /\ \A r \in t.rows : Known(moved, r.kind, r.id)
      BY <2>1, <3>1, <3>2, RenameIsGood
    <3>4. QED
      BY <2>1, <3>3
  <2>2. CASE ~free
    BY <2>2 DEF Known, GoodTransaction, Good
  <2>3. QED
    BY <2>1, <2>2
<1>3. GoodReferences(R, t.links, t.email)
  BY <1>2, ReferencesKept DEF GoodTransaction, Good
<1>4. fine \in BOOLEAN
  BY DEF GoodTransaction, Transactions
<1>5. fine => t.ok /\ source # {} /\ free /\ e.src # e.dst /\ R = moved
  OBVIOUS
<1> HIDE DEF u, R, fine, moved
<1>6. /\ u \in Transactions /\ u.rows = R
      /\ u.links = t.links /\ u.email = t.email /\ u.ok = fine
  BY <1>1, <1>2, <1>4 DEF GoodRows, GoodTransaction, Transactions
<1>7. QED
  BY <1>2, <1>3, <1>5, <1>6 DEF GoodTransaction, Good, u, moved

\* Where the entry that renames row r leads; the row has the id it had.
Moves(f, r, e) == e \in f.rename /\ e.kind = r.kind /\ e.src = r.slug

\* The renames leave good tables with the same links, and, unless they are
\* chained, each row under the slug its rename leads to.
LEMMA RenamesAreGood ==
  ASSUME NEW f, IsFile(f), NEW t, GoodTransaction(t), NEW u \in Renamed(t, f)
  PROVE  /\ GoodTransaction(u)
         /\ u.links = t.links /\ u.email = t.email
         /\ u.ok => t.ok
         /\ u.ok /\ ~Chained(f) => \A r \in t.rows : \E k \in u.rows :
              /\ k.kind = r.kind /\ k.id = r.id
              /\ \A e \in f.rename : Moves(f, r, e) => k.slug = e.dst
              /\ (\A e \in f.rename : ~Moves(f, r, e)) => k.slug = r.slug
<1> DEFINE n == Cardinality(f.rename)
<1>1. PICK order \in SetToSeqs(f.rename) : u = Renames(f, t, order)
  BY DEF Renamed, Renames
<1>2. /\ n \in Nat
      /\ order \in [1..n -> f.rename]
      /\ \A i, j \in 1..n : i # j => order[i] # order[j]
      /\ \A e \in f.rename : \E i \in 1..n : order[i] = e
  BY RangedOver DEF IsFile
<1>3. PICK path : IsPath(path, f, "rename", t, order, n) /\ u = path[n]
  <2> HIDE DEF n
  <2>1. DOMAIN order = 1..n
    BY <1>2
  <2>2. QED
    BY <1>1, <1>2, <2>1, RenamesArePath
<1>4. \A i \in 1..n : order[i] \in f.rename /\ order[i] \in [kind : Kinds, src : Slugs, dst : Slugs]
  BY <1>2 DEF IsFile
<1> DEFINE Went(r, k, v) ==
             \E q \in v.rows :
               /\ q.kind = r.kind /\ q.id = r.id
               /\ \A i \in 1..k : Moves(f, r, order[i]) => q.slug = order[i].dst
               /\ (\A i \in 1..k : ~Moves(f, r, order[i])) => q.slug = r.slug
           Made(v, k) ==
             /\ GoodTransaction(v)
             /\ v.links = t.links /\ v.email = t.email
             /\ v.ok => t.ok
             /\ v.ok /\ ~Chained(f) => \A r \in t.rows : Went(r, k, v)
<1>5. ASSUME NEW k \in Nat, k + 1 \in 1..n, NEW v, Made(v, k), NEW w,
             w = RenameEntity(f, v, order[k + 1])
      PROVE  Made(w, k + 1)
  <2> DEFINE e      == order[k + 1]
             source == Named(v, e.kind, e.src)
  <2>1. e \in f.rename /\ e \in [kind : Kinds, src : Slugs, dst : Slugs]
    BY <1>4, <1>5
  <2>2. /\ GoodTransaction(w)
        /\ w.links = v.links /\ w.email = v.email
        /\ w.ok => /\ v.ok
                   /\ w.rows = Moved(v.rows, source, e.dst)
    BY <1>5, <2>1, RenameInto
  <2>3. ASSUME w.ok, ~Chained(f), NEW r \in t.rows PROVE Went(r, k + 1, w)
    <3>1. PICK q \in v.rows :
            /\ q.kind = r.kind /\ q.id = r.id
            /\ \A i \in 1..k : Moves(f, r, order[i]) => q.slug = order[i].dst
            /\ (\A i \in 1..k : ~Moves(f, r, order[i])) => q.slug = r.slug
      BY <1>5, <2>2, <2>3
    <3>2. \A i \in 1..(k + 1) : i \in 1..k \/ i = k + 1
      OBVIOUS
    <3>3. \A i \in 1..k : i \in 1..n /\ i \in 1..(k + 1)
      BY <1>2, <1>5
    <3>4. k + 1 \in 1..(k + 1)
      OBVIOUS
    <3>5. \A i \in 1..k : order[i] \in f.rename
      BY <1>4, <3>3
    <3> HIDE DEF e
    <3>6. \A i \in 1..k : order[i] # e
      BY <1>2, <1>5, <3>3 DEF e
    <3>7. CASE Moves(f, r, e)
      <4>1. \A d \in f.rename : Moves(f, r, d) => d = e
        BY <2>1, <3>7 DEF Moves, IsFile
      <4>2. \A i \in 1..k : ~Moves(f, r, order[i])
        BY <3>5, <3>6, <4>1
      <4>3. q.slug = e.src /\ q.kind = e.kind
        BY <3>1, <3>7, <4>2 DEF Moves
      <4> DEFINE new == [q EXCEPT !.slug = e.dst]
      <4>4. new \in w.rows
        BY <2>2, <2>3, <3>1, <4>3 DEF Named, Moved
      <4>5. new.kind = r.kind /\ new.id = r.id /\ new.slug = e.dst
        BY <1>5, <3>1 DEF GoodTransaction, Good, GoodRows, Row
      <4> HIDE DEF new
      <4>6. \A i \in 1..(k + 1) : Moves(f, r, order[i]) => order[i] = e
        BY <4>1 DEF Moves
      <4>7. Moves(f, r, order[k + 1])
        BY <3>7 DEF e
      <4>8. QED
        BY <3>4, <4>4, <4>5, <4>6, <4>7
    <3>8. CASE ~Moves(f, r, e)
      <4>1. q \notin source
        <5> SUFFICES ASSUME q.kind = e.kind, q.slug = e.src PROVE FALSE
          BY DEF Named
        <5>1. CASE \E i \in 1..k : Moves(f, r, order[i])
          <6>1. PICK i \in 1..k : Moves(f, r, order[i])
            BY <5>1
          <6>2. order[i].dst = e.src /\ order[i].kind = e.kind /\ order[i] \in f.rename
            BY <3>1, <3>5, <6>1 DEF Moves
          <6>3. QED
            BY <2>1, <2>3, <6>2 DEF Chained
        <5>2. CASE \A i \in 1..k : ~Moves(f, r, order[i])
          BY <2>1, <3>1, <3>8, <5>2 DEF Moves
        <5>3. QED
          BY <5>1, <5>2
      <4>2. q \in w.rows
        BY <2>2, <2>3, <3>1, <4>1 DEF Moved
      <4>3. ~Moves(f, r, order[k + 1])
        BY <3>8 DEF e
      <4>4. QED
        BY <3>1, <3>2, <3>3, <4>2, <4>3
    <3>9. QED
      BY <3>7, <3>8
  <2>4. QED
    BY <1>5, <2>2, <2>3
<1>6. Made(path[n], n)
  <2> DEFINE T == {k \in Nat : k \in 0..n => Made(path[k], k)}
  <2>1. Made(t, 0)
    <3>1. \A r \in t.rows : Went(r, 0, t)
      OBVIOUS
    <3>2. QED
      BY <3>1
  <2>2. 0 \in T
    BY <1>3, <2>1 DEF IsPath
  <2>3. ASSUME NEW k \in Nat, k \in T PROVE k + 1 \in T
    <3> SUFFICES ASSUME k + 1 \in 0..n PROVE Made(path[k + 1], k + 1)
      OBVIOUS
    <3>1. k \in 0..n /\ k + 1 \in 1..n /\ (k + 1) - 1 = k
      BY <1>2
    <3>2. Made(path[k], k)
      BY <2>3, <3>1
    <3>3. path[k + 1] = RenameEntity(f, path[k], order[k + 1])
      BY <1>3, <3>1 DEF IsPath, Entry
    <3> HIDE DEF Made
    <3>4. QED
      BY <1>5, <3>1, <3>2, <3>3
  <2> HIDE DEF T
  <2>4. Nat \subseteq T
    BY <2>2, <2>3, SetInduction
  <2>5. n \in 0..n
    BY <1>2
  <2>6. QED
    BY <1>2, <2>4, <2>5 DEF T
<1>7. ASSUME u.ok, ~Chained(f), NEW r \in t.rows
      PROVE  \E k \in u.rows :
               /\ k.kind = r.kind /\ k.id = r.id
               /\ \A e \in f.rename : Moves(f, r, e) => k.slug = e.dst
               /\ (\A e \in f.rename : ~Moves(f, r, e)) => k.slug = r.slug
  <2>1. Went(r, n, u)
    BY <1>3, <1>6, <1>7
  <2>2. QED
    BY <1>2, <2>1
<1>8. QED
  BY <1>3, <1>6, <1>7

-----------------------------------------------------------------------------
(* Stages *)

\* Every declared slug of a kind has a row, and no other slug has.
Reaches(u, f, kind) == \A s \in Declared(f, kind) : ~Fresh(u, kind, s)
Only(u, f, kind)    == \A r \in u.rows : r.kind = kind => r.slug \in Declared(f, kind)

\* Rows of other kinds are as they were.
OthersKept(t, u, kind) == \A r : r.kind # kind => (r \in t.rows <=> r \in u.rows)

\* So is the id of every row whose slug is declared.
Keeps(t, u, f) ==
  \A r \in t.rows : r.slug \in Declared(f, r.kind) =>
    \E k \in u.rows : k.kind = r.kind /\ k.id = r.id /\ k.slug = r.slug

\* Delete, on tables or a transaction: the cascade leaves nothing dangling.
LEMMA DeleteFrom ==
  ASSUME NEW t, t \in Tables \/ t \in Transactions, Good(t), NEW gone \in SUBSET t.rows
  PROVE  LET u == Delete(t, gone)
         IN  /\ Good(u)
             /\ t \in Tables => u \in Tables
             /\ t \in Transactions => u \in Transactions /\ u.ok = t.ok
             /\ u.rows = t.rows \ gone
             /\ u.links \subseteq t.links
<1> DEFINE u == Delete(t, gone)
           R == t.rows \ gone
           L == {l \in t.links : \A r \in gone : /\ ~(r.kind = "monitors" /\ r.id = l.monitor)
                                                 /\ ~(r.kind = l.kind /\ r.id = l.id)}
           m == IF \E r \in gone : r.kind = "notification-channels" /\ r.id = t.email
                THEN 0 ELSE t.email
<1>1. u = [t EXCEPT !.rows = R, !.links = L, !.email = m]
  <2>1. CASE t \in Tables
    BY <2>1 DEF Delete, Tables
  <2>2. CASE t \in Transactions
    BY <2>2 DEF Delete, Transactions
  <2>3. QED
    BY <2>1, <2>2
<1>2. GoodRows(R) /\ GoodReferences(R, L, m)
  BY DeleteIsGood DEF Good
<1>3. L \subseteq t.links /\ R \subseteq t.rows /\ m \in {0, t.email}
  OBVIOUS
<1> HIDE DEF u, R, L, m
<1>4. u.rows = R /\ u.links = L /\ u.email = m
  BY <1>1 DEF Tables, Transactions
<1>5. t \in Tables => u \in Tables
  <2> SUFFICES ASSUME t \in Tables PROVE u \in Tables
    OBVIOUS
  <2>1. R \in SUBSET Row /\ L \in SUBSET Link /\ m \in Nat
    BY <1>3 DEF Tables
  <2>2. QED
    BY <1>1, <2>1 DEF Tables
<1>6. t \in Transactions => u \in Transactions /\ u.ok = t.ok
  <2> SUFFICES ASSUME t \in Transactions PROVE u \in Transactions /\ u.ok = t.ok
    OBVIOUS
  <2>1. R \in SUBSET Row /\ L \in SUBSET Link /\ m \in Nat
    BY <1>3 DEF Transactions
  <2>2. QED
    BY <1>1, <2>1 DEF Transactions
<1>7. QED
  BY <1>2, <1>3, <1>4, <1>5, <1>6 DEF Good, u, R

\* What is dropped is of the kind, and not declared.
LEMMA DropsUndeclared ==
  ASSUME NEW f, NEW t, GoodTransaction(t), NEW kind
  PROVE  LET u == DropUndeclared(t, f, kind)
         IN  /\ GoodTransaction(u) /\ u.ok = t.ok
             /\ Only(u, f, kind) /\ OthersKept(t, u, kind) /\ Keeps(t, u, f)
             /\ u.rows \subseteq t.rows /\ u.links \subseteq t.links
<1> DEFINE gone == {r \in t.rows : r.kind = kind /\ r.slug \notin Declared(f, kind)}
           u    == DropUndeclared(t, f, kind)
<1>1. u = Delete(t, gone)
  BY DEF DropUndeclared
<1>2. gone \in SUBSET t.rows
  OBVIOUS
<1> HIDE DEF u
<1>3. /\ Good(u) /\ u \in Transactions /\ u.ok = t.ok
      /\ u.rows = t.rows \ gone /\ u.links \subseteq t.links
  <2> HIDE DEF gone
  <2>1. QED
    BY <1>1, <1>2, DeleteFrom DEF GoodTransaction
<1>4. QED
  BY <1>3 DEF GoodTransaction, Only, OthersKept, Keeps, u

\* Writing values changes no id and no slug.
LEMMA EditsDeclared ==
  ASSUME NEW f, IsFile(f), NEW t, GoodTransaction(t), NEW kind
  PROVE  LET u == EditDeclared(t, f, kind)
         IN  /\ GoodTransaction(u) /\ u.ok = t.ok
             /\ Only(t, f, kind) => Only(u, f, kind)
             /\ OthersKept(t, u, kind) /\ Keeps(t, u, f)
<1> DEFINE u == EditDeclared(t, f, kind)
           said(r) == CHOOSE e \in f.entities : e.kind = kind /\ e.slug = r.slug
           new(r)  == IF r.type = said(r).type THEN said(r).value ELSE "refused"
           edit(r) == IF r.kind = kind /\ r.slug \in Declared(f, kind)
                      THEN [r EXCEPT !.value = new(r)] ELSE r
           R == {edit(r) : r \in t.rows}
<1>1. u = [t EXCEPT !.rows = R]
  BY DEF EditDeclared, GoodTransaction, Transactions
<1>2. \A r \in t.rows : r.slug \in Declared(f, kind) => new(r) \in Values
  <2> SUFFICES ASSUME NEW r \in t.rows, r.slug \in Declared(f, kind)
               PROVE  new(r) \in Values
    OBVIOUS
  <2>1. \E e \in f.entities : e.kind = kind /\ e.slug = r.slug
    BY DEF Declared
  <2>2. said(r) \in f.entities
    BY <2>1
  <2> HIDE DEF said
  <2>3. said(r).value \in Values
    BY <2>2 DEF IsFile, Entity, Values
  <2>4. QED
    BY <2>3 DEF Values
<1>3. \A r \in t.rows : /\ edit(r) \in Row
                        /\ edit(r).kind = r.kind /\ edit(r).id = r.id /\ edit(r).slug = r.slug
                        /\ r.kind # kind => edit(r) = r
  <2> HIDE DEF new
  <2>1. QED
    BY <1>2 DEF GoodTransaction, Good, GoodRows, Row
<1>4. IsFiniteSet(R)
  <2> DEFINE g == [r \in t.rows |-> edit(r)]
  <2>1. g \in Surjection(t.rows, R)
    <3> HIDE DEF edit
    <3>1. QED
      BY DEF Surjection
  <2> HIDE DEF g, R
  <2>2. QED
    BY <2>1, FS_Surjection DEF GoodTransaction, Good, GoodRows
<1> HIDE DEF edit, u
<1>5. GoodRows(R)
  BY <1>3, <1>4 DEF GoodTransaction, Good, GoodRows, Unique
<1>6. GoodReferences(R, t.links, t.email)
  <2>1. \A r \in t.rows : Known(R, r.kind, r.id)
    BY <1>3 DEF Known
  <2>2. QED
    BY <2>1, ReferencesKept DEF GoodTransaction, Good
<1>7. /\ Only(t, f, kind) => Only([rows |-> R], f, kind)
      /\ OthersKept(t, [rows |-> R], kind)
      /\ Keeps(t, [rows |-> R], f)
  BY <1>3 DEF Only, OthersKept, Keeps, GoodTransaction
<1> HIDE DEF R
<1>8. /\ u \in Transactions /\ u.rows = R
      /\ u.links = t.links /\ u.email = t.email /\ u.ok = t.ok
  BY <1>1, <1>5 DEF GoodRows, GoodTransaction, Transactions
<1>9. QED
  BY <1>5, <1>6, <1>7, <1>8 DEF GoodTransaction, Good, u, Only, OthersKept, Keeps

\* A pass over a section of the file: what is there is edited, the rest created.
LEMMA Declares ==
  ASSUME NEW f, IsFile(f), NEW t, GoodTransaction(t), NEW kind \in Kinds,
         NEW u \in Declare(t, f, kind)
  PROVE  /\ GoodTransaction(u) /\ u.ok = t.ok
         /\ Reaches(u, f, kind)
         /\ Only(t, f, kind) => Only(u, f, kind)
         /\ OthersKept(t, u, kind) /\ Keeps(t, u, f)
<1> DEFINE w == EditDeclared(t, f, kind)
<1>1. /\ GoodTransaction(w) /\ w.ok = t.ok
      /\ Only(t, f, kind) => Only(w, f, kind)
      /\ OthersKept(t, w, kind) /\ Keeps(t, w, f)
  BY EditsDeclared
<1>2. u \in CreateDeclared(w, f, kind)
  BY DEF Declare
<1> HIDE DEF w
<1>3. /\ GoodTransaction(u) /\ u.ok = w.ok
      /\ w.rows \subseteq u.rows
      /\ \A r \in u.rows \ w.rows : r.kind = kind /\ r.slug \in Declared(f, kind)
      /\ \A s \in Declared(f, kind) : ~Fresh(u, kind, s)
  BY <1>1, <1>2, CreatesDeclared
<1>4. /\ Reaches(u, f, kind)
      /\ Only(t, f, kind) => Only(u, f, kind)
      /\ OthersKept(t, u, kind)
  BY <1>1, <1>3 DEF Reaches, Only, OthersKept
<1>5. Keeps(t, u, f)
  BY <1>1, <1>3 DEF Keeps
<1>6. QED
  BY <1>1, <1>3, <1>4, <1>5

\* A stage that first drops the undeclared entities of its kind.
LEMMA StageReaches ==
  ASSUME NEW f, IsFile(f), NEW t, GoodTransaction(t), NEW kind \in Kinds,
         NEW u \in Declare(DropUndeclared(t, f, kind), f, kind)
  PROVE  /\ GoodTransaction(u) /\ u.ok = t.ok
         /\ Reaches(u, f, kind) /\ Only(u, f, kind)
         /\ OthersKept(t, u, kind) /\ Keeps(t, u, f)
<1> DEFINE v == DropUndeclared(t, f, kind)
<1>1. /\ GoodTransaction(v) /\ v.ok = t.ok
      /\ Only(v, f, kind) /\ OthersKept(t, v, kind) /\ Keeps(t, v, f)
  BY DropsUndeclared
<1> HIDE DEF v
<1>2. /\ GoodTransaction(u) /\ u.ok = v.ok
      /\ Reaches(u, f, kind) /\ Only(u, f, kind)
      /\ OthersKept(v, u, kind) /\ Keeps(v, u, f)
  BY <1>1, Declares DEF v
<1>3. OthersKept(t, u, kind)
  BY <1>1, <1>2 DEF OthersKept
<1>4. Keeps(t, u, f)
  <2> SUFFICES ASSUME NEW r \in t.rows, r.slug \in Declared(f, r.kind)
               PROVE  \E k \in u.rows : k.kind = r.kind /\ k.id = r.id /\ k.slug = r.slug
    BY DEF Keeps
  <2>1. PICK k \in v.rows : k.kind = r.kind /\ k.id = r.id /\ k.slug = r.slug
    BY <1>1 DEF Keeps
  <2>2. QED
    BY <1>2, <2>1 DEF Keeps
<1>5. QED
  BY <1>1, <1>2, <1>3, <1>4

\* The five stages: what each reaches and leaves alone.
LEMMA ServicesStage ==
  ASSUME NEW f, IsFile(f), NEW t, GoodTransaction(t), NEW u \in applyConfigServices(t, f)
  PROVE  /\ GoodTransaction(u) /\ u.ok = t.ok
         /\ Reaches(u, f, "services") /\ Only(u, f, "services")
         /\ OthersKept(t, u, "services") /\ Keeps(t, u, f)
BY StageReaches DEF applyConfigServices, Kinds

\* Mail groups.
LEMMA MailGroupsStage ==
  ASSUME NEW f, IsFile(f), NEW t, GoodTransaction(t), NEW u \in applyConfigMailGroups(t, f)
  PROVE  /\ GoodTransaction(u) /\ u.ok = t.ok
         /\ Reaches(u, f, "mail-groups") /\ Only(u, f, "mail-groups")
         /\ OthersKept(t, u, "mail-groups") /\ Keeps(t, u, f)
BY StageReaches DEF applyConfigMailGroups, Kinds

\* Channels.
LEMMA ChannelsStage ==
  ASSUME NEW f, IsFile(f), NEW t, GoodTransaction(t),
         NEW u \in applyConfigNotificationChannels(t, f)
  PROVE  /\ GoodTransaction(u) /\ u.ok = t.ok
         /\ Reaches(u, f, "notification-channels") /\ Only(u, f, "notification-channels")
         /\ OthersKept(t, u, "notification-channels") /\ Keeps(t, u, f)
BY StageReaches DEF applyConfigNotificationChannels, Kinds

\* Monitors, of which the last stage drops the others.
LEMMA MonitorsStage ==
  ASSUME NEW f, IsFile(f), NEW t, GoodTransaction(t), NEW u \in applyConfigMonitors(t, f)
  PROVE  /\ GoodTransaction(u) /\ u.ok = t.ok
         /\ Reaches(u, f, "monitors")
         /\ OthersKept(t, u, "monitors") /\ Keeps(t, u, f)
BY Declares DEF applyConfigMonitors, Kinds

\* The row of a slug, and the slug of its id.
LEMMA RowOfSlug ==
  ASSUME NEW t, GoodRows(t.rows), NEW kind, NEW slug, ~Fresh(t, kind, slug)
  PROVE  /\ IdOf(t, kind, slug) \in Nat \ {0}
         /\ Known(t.rows, kind, IdOf(t, kind, slug))
         /\ \A r \in t.rows : r.kind = kind => (r.id = IdOf(t, kind, slug) <=> r.slug = slug)
         /\ SlugOf(t, kind, IdOf(t, kind, slug)) = slug
<1> DEFINE row == CHOOSE r \in Named(t, kind, slug) : TRUE
           id  == IdOf(t, kind, slug)
<1>1. row \in Named(t, kind, slug)
  BY DEF Fresh
<1>2. id = row.id
  BY DEF IdOf
<1> HIDE DEF row, id
<1>3. row \in t.rows /\ row \in Row /\ row.kind = kind /\ row.slug = slug
  BY <1>1 DEF Named, GoodRows
<1>4. id \in Nat \ {0}
  BY <1>2, <1>3 DEF Row
<1>5. \A r \in t.rows : r.kind = kind => (r.id = id <=> r.slug = slug)
  BY <1>2, <1>3 DEF GoodRows, Unique
<1>6. SlugOf(t, kind, id) = slug
  <2> DEFINE found == CHOOSE r \in t.rows : r.kind = kind /\ r.id = id
  <2>1. found \in t.rows /\ found.kind = kind /\ found.id = id
    BY <1>2, <1>3
  <2>2. SlugOf(t, kind, id) = found.slug
    BY DEF SlugOf
  <2> HIDE DEF found
  <2>3. QED
    BY <1>5, <2>1, <2>2
<1>7. Known(t.rows, kind, id)
  BY <1>2, <1>3 DEF Known
<1>8. QED
  BY <1>4, <1>5, <1>6, <1>7 DEF id

\* The last stage, once every declared monitor exists: links and the alert
\* channel are those of the file when there is no message.
LEMMA ReferencesStage ==
  ASSUME NEW f, IsFile(f), NEW t, GoodTransaction(t), Reaches(t, f, "monitors"),
         NEW u \in applyConfigReferences(t, f)
  PROVE  /\ GoodTransaction(u)
         /\ Only(u, f, "monitors") /\ Reaches(u, f, "monitors")
         /\ OthersKept(t, u, "monitors") /\ Keeps(t, u, f)
         /\ u.ok => /\ t.ok
                    /\ \A l \in f.links : ~Fresh(u, l.kind, l.slug)
                    /\ u.links = {[monitor |-> IdOf(u, "monitors", l.monitor), kind |-> l.kind,
                                   id |-> IdOf(u, l.kind, l.slug)] : l \in f.links}
                    /\ u.email = IF f.email = "none" THEN 0
                                 ELSE IdOf(u, "notification-channels", f.email)
                    /\ f.email # "none" => ~Fresh(u, "notification-channels", f.email)
<1> DEFINE kept       == DropUndeclared(t, f, "monitors")
           skipped    == {l.monitor : l \in {x \in f.links : Fresh(kept, x.kind, x.slug)}}
           updated    == {IdOf(kept, "monitors", m) : m \in Declared(f, "monitors") \ skipped}
           noChannel  == Fresh(kept, "notification-channels", f.email)
           link(l)    == [monitor |-> IdOf(kept, "monitors", l.monitor), kind |-> l.kind,
                          id |-> IdOf(kept, l.kind, l.slug)]
           old == {l \in kept.links : l.monitor \notin updated}
           set == {link(l) : l \in {x \in f.links : x.monitor \notin skipped}}
           L == old \cup set
           m == IF noChannel THEN 0 ELSE IdOf(kept, "notification-channels", f.email)
           fine == kept.ok /\ skipped = {} /\ ~(f.email # "none" /\ noChannel)
<1>1. u = [kept EXCEPT !.links = L, !.email = m, !.ok = fine]
  BY DEF applyConfigReferences
<1>2. /\ GoodTransaction(kept) /\ kept.ok = t.ok
      /\ Only(kept, f, "monitors") /\ OthersKept(t, kept, "monitors") /\ Keeps(t, kept, f)
      /\ kept.rows \subseteq t.rows
  BY DropsUndeclared
<1>3. Reaches(kept, f, "monitors")
  <2> SUFFICES ASSUME NEW s \in Declared(f, "monitors") PROVE ~Fresh(kept, "monitors", s)
    BY DEF Reaches
  <2>1. PICK r \in t.rows : r.kind = "monitors" /\ r.slug = s
    BY DEF Reaches, Fresh, Named
  <2>2. \E k \in kept.rows : k.kind = r.kind /\ k.slug = r.slug
    BY <1>2, <2>1 DEF Keeps
  <2>3. QED
    BY <2>1, <2>2 DEF Fresh, Named
<1> HIDE DEF kept
<1>4. GoodRows(kept.rows) /\ GoodReferences(kept.rows, kept.links, kept.email)
  BY <1>2 DEF GoodTransaction, Good
<1>5. \A l \in f.links : ~Fresh(kept, "monitors", l.monitor) /\ l.kind \in Targets
  BY <1>3 DEF Reaches, IsFile, Declared
<1>6. \A l \in f.links : l.monitor \notin skipped => ~Fresh(kept, l.kind, l.slug)
  OBVIOUS
<1>7. \A l \in f.links : l.monitor \notin skipped =>
        /\ link(l) \in Link
        /\ Known(kept.rows, "monitors", link(l).monitor) /\ Known(kept.rows, l.kind, link(l).id)
        /\ link(l).kind = l.kind
  <2> SUFFICES ASSUME NEW l \in f.links, l.monitor \notin skipped
               PROVE  /\ link(l) \in Link
                      /\ Known(kept.rows, "monitors", link(l).monitor)
                      /\ Known(kept.rows, l.kind, link(l).id)
                      /\ link(l).kind = l.kind
    OBVIOUS
  <2>1. /\ IdOf(kept, "monitors", l.monitor) \in Nat
        /\ Known(kept.rows, "monitors", IdOf(kept, "monitors", l.monitor))
    BY <1>4, <1>5, RowOfSlug
  <2>2. /\ IdOf(kept, l.kind, l.slug) \in Nat
        /\ Known(kept.rows, l.kind, IdOf(kept, l.kind, l.slug))
    <3>1. ~Fresh(kept, l.kind, l.slug)
      BY <1>6
    <3>2. QED
      BY <1>4, <3>1, RowOfSlug
  <2>3. QED
    BY <1>5, <2>1, <2>2 DEF Link
<1>8. \A l \in set : /\ l \in Link
                     /\ Known(kept.rows, "monitors", l.monitor) /\ Known(kept.rows, l.kind, l.id)
  <2> HIDE DEF link
  <2>1. QED
    BY <1>7
<1>9. L \in SUBSET Link /\ \A l \in L : /\ Known(kept.rows, "monitors", l.monitor)
                                        /\ Known(kept.rows, l.kind, l.id)
  <2> HIDE DEF set
  <2>1. QED
    BY <1>2, <1>4, <1>8 DEF GoodTransaction, Transactions, GoodReferences
<1>10. m \in Nat /\ (m = 0 \/ Known(kept.rows, "notification-channels", m))
  BY <1>4, RowOfSlug
<1>11. fine \in BOOLEAN
  BY <1>2 DEF GoodTransaction, Transactions
<1>12. fine => /\ t.ok /\ skipped = {} /\ (f.email # "none" => ~noChannel)
  BY <1>2
<1> HIDE DEF L, m, fine
<1>13. /\ u \in Transactions /\ u.rows = kept.rows /\ u.links = L /\ u.email = m /\ u.ok = fine
  BY <1>1, <1>2, <1>9, <1>10, <1>11 DEF GoodTransaction, Transactions
<1>14. GoodTransaction(u)
  BY <1>4, <1>9, <1>10, <1>13 DEF GoodTransaction, Good, GoodReferences
<1>15. \A kind, s : IdOf(u, kind, s) = IdOf(kept, kind, s) /\ (Fresh(u, kind, s) <=> Fresh(kept, kind, s))
  BY <1>13 DEF IdOf, Fresh, Named
<1>16. ASSUME u.ok
       PROVE  /\ \A l \in f.links : ~Fresh(u, l.kind, l.slug)
              /\ u.links = {[monitor |-> IdOf(u, "monitors", l.monitor), kind |-> l.kind,
                             id |-> IdOf(u, l.kind, l.slug)] : l \in f.links}
              /\ u.email = IF f.email = "none" THEN 0
                           ELSE IdOf(u, "notification-channels", f.email)
              /\ f.email # "none" => ~Fresh(u, "notification-channels", f.email)
  <2>1. skipped = {} /\ (f.email # "none" => ~noChannel)
    BY <1>12, <1>13, <1>16
  <2>2. \A l \in f.links : ~Fresh(kept, l.kind, l.slug)
    BY <1>6, <2>1
  <2>3. old = {}
    <3> SUFFICES ASSUME NEW l \in kept.links PROVE l.monitor \in updated
      OBVIOUS
    <3>1. PICK r \in kept.rows : r.kind = "monitors" /\ r.id = l.monitor
      BY <1>4 DEF GoodReferences, Known
    <3>2. r.slug \in Declared(f, "monitors")
      BY <1>2, <3>1 DEF Only
    <3>3. ~Fresh(kept, "monitors", r.slug)
      BY <3>1 DEF Fresh, Named
    <3>4. IdOf(kept, "monitors", r.slug) = r.id
      BY <1>4, <3>1, <3>3, RowOfSlug
    <3>5. QED
      BY <2>1, <3>1, <3>2, <3>4
  <2>4. L = {link(l) : l \in f.links}
    BY <2>1, <2>3 DEF L
  <2>5. f.email = "none" => noChannel
    BY <1>4, SlugAssumption DEF GoodRows, Row, Fresh, Named
  <2>6. m = IF f.email = "none" THEN 0 ELSE IdOf(kept, "notification-channels", f.email)
    BY <2>1, <2>5 DEF m
  <2>7. QED
    BY <1>13, <1>15, <2>1, <2>2, <2>4, <2>6
<1>17. /\ Only(u, f, "monitors") /\ Reaches(u, f, "monitors")
       /\ OthersKept(t, u, "monitors") /\ Keeps(t, u, f)
  BY <1>2, <1>3, <1>13 DEF Only, Reaches, OthersKept, Keeps, Fresh, Named
<1>18. QED
  BY <1>12, <1>13, <1>14, <1>16, <1>17

-----------------------------------------------------------------------------
(* The whole transaction *)

\* A transaction begins with good tables.
LEMMA StartIsGood ==
  ASSUME NEW f, IsFile(f), NEW t, GoodTables(t)
  PROVE  /\ GoodTransaction(Start(t, f)) /\ Start(t, f).rows = t.rows
         /\ Start(t, f).ok => ~f.malformed
BY DEF Start, GoodTables, GoodTransaction, Good, Tables, Transactions, IsFile

\* A stage leaves what the stages before it reached.
LEMMA StageKept ==
  ASSUME NEW f, NEW t, NEW u, NEW kind, NEW other, other # kind, OthersKept(t, u, kind)
  PROVE  /\ Only(t, f, other) => Only(u, f, other)
         /\ Reaches(t, f, other) => Reaches(u, f, other)
BY DEF OthersKept, Only, Reaches, Fresh, Named

\* Ids that two stages in turn keep are kept.
LEMMA KeepsTwice ==
  ASSUME NEW f, NEW t, NEW u, NEW v, Keeps(t, u, f), Keeps(u, v, f)
  PROVE  Keeps(t, v, f)
BY DEF Keeps

\* What a transaction ends in without messages: the tables hold the slugs the
\* file declares, the links and the alert channel it names, and the rows that
\* the renames left under a declared slug.
InForce(o, f) ==
  /\ \A kind \in Kinds : Only(o, f, kind) /\ Reaches(o, f, kind)
  /\ \A l \in f.links : ~Fresh(o, l.kind, l.slug)
  /\ o.links = {[monitor |-> IdOf(o, "monitors", l.monitor), kind |-> l.kind,
                 id |-> IdOf(o, l.kind, l.slug)] : l \in f.links}
  /\ o.email = IF f.email = "none" THEN 0 ELSE IdOf(o, "notification-channels", f.email)
  /\ f.email # "none" => ~Fresh(o, "notification-channels", f.email)

\* applyConfig ends in good tables, and in force when it ends without a message.
LEMMA Applied ==
  ASSUME NEW f, IsFile(f), NEW t, GoodTables(t), NEW o \in applyConfig(t, f)
  PROVE  /\ GoodTransaction(o)
         /\ o.ok => /\ InForce(o, f)
                    /\ \E u \in Renamed(Start(t, f), f) : u.ok /\ Keeps(u, o, f)
<1>1. /\ GoodTransaction(Start(t, f)) /\ Start(t, f).rows = t.rows
      /\ Start(t, f).ok => ~f.malformed
  BY StartIsGood
<1>2. CASE f.malformed
  BY <1>1, <1>2 DEF applyConfig
<1>3. CASE ~f.malformed
  <2>1. PICK r6 \in UNION {applyConfigMailGroups(x, f) : x \in
                    UNION {applyConfigNotificationChannels(x, f) : x \in
                    UNION {applyConfigMonitors(x, f) : x \in
                    UNION {applyConfigServices(x, f) : x \in Renamed(Start(t, f), f)}}}} :
          o \in applyConfigReferences(r6, f)
    BY <1>3 DEF applyConfig, Stage
  <2>2. PICK r5 \in UNION {applyConfigNotificationChannels(x, f) : x \in
                    UNION {applyConfigMonitors(x, f) : x \in
                    UNION {applyConfigServices(x, f) : x \in Renamed(Start(t, f), f)}}} :
          r6 \in applyConfigMailGroups(r5, f)
    OBVIOUS
  <2>3. PICK r4 \in UNION {applyConfigMonitors(x, f) : x \in
                    UNION {applyConfigServices(x, f) : x \in Renamed(Start(t, f), f)}} :
          r5 \in applyConfigNotificationChannels(r4, f)
    OBVIOUS
  <2>4. PICK r3 \in UNION {applyConfigServices(x, f) : x \in Renamed(Start(t, f), f)} :
          r4 \in applyConfigMonitors(r3, f)
    OBVIOUS
  <2>5. PICK r2 \in Renamed(Start(t, f), f) : r3 \in applyConfigServices(r2, f)
    OBVIOUS
  <2>6. GoodTransaction(r2)
    BY <1>1, RenamesAreGood
  <2>7. /\ GoodTransaction(r3) /\ r3.ok = r2.ok
        /\ Reaches(r3, f, "services") /\ Only(r3, f, "services")
        /\ OthersKept(r2, r3, "services") /\ Keeps(r2, r3, f)
    BY <2>5, <2>6, ServicesStage
  <2>8. /\ GoodTransaction(r4) /\ r4.ok = r3.ok
        /\ Reaches(r4, f, "monitors")
        /\ OthersKept(r3, r4, "monitors") /\ Keeps(r3, r4, f)
    BY <2>4, <2>7, MonitorsStage
  <2>9. /\ GoodTransaction(r5) /\ r5.ok = r4.ok
        /\ Reaches(r5, f, "notification-channels") /\ Only(r5, f, "notification-channels")
        /\ OthersKept(r4, r5, "notification-channels") /\ Keeps(r4, r5, f)
    BY <2>3, <2>8, ChannelsStage
  <2>10. /\ GoodTransaction(r6) /\ r6.ok = r5.ok
         /\ Reaches(r6, f, "mail-groups") /\ Only(r6, f, "mail-groups")
         /\ OthersKept(r5, r6, "mail-groups") /\ Keeps(r5, r6, f)
    BY <2>2, <2>9, MailGroupsStage
  <2>11. Reaches(r6, f, "monitors")
    BY <2>8, <2>9, <2>10, StageKept
  <2>12. /\ GoodTransaction(o)
         /\ Only(o, f, "monitors") /\ Reaches(o, f, "monitors")
         /\ OthersKept(r6, o, "monitors") /\ Keeps(r6, o, f)
         /\ o.ok => /\ r6.ok
                    /\ \A l \in f.links : ~Fresh(o, l.kind, l.slug)
                    /\ o.links = {[monitor |-> IdOf(o, "monitors", l.monitor), kind |-> l.kind,
                                   id |-> IdOf(o, l.kind, l.slug)] : l \in f.links}
                    /\ o.email = IF f.email = "none" THEN 0
                                 ELSE IdOf(o, "notification-channels", f.email)
                    /\ f.email # "none" => ~Fresh(o, "notification-channels", f.email)
    BY <2>1, <2>10, <2>11, ReferencesStage
  <2>13. Only(o, f, "services") /\ Reaches(o, f, "services")
    <3>1. Only(r4, f, "services") /\ Reaches(r4, f, "services")
      BY <2>7, <2>8, StageKept
    <3>2. Only(r5, f, "services") /\ Reaches(r5, f, "services")
      BY <3>1, <2>9, StageKept
    <3>3. Only(r6, f, "services") /\ Reaches(r6, f, "services")
      BY <3>2, <2>10, StageKept
    <3>4. QED
      BY <3>3, <2>12, StageKept
  <2>14. Only(o, f, "notification-channels") /\ Reaches(o, f, "notification-channels")
    <3>1. Only(r6, f, "notification-channels") /\ Reaches(r6, f, "notification-channels")
      BY <2>9, <2>10, StageKept
    <3>2. QED
      BY <3>1, <2>12, StageKept
  <2>15. Only(o, f, "mail-groups") /\ Reaches(o, f, "mail-groups")
    BY <2>10, <2>12, StageKept
  <2>16. Keeps(r2, o, f)
    BY <2>7, <2>8, <2>9, <2>10, <2>12, KeepsTwice
  <2>17. o.ok => InForce(o, f)
    BY <2>12, <2>13, <2>14, <2>15 DEF InForce, Kinds
  <2>18. o.ok => r2.ok
    BY <2>7, <2>8, <2>9, <2>10, <2>12
  <2>19. QED
    BY <2>5, <2>12, <2>16, <2>17, <2>18
<1>4. QED
  BY <1>2, <1>3

-----------------------------------------------------------------------------
(* The tables in good order *)

\* A form's new row.
LEMMA InsertIsGood ==
  ASSUME NEW t, GoodTables(t), NEW kind \in Kinds, NEW slug \in Slugs, NEW type \in Types,
         NEW value \in Values, Fresh(t, kind, slug)
  PROVE  LET u   == Insert(t, kind, slug, type, value)
         IN  /\ GoodTables(u)
             /\ Known(u.rows, kind, NextId(t, kind))
             /\ t.rows \subseteq u.rows
<1> DEFINE u   == Insert(t, kind, slug, type, value)
           row == [kind |-> kind, id |-> NextId(t, kind), slug |-> slug,
                   type |-> type, value |-> value]
           R   == t.rows \cup {row}
<1>1. GoodRows(R)
  BY InsertRows DEF GoodTables, Good
<1>2. Known(R, kind, NextId(t, kind)) /\ t.rows \subseteq R
  <2>1. row.kind = kind /\ row.id = NextId(t, kind)
    OBVIOUS
  <2> HIDE DEF row
  <2>2. QED
    BY <2>1 DEF Known
<1>3. GoodReferences(R, t.links, t.email)
  <2>1. \A r \in t.rows : Known(R, r.kind, r.id)
    BY DEF Known
  <2>2. QED
    BY <2>1, ReferencesKept DEF GoodTables, Good
<1>4. u = [t EXCEPT !.rows = R]
  BY DEF Insert, GoodTables, Tables
<1> HIDE DEF u, R
<1>5. u \in Tables /\ u.rows = R /\ u.links = t.links /\ u.email = t.email
  BY <1>1, <1>4 DEF GoodRows, GoodTables, Tables
<1>6. QED
  BY <1>1, <1>2, <1>3, <1>5 DEF GoodTables, Good, u

\* A form's new links.
LEMMA RelinkIsGood ==
  ASSUME NEW t, GoodTables(t), NEW monitor, NEW links \in SUBSET Link,
         \A l \in links : Known(t.rows, "monitors", l.monitor) /\ Known(t.rows, l.kind, l.id)
  PROVE  GoodTables(Relink(t, monitor, links))
<1> DEFINE L == {l \in t.links : l.monitor # monitor} \cup links
           u == Relink(t, monitor, links)
<1>1. u = [t EXCEPT !.links = L]
  BY DEF Relink, GoodTables, Tables
<1>2. L \in SUBSET Link /\ GoodReferences(t.rows, L, t.email)
  BY DEF GoodTables, Good, GoodReferences, Tables
<1> HIDE DEF L, u
<1>3. u \in Tables /\ u.rows = t.rows /\ u.links = L /\ u.email = t.email
  BY <1>1, <1>2 DEF GoodTables, Tables
<1>4. QED
  BY <1>2, <1>3 DEF GoodTables, Good, u

\* What an accepted file leaves, and the transaction that left it.
LEMMA AcceptedIsGood ==
  ASSUME NEW f, IsFile(f), NEW t, GoodTables(t), NEW u \in Accepted(t, f)
  PROVE  \E o \in applyConfig(t, f) :
           /\ o.ok /\ GoodTransaction(o) /\ GoodTables(u)
           /\ u.rows = o.rows /\ u.links = o.links /\ u.email = o.email
<1>1. PICK o \in applyConfig(t, f) : o.ok /\ u = TablesOf(o)
  BY DEF Accepted
<1>2. GoodTransaction(o)
  BY Applied
<1>3. u.rows = o.rows /\ u.links = o.links /\ u.email = o.email /\ u \in Tables
  BY <1>1, <1>2 DEF TablesOf, GoodTransaction, Transactions, Tables
<1>4. QED
  BY <1>1, <1>2, <1>3 DEF GoodTables, GoodTransaction, Good

\* What a monitor's form names is there.
LEMMA FormLinks ==
  ASSUME GoodTables(tables), NEW monitor \in Nat, NEW rows, tables.rows \subseteq rows,
         Known(rows, "monitors", monitor), NEW links \in LinkSets(monitor)
  PROVE  /\ links \in SUBSET Link
         /\ \A l \in links : Known(rows, "monitors", l.monitor) /\ Known(rows, l.kind, l.id)
<1>1. ASSUME NEW l \in links
      PROVE  /\ l \in Link /\ l.monitor = monitor
             /\ \E r \in tables.rows : r.kind = l.kind /\ r.id = l.id
  <2>1. PICK r \in tables.rows : /\ r.kind \in Targets
                                /\ l = [monitor |-> monitor, kind |-> r.kind, id |-> r.id]
    BY DEF LinkSets
  <2>2. QED
    BY <2>1 DEF Link, GoodTables, Good, GoodRows, Row
<1>2. QED
  BY <1>1 DEF Known

\* A form's new value: no id and no slug changes.
LEMMA WriteIsGood ==
  ASSUME NEW t, GoodTables(t), NEW row \in t.rows, NEW value \in Values
  PROVE  LET u == Write(t, row, value)
         IN  /\ GoodTables(u)
             /\ \A r \in t.rows : Known(u.rows, r.kind, r.id)
             /\ \A r \in u.rows : Known(t.rows, r.kind, r.id)
<1> DEFINE new == [row EXCEPT !.value = value]
           R   == (t.rows \ {row}) \cup {new}
           u   == Write(t, row, value)
<1>1. new \in Row /\ new.kind = row.kind /\ new.id = row.id /\ new.slug = row.slug
  BY DEF GoodTables, Good, GoodRows, Row
<1>2. u = [t EXCEPT !.rows = R]
  BY DEF Write, GoodTables, Tables
<1> HIDE DEF new, u
<1>3. IsFiniteSet(R)
  <2>1. IsFiniteSet(t.rows \ {row})
    BY FS_RemoveElement DEF GoodTables, Good, GoodRows
  <2>2. QED
    BY <2>1, FS_AddElement
<1>4. GoodRows(R)
  BY <1>1, <1>3 DEF GoodTables, Good, GoodRows, Unique
<1>5. /\ \A r \in t.rows : Known(R, r.kind, r.id)
      /\ \A r \in R : Known(t.rows, r.kind, r.id)
  BY <1>1 DEF Known
<1>6. GoodReferences(R, t.links, t.email)
  BY <1>5, ReferencesKept DEF GoodTables, Good
<1> HIDE DEF R
<1>7. u \in Tables /\ u.rows = R /\ u.links = t.links /\ u.email = t.email
  BY <1>2, <1>4 DEF GoodRows, GoodTables, Tables
<1>8. QED
  BY <1>4, <1>5, <1>6, <1>7 DEF GoodTables, Good, u

\* The inductive invariant.
IInv == TypeOK /\ IsFiniteSet(tables.rows)

\* IInv is inductive: every form and every accepted file keeps it.
LEMMA Inductive == Spec => []IInv
<1> USE TypeIsGood
<1>1. Init => IInv
  BY FS_EmptySet DEF Init, IInv, GoodTables, Good, GoodRows, Unique, GoodReferences, Tables
<1>2. IInv /\ [Next]_tables => IInv'
  <2> SUFFICES ASSUME GoodTables(tables), [Next]_tables PROVE GoodTables(tables')
    <3>1. IInv' <=> GoodTables(tables')
      BY DEF IInv, TypeOK, GoodTables, Good, GoodRows, GoodReferences, Unique, Known, Tables
    <3>2. QED
      BY <3>1 DEF IInv
  <2>1. CASE CreateEntity
    <3>1. PICK kind \in FormKinds \ {"monitors"}, slug \in FormSlugs :
            /\ Fresh(tables, kind, slug)
            /\ \E type \in (IF kind = "notification-channels" THEN {"smtp", "slack"}
                            ELSE {"none"}),
                 value \in FormValues(kind) : tables' = Insert(tables, kind, slug, type, value)
      BY <2>1 DEF CreateEntity
    <3>2. PICK type \in {"smtp", "slack", "none"}, value \in FormValues(kind) :
            tables' = Insert(tables, kind, slug, type, value)
      BY <3>1
    <3>3. type \in Types /\ value \in Values
      BY DEF FormValues, Values, Types
    <3>4. QED
      BY <3>1, <3>2, <3>3, FormsAssumption, InsertIsGood
  <2>2. CASE CreateMonitor
    <3> DEFINE id == NextId(tables, "monitors")
    <3>1. PICK slug \in FormSlugs, links \in LinkSets(id), value \in FormValues("monitors") :
            /\ Fresh(tables, "monitors", slug)
            /\ tables' = Relink(Insert(tables, "monitors", slug, "none", value), id, links)
      BY <2>2 DEF CreateMonitor
    <3> DEFINE u == Insert(tables, "monitors", slug, "none", value)
    <3>0. value \in Values
      BY DEF FormValues
    <3>2. /\ GoodTables(u)
          /\ Known(u.rows, "monitors", id)
          /\ tables.rows \subseteq u.rows
      BY <3>0, <3>1, FormsAssumption, InsertIsGood DEF Kinds, Types
    <3>3. id \in Nat
      BY NextIdIsNew DEF GoodTables, Good
    <3> HIDE DEF u, id
    <3>4. links \in SUBSET Link /\ \A l \in links : /\ Known(u.rows, "monitors", l.monitor)
                                                   /\ Known(u.rows, l.kind, l.id)
      BY <3>1, <3>2, <3>3, FormLinks
    <3>5. QED
      BY <3>1, <3>2, <3>4, RelinkIsGood DEF u
  <2>3. CASE EditMonitor
    <3>1. PICK m \in tables.rows :
            /\ m.kind = "monitors"
            /\ \E links \in LinkSets(m.id), value \in FormValues("monitors") :
                 tables' = Relink(Write(tables, m, value), m.id, links)
      BY <2>3 DEF EditMonitor
    <3>2. PICK links \in LinkSets(m.id), value \in FormValues("monitors") :
            tables' = Relink(Write(tables, m, value), m.id, links)
      BY <3>1
    <3> DEFINE u == Write(tables, m, value)
    <3>3. value \in Values
      BY DEF FormValues
    <3>4. GoodTables(u) /\ \A r \in tables.rows : Known(u.rows, r.kind, r.id)
      BY <3>3, WriteIsGood
    <3>5. m.id \in Nat /\ Known(tables.rows, "monitors", m.id)
      BY <3>1 DEF GoodTables, Good, GoodRows, Row, Known
    <3>6. links \in SUBSET Link /\ \A l \in links : /\ Known(tables.rows, "monitors", l.monitor)
                                                   /\ Known(tables.rows, l.kind, l.id)
      BY <3>5, FormLinks
    <3> HIDE DEF u
    <3>7. \A l \in links : Known(u.rows, "monitors", l.monitor) /\ Known(u.rows, l.kind, l.id)
      BY <3>4, <3>6 DEF Known
    <3>8. QED
      BY <3>2, <3>4, <3>6, <3>7, RelinkIsGood DEF u
  <2>4. CASE EditEntity
    <3>1. PICK row \in tables.rows :
            \E value \in FormValues(row.kind) : tables' = Write(tables, row, value)
      BY <2>4 DEF EditEntity
    <3>2. PICK value \in FormValues(row.kind) : tables' = Write(tables, row, value)
      BY <3>1
    <3>3. value \in Values
      BY DEF FormValues, Values
    <3>4. QED
      BY <3>2, <3>3, WriteIsGood
  <2>5. CASE DeleteEntity
    <3>1. PICK row \in tables.rows : tables' = Delete(tables, {row})
      BY <2>5 DEF DeleteEntity
    <3>2. {row} \in SUBSET tables.rows
      OBVIOUS
    <3>3. QED
      BY <3>1, <3>2, DeleteFrom DEF GoodTables
  <2>6. CASE ChooseAlertChannel
    <3>1. PICK id \in {0} \cup {c.id : c \in {x \in tables.rows : /\ x.kind = "notification-channels"
                                                              /\ x.type = "smtp"}} :
            tables' = [tables EXCEPT !.email = id]
      BY <2>6 DEF ChooseAlertChannel
    <3>2. id \in Nat /\ (id = 0 \/ Known(tables.rows, "notification-channels", id))
      BY <3>1 DEF GoodTables, Good, GoodRows, Row, Known
    <3>3. tables' \in Tables /\ tables'.rows = tables.rows
          /\ tables'.links = tables.links /\ tables'.email = id
      BY <3>1, <3>2 DEF GoodTables, Tables
    <3>4. QED
      BY <3>2, <3>3 DEF GoodTables, Good, GoodReferences
  <2>7. ASSUME NEW f \in Files, ApplyFile(f)
        PROVE  GoodTables(tables')
    <3>1. tables' \in Accepted(tables, Text[f]) /\ IsFile(Text[f])
      BY <2>7, FilesAssumption DEF ApplyFile
    <3>2. QED
      BY <3>1, AcceptedIsGood
  <2>8. CASE UNCHANGED tables
    BY <2>8
  <2>9. QED
    BY <2>1, <2>2, <2>3, <2>4, <2>5, <2>6, <2>7, <2>8 DEF Next
<1>3. QED
  BY <1>1, <1>2, PTL DEF Spec

\* Rows are typed, ids and slugs unique, and links and the alert channel name
\* what there is, after every form and every accepted file.
THEOREM TypeCorrect == Spec => []TypeOK
<1>1. IInv => TypeOK
  BY DEF IInv
<1>2. QED
  BY <1>1, Inductive, PTL

-----------------------------------------------------------------------------
(* An accepted file is in force *)

\* What is in force is what the file generated from the tables says.
LEMMA InForceMatches ==
  ASSUME NEW f, IsFile(f), NEW t, GoodTables(t), InForce(t, f)
  PROVE  Matches(t, f)
<1>1. GoodRows(t.rows)
  BY DEF GoodTables, Good
<1> DEFINE g == generateConfig(t)
<1>2. Untyped(g.entities) = Untyped(f.entities)
  <2> DEFINE here == {[kind |-> r.kind, slug |-> r.slug] : r \in t.rows}
             said == {[kind |-> e.kind, slug |-> e.slug] : e \in f.entities}
  <2>1. Untyped(g.entities) = here /\ Untyped(f.entities) = said
    <3> DEFINE full(r) == [kind |-> r.kind, slug |-> r.slug, type |-> r.type,
                           value |-> IF r.value = "repeated" THEN "plain" ELSE r.value]
    <3>1. g.entities = {full(r) : r \in t.rows}
      BY DEF generateConfig, FileOf
    <3>2. \A r : full(r).kind = r.kind /\ full(r).slug = r.slug
      OBVIOUS
    <3> HIDE DEF full, g
    <3>3. QED
      BY <3>1, <3>2 DEF Untyped
  <2>2. ASSUME NEW r \in t.rows PROVE [kind |-> r.kind, slug |-> r.slug] \in said
    <3>1. r.kind \in Kinds
      BY <1>1 DEF GoodRows, Row
    <3>2. r.slug \in Declared(f, r.kind)
      BY <3>1 DEF InForce, Only
    <3>3. QED
      BY <3>2 DEF Declared
  <2>3. ASSUME NEW e \in f.entities PROVE [kind |-> e.kind, slug |-> e.slug] \in here
    <3>1. e.kind \in Kinds
      BY DEF IsFile, Entity
    <3>2. e.slug \in Declared(f, e.kind)
      BY DEF Declared
    <3>3. ~Fresh(t, e.kind, e.slug)
      BY <3>1, <3>2 DEF InForce, Reaches
    <3>4. PICK r \in t.rows : r.kind = e.kind /\ r.slug = e.slug
      BY <3>3 DEF Fresh, Named
    <3>5. QED
      BY <3>4
  <2>4. here = said
    BY <2>2, <2>3
  <2>5. QED
    BY <2>1, <2>4
<1>3. g.links = f.links
  <2> DEFINE link(l) == [monitor |-> IdOf(t, "monitors", l.monitor), kind |-> l.kind,
                         id |-> IdOf(t, l.kind, l.slug)]
             said(l) == [monitor |-> SlugOf(t, "monitors", l.monitor), kind |-> l.kind,
                         slug |-> SlugOf(t, l.kind, l.id)]
  <2>1. g.links = {said(l) : l \in t.links}
    BY DEF generateConfig, FileOf
  <2>2. t.links = {link(l) : l \in f.links}
    BY DEF InForce
  <2>3. ASSUME NEW l \in f.links PROVE said(link(l)) = l
    <3>1. l \in [monitor : Slugs, kind : Targets, slug : Slugs]
      BY DEF IsFile
    <3>2. ~Fresh(t, l.kind, l.slug)
      BY DEF InForce
    <3>3. ~Fresh(t, "monitors", l.monitor)
      <4>1. l.monitor \in Declared(f, "monitors")
        BY DEF IsFile, Declared
      <4>2. "monitors" \in Kinds
        BY DEF Kinds
      <4>3. QED
        BY <4>1, <4>2 DEF InForce, Reaches
    <3>4. SlugOf(t, "monitors", IdOf(t, "monitors", l.monitor)) = l.monitor
      BY <1>1, <3>3, RowOfSlug
    <3>5. SlugOf(t, l.kind, IdOf(t, l.kind, l.slug)) = l.slug
      BY <1>1, <3>2, RowOfSlug
    <3>6. QED
      BY <3>1, <3>4, <3>5
  <2> HIDE DEF link, said
  <2>4. QED
    BY <2>1, <2>2, <2>3
<1>4. g.email = f.email
  <2>1. g.email = IF t.email = 0 THEN "none" ELSE SlugOf(t, "notification-channels", t.email)
    BY DEF generateConfig, FileOf
  <2>2. CASE f.email = "none"
    BY <2>1, <2>2 DEF InForce
  <2>3. CASE f.email # "none"
    <3>1. ~Fresh(t, "notification-channels", f.email)
      BY <2>3 DEF InForce
    <3>2. /\ IdOf(t, "notification-channels", f.email) # 0
          /\ SlugOf(t, "notification-channels", IdOf(t, "notification-channels", f.email)) = f.email
      BY <1>1, <3>1, RowOfSlug
    <3>3. QED
      BY <2>1, <2>3, <3>2 DEF InForce
  <2>4. QED
    BY <2>2, <2>3
<1>5. QED
  BY <1>2, <1>3, <1>4 DEF Matches

\* postConfig and the webhook: a file accepted in any state, in any order of its
\* maps, leaves the tables as it declares them, links and alert channel included.
THEOREM AcceptedStaysInForce == Spec => []AcceptedIsInForce
<1>1. IInv => AcceptedIsInForce
  <2> SUFFICES ASSUME GoodTables(tables), NEW f \in Files, NEW t \in Accepted(tables, Text[f])
               PROVE  Matches(t, Text[f])
    BY TypeIsGood DEF IInv, AcceptedIsInForce
  <2>1. IsFile(Text[f])
    BY FilesAssumption
  <2>2. PICK o \in applyConfig(tables, Text[f]) :
          /\ o.ok /\ GoodTransaction(o) /\ GoodTables(t)
          /\ t.rows = o.rows /\ t.links = o.links /\ t.email = o.email
    BY <2>1, AcceptedIsGood
  <2>3. InForce(o, Text[f])
    BY <2>1, <2>2, Applied
  <2>4. InForce(t, Text[f])
    <3>1. \A kind, s : IdOf(t, kind, s) = IdOf(o, kind, s) /\ (Fresh(t, kind, s) <=> Fresh(o, kind, s))
      BY <2>2 DEF IdOf, Fresh, Named
    <3>2. \A kind \in Kinds : Only(t, Text[f], kind) /\ Reaches(t, Text[f], kind)
      BY <2>2, <2>3, <3>1 DEF InForce, Only, Reaches
    <3>3. {[monitor |-> IdOf(t, "monitors", l.monitor), kind |-> l.kind,
            id |-> IdOf(t, l.kind, l.slug)] : l \in Text[f].links}
          = {[monitor |-> IdOf(o, "monitors", l.monitor), kind |-> l.kind,
              id |-> IdOf(o, l.kind, l.slug)] : l \in Text[f].links}
      BY <3>1
    <3>4. QED
      BY <2>2, <2>3, <3>1, <3>2, <3>3 DEF InForce
  <2>5. QED
    BY <2>1, <2>2, <2>4, InForceMatches
<1>2. QED
  BY <1>1, Inductive, PTL

\* A row that the file renames, or leaves under a declared slug, keeps its id,
\* and what hangs on it, unless renames are chained.
THEOREM RowsStayKept == Spec => []RowsKept
<1>1. IInv => RowsKept
  <2> SUFFICES ASSUME GoodTables(tables), NEW f \in Files, ~Chained(Text[f]),
                      NEW t \in Accepted(tables, Text[f]), NEW r \in tables.rows
               PROVE  LET moved == {e.dst : e \in {x \in Text[f].rename : /\ x.kind = r.kind
                                                                          /\ x.src = r.slug}}
                          slug  == IF moved = {} THEN r.slug ELSE CHOOSE s \in moved : TRUE
                      IN  slug \in Declared(Text[f], r.kind) =>
                            \E k \in t.rows : k.kind = r.kind /\ k.id = r.id /\ k.slug = slug
    BY TypeIsGood DEF IInv, RowsKept
  <2> DEFINE F == Text[f]
             moved == {e.dst : e \in {x \in F.rename : x.kind = r.kind /\ x.src = r.slug}}
             slug  == IF moved = {} THEN r.slug ELSE CHOOSE s \in moved : TRUE
  <2>1. IsFile(F)
    BY FilesAssumption
  <2>2. PICK o \in applyConfig(tables, F) :
          /\ o.ok /\ GoodTransaction(o) /\ GoodTables(t)
          /\ t.rows = o.rows /\ t.links = o.links /\ t.email = o.email
    BY <2>1, AcceptedIsGood
  <2>3. PICK u \in Renamed(Start(tables, F), F) : u.ok /\ Keeps(u, o, F)
    BY <2>1, <2>2, Applied
  <2>4. GoodTransaction(Start(tables, F)) /\ Start(tables, F).rows = tables.rows
    BY <2>1, StartIsGood
  <2>5. PICK k \in u.rows :
          /\ k.kind = r.kind /\ k.id = r.id
          /\ \A e \in F.rename : Moves(F, r, e) => k.slug = e.dst
          /\ (\A e \in F.rename : ~Moves(F, r, e)) => k.slug = r.slug
    BY <2>1, <2>3, <2>4, RenamesAreGood
  <2>6. k.slug = slug
    <3>1. CASE moved = {}
      BY <2>5, <3>1 DEF Moves
    <3>2. CASE moved # {}
      <4>1. slug \in moved
        BY <3>2
      <4> HIDE DEF slug
      <4>2. PICK e \in F.rename : Moves(F, r, e) /\ slug = e.dst
        BY <4>1 DEF Moves
      <4>3. QED
        BY <2>5, <4>2
    <3>3. QED
      BY <3>1, <3>2
  <2> HIDE DEF slug, F
  <2>7. slug \in Declared(F, r.kind) =>
          \E q \in t.rows : q.kind = r.kind /\ q.id = r.id /\ q.slug = slug
    BY <2>2, <2>3, <2>5, <2>6 DEF Keeps
  <2>8. QED
    BY <2>7 DEF slug, F
<1>2. QED
  BY <1>1, Inductive, PTL

-----------------------------------------------------------------------------
(* Generating and applying *)

\* A generated file has the form a file has.
LEMMA GeneratedIsFile ==
  ASSUME NEW t, GoodTables(t)
  PROVE  IsFile(generateConfig(t))
<1> DEFINE f         == generateConfig(t)
           entity(r) == [kind |-> r.kind, slug |-> r.slug, type |-> r.type,
                         value |-> IF r.value = "repeated" THEN "plain" ELSE r.value]
           said(l)   == [monitor |-> SlugOf(t, "monitors", l.monitor), kind |-> l.kind,
                         slug |-> SlugOf(t, l.kind, l.id)]
<1>1. GoodRows(t.rows) /\ GoodReferences(t.rows, t.links, t.email) /\ t.links \subseteq Link
  BY DEF GoodTables, Good, Tables
<1>2. /\ f.malformed = FALSE
      /\ f.complaint = FALSE
      /\ f.rename = {}
      /\ f.entities = {entity(r) : r \in t.rows}
      /\ f.links = {said(l) : l \in t.links}
      /\ f.email = IF t.email = 0 THEN "none" ELSE SlugOf(t, "notification-channels", t.email)
  BY DEF generateConfig, FileOf
<1>3. \A r \in t.rows : /\ entity(r) \in Entity
                        /\ entity(r).kind = r.kind /\ entity(r).slug = r.slug
  BY <1>1 DEF GoodRows, Row, Entity, Values
<1>4. IsFiniteSet({entity(r) : r \in t.rows})
  <2> DEFINE g == [r \in t.rows |-> entity(r)]
             E == {entity(r) : r \in t.rows}
  <2>1. g \in Surjection(t.rows, E)
    <3> HIDE DEF entity
    <3>1. QED
      BY DEF Surjection
  <2> HIDE DEF g, E
  <2>2. IsFiniteSet(E)
    BY <1>1, <2>1, FS_Surjection DEF GoodRows
  <2>3. QED
    BY <2>2 DEF E
<1>5. \A kind, id : Known(t.rows, kind, id) =>
        \E r \in t.rows : r.kind = kind /\ r.id = id /\ SlugOf(t, kind, id) = r.slug
  <2> SUFFICES ASSUME NEW kind, NEW id, Known(t.rows, kind, id)
               PROVE  \E r \in t.rows : r.kind = kind /\ r.id = id /\ SlugOf(t, kind, id) = r.slug
    OBVIOUS
  <2> DEFINE r == CHOOSE x \in t.rows : x.kind = kind /\ x.id = id
  <2>1. r \in t.rows /\ r.kind = kind /\ r.id = id
    BY DEF Known
  <2>2. SlugOf(t, kind, id) = r.slug
    BY DEF SlugOf
  <2> HIDE DEF r
  <2>3. QED
    BY <2>1, <2>2
<1>6. \A r \in t.rows : r.slug \in Slugs
  BY <1>1 DEF GoodRows, Row
<1>7. ASSUME NEW l \in t.links
      PROVE  /\ said(l) \in [monitor : Slugs, kind : Targets, slug : Slugs]
             /\ \E r \in t.rows : r.kind = "monitors" /\ r.slug = said(l).monitor
  <2>1. PICK r \in t.rows : r.kind = "monitors" /\ SlugOf(t, "monitors", l.monitor) = r.slug
    BY <1>1, <1>5 DEF GoodReferences
  <2>2. PICK q \in t.rows : SlugOf(t, l.kind, l.id) = q.slug
    BY <1>1, <1>5 DEF GoodReferences
  <2>3. l.kind \in Targets
    BY <1>1 DEF Link
  <2>4. QED
    BY <1>6, <2>1, <2>2, <2>3
<1>8. f.email \in Slugs \cup {"none"}
  <2>1. CASE t.email = 0
    BY <1>2, <2>1
  <2>2. CASE t.email # 0
    BY <1>1, <1>2, <1>5, <1>6, <2>2 DEF GoodReferences
  <2>3. QED
    BY <2>1, <2>2
<1>9. IsFiniteSet(f.rename)
  BY <1>2, FS_EmptySet
<1> HIDE DEF f, entity, said
<1>10. f.links \subseteq [monitor : Slugs, kind : Targets, slug : Slugs]
  BY <1>2, <1>7
<1>11. \A l \in f.links : \E e \in f.entities : e.kind = "monitors" /\ e.slug = l.monitor
  <2> SUFFICES ASSUME NEW l \in t.links
               PROVE  \E e \in f.entities : e.kind = "monitors" /\ e.slug = said(l).monitor
    BY <1>2
  <2>1. PICK r \in t.rows : r.kind = "monitors" /\ r.slug = said(l).monitor
    BY <1>7
  <2>2. entity(r) \in f.entities
    BY <1>2
  <2>3. QED
    BY <1>3, <2>1, <2>2
<1>12. \A d, e \in f.entities : d.kind = e.kind /\ d.slug = e.slug => d = e
  BY <1>1, <1>2, <1>3 DEF GoodRows, Unique
<1>13. f.entities \subseteq Entity
  BY <1>2, <1>3
<1>14. f.malformed \in BOOLEAN /\ f.complaint \in BOOLEAN
  BY <1>2
<1>15. QED
  BY <1>2, <1>4, <1>8, <1>9, <1>10, <1>11, <1>12, <1>13, <1>14 DEF IsFile, f

\* A set of no entries is ranged over in one way, which does nothing.
LEMMA NothingToDo ==
  /\ \E order \in SetToSeqs({}) : TRUE
  /\ \A order \in SetToSeqs({}) : DOMAIN order = 1..0
<1>1. Cardinality({}) = 0
  BY FS_EmptySet
<1>2. [i \in 1..0 |-> i] \in [1..0 -> {}]
  OBVIOUS
<1>3. [i \in 1..0 |-> i] \in SetToSeqs({})
  BY <1>1, <1>2 DEF SetToSeqs
<1>4. QED
  BY <1>1, <1>3 DEF SetToSeqs

\* Without renames, with every declared entity there, and with no other, the loops of
\* applyConfig leave a transaction as it is.
LEMMA NothingRenamed ==
  ASSUME NEW f, IsFile(f), f.rename = {}, NEW t
  PROVE  Renamed(t, f) = {t}
<1>1. \A order \in SetToSeqs({}) : Renames(f, t, order) = t
  <2> SUFFICES ASSUME NEW order \in SetToSeqs({}) PROVE Renames(f, t, order) = t
    OBVIOUS
  <2>1. DOMAIN order = 1..0 /\ 0 \in Nat
    BY NothingToDo
  <2>2. QED
    BY <2>1, RenamesArePath DEF IsPath
<1>2. Renamed(t, f) = {Renames(f, t, order) : order \in SetToSeqs({})}
  BY DEF Renamed, Renames
<1>3. QED
  BY <1>1, <1>2, NothingToDo

\* Nothing to create.
LEMMA NothingCreated ==
  ASSUME NEW f, IsFile(f), NEW kind \in Kinds, NEW t, Reaches(t, f, kind)
  PROVE  CreateDeclared(t, f, kind) = {t}
<1>1. {e \in f.entities : e.kind = kind /\ Fresh(t, kind, e.slug)} = {}
  BY DEF Reaches, Declared
<1>2. \A order \in SetToSeqs({}) : Creates(t, kind, order) = t
  <2> SUFFICES ASSUME NEW order \in SetToSeqs({}) PROVE Creates(t, kind, order) = t
    OBVIOUS
  <2>1. DOMAIN order = 1..0 /\ 0 \in Nat /\ kind # "rename"
    BY NothingToDo DEF Kinds
  <2>2. \E path : IsPath(path, f, kind, t, order, 0) /\ Creates(t, kind, order) = path[0]
    BY <2>1, InsertsArePath
  <2>3. QED
    BY <2>2 DEF IsPath
<1>3. CreateDeclared(t, f, kind) = {Creates(t, kind, order) : order \in SetToSeqs({})}
  BY <1>1 DEF CreateDeclared, Creates
<1>4. QED
  BY <1>2, <1>3, NothingToDo

\* Nothing to drop.
LEMMA NothingDropped ==
  ASSUME NEW f, NEW kind, NEW t \in Transactions, Only(t, f, kind)
  PROVE  DropUndeclared(t, f, kind) = t
<1>1. {r \in t.rows : r.kind = kind /\ r.slug \notin Declared(f, kind)} = {}
  BY DEF Only
<1>2. DropUndeclared(t, f, kind) = Delete(t, {})
  BY <1>1 DEF DropUndeclared
<1>3. Delete(t, {}) = [t EXCEPT !.rows = t.rows, !.links = t.links, !.email = t.email]
  BY DEF Delete, Transactions
<1>4. QED
  BY <1>2, <1>3 DEF Transactions

\* Ids and slugs of rows stand for each other.
LEMMA IdOfSlug ==
  ASSUME NEW t, GoodRows(t.rows), NEW kind, NEW id, Known(t.rows, kind, id)
  PROVE  ~Fresh(t, kind, SlugOf(t, kind, id)) /\ IdOf(t, kind, SlugOf(t, kind, id)) = id
<1> DEFINE r == CHOOSE x \in t.rows : x.kind = kind /\ x.id = id
<1>1. r \in t.rows /\ r.kind = kind /\ r.id = id
  BY DEF Known
<1>2. SlugOf(t, kind, id) = r.slug
  BY DEF SlugOf
<1> HIDE DEF r
<1>3. ~Fresh(t, kind, r.slug)
  BY <1>1 DEF Fresh, Named
<1>4. IdOf(t, kind, r.slug) = id
  BY <1>1, <1>3, RowOfSlug
<1>5. QED
  BY <1>2, <1>3, <1>4

\* A row whose kind has been edited says the first value of each key alone.
Flatten(r, K) ==
  [r EXCEPT !.value = IF r.kind \in K /\ r.value = "repeated" THEN "plain" ELSE r.value]

Flat(rows, K) == {Flatten(r, K) : r \in rows}

\* Flattening changes neither ids nor slugs.
LEMMA FlattenRow ==
  ASSUME NEW r \in Row, NEW K
  PROVE  /\ Flatten(r, K) \in Row
         /\ Flatten(r, K).kind = r.kind /\ Flatten(r, K).id = r.id
         /\ Flatten(r, K).slug = r.slug /\ Flatten(r, K).type = r.type
         /\ Flatten(r, K).value = IF r.kind \in K /\ r.value = "repeated"
                                  THEN "plain" ELSE r.value
<1> DEFINE value == IF r.kind \in K /\ r.value = "repeated" THEN "plain" ELSE r.value
<1>1. value \in Values
  BY DEF Row, Values
<1>2. Flatten(r, K) = [r EXCEPT !.value = value]
  BY DEF Flatten
<1> HIDE DEF value
<1>3. /\ Flatten(r, K) \in Row
      /\ Flatten(r, K).kind = r.kind /\ Flatten(r, K).id = r.id
      /\ Flatten(r, K).slug = r.slug /\ Flatten(r, K).type = r.type
      /\ Flatten(r, K).value = value
  BY <1>1, <1>2 DEF Row
<1>4. QED
  BY <1>3 DEF value

\* Flattened rows are as good, and have the same ids and slugs.
LEMMA FlatIsGood ==
  ASSUME NEW rows, GoodRows(rows), NEW K
  PROVE  /\ GoodRows(Flat(rows, K))
         /\ \A kind, id : Known(Flat(rows, K), kind, id) <=> Known(rows, kind, id)
<1> DEFINE g == [r \in rows |-> Flatten(r, K)]
           R == Flat(rows, K)
<1>1. g \in Surjection(rows, R)
  BY DEF Surjection, Flat
<1>2. IsFiniteSet(R)
  <2> HIDE DEF g, R
  <2>1. QED
    BY <1>1, FS_Surjection DEF GoodRows
<1>3. R = {Flatten(r, K) : r \in rows}
  BY DEF Flat
<1>4. \A r \in rows : /\ Flatten(r, K) \in Row
                      /\ Flatten(r, K).kind = r.kind /\ Flatten(r, K).id = r.id
                      /\ Flatten(r, K).slug = r.slug
  BY FlattenRow DEF GoodRows
<1> HIDE DEF R
<1>5. Unique(R) /\ R \in SUBSET Row
  BY <1>3, <1>4 DEF GoodRows, Unique
<1>6. \A kind, id : Known(R, kind, id) <=> Known(rows, kind, id)
  BY <1>3, <1>4 DEF Known
<1>7. QED
  BY <1>2, <1>5, <1>6 DEF GoodRows, R

\* So an id has the same slug.
LEMMA FlatSlugs ==
  ASSUME NEW t, GoodRows(t.rows), NEW K, NEW u, u.rows = Flat(t.rows, K),
         NEW kind, NEW id, Known(t.rows, kind, id)
  PROVE  SlugOf(u, kind, id) = SlugOf(t, kind, id)
<1> DEFINE r == CHOOSE x \in t.rows : x.kind = kind /\ x.id = id
           q == CHOOSE x \in u.rows : x.kind = kind /\ x.id = id
<1>1. r \in t.rows /\ r.kind = kind /\ r.id = id
  BY DEF Known
<1>2. Known(u.rows, kind, id)
  BY FlatIsGood
<1>3. q \in u.rows /\ q.kind = kind /\ q.id = id
  BY <1>2 DEF Known
<1>4. SlugOf(u, kind, id) = q.slug /\ SlugOf(t, kind, id) = r.slug
  BY DEF SlugOf
<1> HIDE DEF r, q
<1>5. PICK x \in t.rows : q = Flatten(x, K)
  BY <1>3 DEF Flat
<1>6. x \in Row
  BY DEF GoodRows
<1>7. q.kind = x.kind /\ q.id = x.id /\ q.slug = x.slug
  BY <1>5, <1>6, FlattenRow
<1>8. x = r
  BY <1>1, <1>3, <1>7 DEF GoodRows, Unique
<1>9. QED
  BY <1>4, <1>7, <1>8

\* The generated file declares the slugs of the rows.
LEMMA GeneratedDeclares ==
  ASSUME NEW t, GoodRows(t.rows), NEW K, NEW u, u.rows = Flat(t.rows, K), NEW kind
  PROVE  Only(u, generateConfig(t), kind) /\ Reaches(u, generateConfig(t), kind)
<1> DEFINE f         == generateConfig(t)
           entity(r) == [kind |-> r.kind, slug |-> r.slug, type |-> r.type,
                         value |-> IF r.value = "repeated" THEN "plain" ELSE r.value]
<1>1. f.entities = {entity(r) : r \in t.rows}
  BY DEF generateConfig, FileOf
<1>2. \A r : entity(r).kind = r.kind /\ entity(r).slug = r.slug
  OBVIOUS
<1>3. \A r \in t.rows : Flatten(r, K).kind = r.kind /\ Flatten(r, K).slug = r.slug
  BY FlattenRow DEF GoodRows
<1> HIDE DEF f, entity
<1>4. \A s : s \in Declared(f, kind) <=> \E r \in t.rows : r.kind = kind /\ r.slug = s
  BY <1>1, <1>2 DEF Declared
<1>5. u.rows = {Flatten(r, K) : r \in t.rows}
  BY DEF Flat
<1>6. QED
  BY <1>3, <1>4, <1>5 DEF Only, Reaches, Fresh, Named, f

\* An edit of a kind writes back what its rows had, flattened.
LEMMA GeneratedEdits ==
  ASSUME NEW t, GoodTables(t), NEW K, NEW u \in Transactions, u.rows = Flat(t.rows, K),
         NEW kind
  PROVE  EditDeclared(u, generateConfig(t), kind)
           = [u EXCEPT !.rows = Flat(t.rows, K \cup {kind})]
<1> DEFINE f         == generateConfig(t)
           entity(r) == [kind |-> r.kind, slug |-> r.slug, type |-> r.type,
                         value |-> IF r.value = "repeated" THEN "plain" ELSE r.value]
           said(r)   == CHOOSE e \in f.entities : e.kind = kind /\ e.slug = r.slug
           new(r)    == IF r.type = said(r).type THEN said(r).value ELSE "refused"
           edit(r)   == IF r.kind = kind /\ r.slug \in Declared(f, kind)
                        THEN [r EXCEPT !.value = new(r)] ELSE r
<1>1. f.entities = {entity(r) : r \in t.rows}
  BY DEF generateConfig, FileOf
<1>2. \A r : /\ entity(r).kind = r.kind /\ entity(r).slug = r.slug /\ entity(r).type = r.type
             /\ entity(r).value = IF r.value = "repeated" THEN "plain" ELSE r.value
  OBVIOUS
<1>3. EditDeclared(u, f, kind) = [u EXCEPT !.rows = {edit(r) : r \in u.rows}]
  BY DEF EditDeclared, Transactions
<1>4. Only(u, f, kind)
  BY GeneratedDeclares DEF GoodTables, Good
<1> HIDE DEF f, entity
<1>5. ASSUME NEW r \in t.rows
      PROVE  edit(Flatten(r, K)) = Flatten(r, K \cup {kind})
  <2> DEFINE q == Flatten(r, K)
             w == Flatten(r, K \cup {kind})
  <2>1. r \in Row
    BY DEF GoodTables, Good, GoodRows
  <2>2. /\ q \in Row /\ q.kind = r.kind /\ q.slug = r.slug /\ q.type = r.type
        /\ q \in u.rows
    BY <2>1, FlattenRow DEF Flat
  <2>3. w = [r EXCEPT !.value = IF r.kind \in K \cup {kind} /\ r.value = "repeated"
                                THEN "plain" ELSE r.value]
        /\ q = [r EXCEPT !.value = IF r.kind \in K /\ r.value = "repeated"
                                   THEN "plain" ELSE r.value]
    BY DEF Flatten
  <2> HIDE DEF q, w
  <2>4. CASE r.kind # kind
    <3>1. edit(q) = q
      BY <2>2, <2>4
    <3>2. w = q
      BY <2>3, <2>4
    <3>3. QED
      BY <3>1, <3>2 DEF q, w
  <2>5. CASE r.kind = kind
    <3>1. q.kind = kind /\ q.slug \in Declared(f, kind)
      BY <1>4, <2>2, <2>5 DEF Only
    <3>2. entity(r) \in f.entities
      BY <1>1
    <3>3. said(q) \in f.entities /\ said(q).kind = kind /\ said(q).slug = r.slug
      BY <1>2, <2>2, <2>5, <3>2
    <3>4. edit(q) = [q EXCEPT !.value = new(q)]
      BY <3>1
    <3>5. new(q) = IF q.type = said(q).type THEN said(q).value ELSE "refused"
      OBVIOUS
    <3> HIDE DEF said, new
    <3>6. PICK p \in t.rows : said(q) = entity(p)
      BY <1>1, <3>3
    <3>7. p = r
      BY <1>2, <2>5, <3>3, <3>6 DEF GoodTables, Good, GoodRows, Unique
    <3>8. new(q) = IF r.value = "repeated" THEN "plain" ELSE r.value
      BY <1>2, <2>2, <3>5, <3>6, <3>7
    <3> HIDE DEF edit
    <3>9. edit(q) = [r EXCEPT !.value = IF r.value = "repeated" THEN "plain" ELSE r.value]
      BY <2>1, <2>3, <3>4, <3>8 DEF Row
    <3>10. w = [r EXCEPT !.value = IF r.value = "repeated" THEN "plain" ELSE r.value]
      BY <2>3, <2>5
    <3>11. QED
      BY <3>9, <3>10 DEF q, w
  <2>6. QED
    BY <2>4, <2>5
<1> HIDE DEF edit
<1>6. {edit(r) : r \in u.rows} = Flat(t.rows, K \cup {kind})
  <2>1. u.rows = {Flatten(r, K) : r \in t.rows}
    BY DEF Flat
  <2>2. {edit(r) : r \in u.rows} = {edit(Flatten(r, K)) : r \in t.rows}
    BY <2>1
  <2>3. QED
    BY <1>5, <2>2 DEF Flat
<1>7. QED
  BY <1>3, <1>6 DEF f

\* The transaction when the kinds K have had their pass.
After(t, K) == [rows  |-> Flat(t.rows, K), links |-> t.links, email |-> t.email,
                ok |-> \A r \in t.rows : r.value # "refused"]

\* It is in good order.
LEMMA AfterIsGood ==
  ASSUME NEW t, GoodTables(t), NEW K
  PROVE  GoodTransaction(After(t, K))
<1>1. /\ GoodRows(Flat(t.rows, K))
      /\ \A kind, id : Known(Flat(t.rows, K), kind, id) <=> Known(t.rows, kind, id)
  BY FlatIsGood DEF GoodTables, Good
<1>2. GoodReferences(Flat(t.rows, K), t.links, t.email)
  BY <1>1 DEF GoodTables, Good, GoodReferences
<1>3. (\A r \in t.rows : r.value # "refused") \in BOOLEAN
  OBVIOUS
<1> DEFINE R    == Flat(t.rows, K)
           fine == \A r \in t.rows : r.value # "refused"
<1>4. After(t, K) = [rows |-> R, links |-> t.links, email |-> t.email, ok |-> fine]
  BY DEF After
<1> HIDE DEF R, fine
<1>5. R \in SUBSET Row /\ t.links \in SUBSET Link /\ t.email \in Nat /\ fine \in BOOLEAN
  BY <1>1, <1>3 DEF GoodRows, GoodTables, Tables, R, fine
<1>6. After(t, K) \in Transactions
  BY <1>4, <1>5 DEF Transactions
<1>7. QED
  BY <1>1, <1>2, <1>4, <1>6 DEF GoodTransaction, Good, R

\* A pass over a section of the generated file.
LEMMA GeneratedPass ==
  ASSUME NEW t, GoodTables(t), NEW K, NEW kind \in Kinds
  PROVE  /\ DropUndeclared(After(t, K), generateConfig(t), kind) = After(t, K)
         /\ Declare(After(t, K), generateConfig(t), kind) = {After(t, K \cup {kind})}
<1> DEFINE f == generateConfig(t)
           u == After(t, K)
           w == After(t, K \cup {kind})
<1>1. IsFile(f)
  BY GeneratedIsFile
<1>2. u \in Transactions /\ u.rows = Flat(t.rows, K) /\ w.rows = Flat(t.rows, K \cup {kind})
  <2>1. GoodTransaction(u)
    BY AfterIsGood
  <2>2. QED
    BY <2>1 DEF GoodTransaction, After
<1>3. Only(u, f, kind) /\ Reaches(w, f, kind)
  <2> HIDE DEF u, w
  <2>1. QED
    BY <1>2, GeneratedDeclares DEF GoodTables, Good
<1>4. [u EXCEPT !.rows = Flat(t.rows, K \cup {kind})] = w
  <2> DEFINE old  == Flat(t.rows, K)
             new  == Flat(t.rows, K \cup {kind})
             fine == \A r \in t.rows : r.value # "refused"
  <2>1. /\ u = [rows |-> old, links |-> t.links, email |-> t.email, ok |-> fine]
        /\ w = [rows |-> new, links |-> t.links, email |-> t.email, ok |-> fine]
    BY DEF After
  <2> HIDE DEF old, new, fine, u, w
  <2>2. [u EXCEPT !.rows = new] = w
    BY <2>1
  <2>3. QED
    BY <2>2 DEF new
<1> HIDE DEF u, w
<1>5. EditDeclared(u, f, kind) = w
  BY <1>2, <1>4, GeneratedEdits
<1> HIDE DEF f
<1>6. CreateDeclared(w, f, kind) = {w}
  BY <1>1, <1>3, NothingCreated
<1>7. DropUndeclared(u, f, kind) = u
  BY <1>2, <1>3, NothingDropped
<1>8. QED
  BY <1>5, <1>6, <1>7 DEF Declare, f, u, w

\* Links and the alert channel are read back as they were written.
LEMMA SameReferences ==
  ASSUME NEW t, GoodTables(t), NEW K
  PROVE  applyConfigReferences(After(t, K), generateConfig(t)) = {After(t, K)}
<1> DEFINE u         == After(t, K)
           f         == generateConfig(t)
           said(l)   == [monitor |-> SlugOf(t, "monitors", l.monitor), kind |-> l.kind,
                         slug |-> SlugOf(t, l.kind, l.id)]
           link(l)    == [monitor |-> IdOf(u, "monitors", l.monitor), kind |-> l.kind,
                          id |-> IdOf(u, l.kind, l.slug)]
           skipped    == {l.monitor : l \in {x \in f.links : Fresh(u, x.kind, x.slug)}}
           updated    == {IdOf(u, "monitors", m) : m \in Declared(f, "monitors") \ skipped}
           noChannel  == Fresh(u, "notification-channels", f.email)
           old == {l \in u.links : l.monitor \notin updated}
           set == {link(l) : l \in {x \in f.links : x.monitor \notin skipped}}
           m == IF noChannel THEN 0 ELSE IdOf(u, "notification-channels", f.email)
           fine == u.ok /\ skipped = {} /\ ~(f.email # "none" /\ noChannel)
<1>0. /\ GoodTransaction(u) /\ u.rows = Flat(t.rows, K)
      /\ u.links = t.links /\ u.email = t.email
  BY AfterIsGood DEF After
<1> HIDE DEF u
<1>1. Only(u, f, "monitors") /\ Reaches(u, f, "monitors")
  BY <1>0, GeneratedDeclares DEF GoodTables, Good
<1>2. DropUndeclared(u, f, "monitors") = u
  BY <1>0, <1>1, NothingDropped DEF GoodTransaction
<1>3. applyConfigReferences(u, f)
        = {[u EXCEPT !.links = old \cup set, !.email = m, !.ok = fine]}
  <2> DEFINE Result(kept) ==
        LET skips  == {l.monitor : l \in {x \in f.links : Fresh(kept, x.kind, x.slug)}}
            others == {IdOf(kept, "monitors", n) : n \in Declared(f, "monitors") \ skips}
            none   == Fresh(kept, "notification-channels", f.email)
        IN {[kept EXCEPT
               !.links = {l \in @ : l.monitor \notin others}
                         \cup {[monitor |-> IdOf(kept, "monitors", l.monitor),
                                kind |-> l.kind,
                                id |-> IdOf(kept, l.kind, l.slug)] :
                                 l \in {x \in f.links : x.monitor \notin skips}},
               !.email = IF none THEN 0 ELSE IdOf(kept, "notification-channels", f.email),
               !.ok = @ /\ skips = {} /\ ~(f.email # "none" /\ none)]}
  <2>1. applyConfigReferences(u, f) = Result(DropUndeclared(u, f, "monitors"))
    BY DEF applyConfigReferences
  <2>2. Result(u) = {[u EXCEPT !.links = old \cup set, !.email = m, !.ok = fine]}
    OBVIOUS
  <2> HIDE DEF Result
  <2>3. QED
    BY <1>2, <2>1, <2>2
<1>4. /\ f.links = {said(l) : l \in t.links}
      /\ f.email = IF t.email = 0 THEN "none" ELSE SlugOf(t, "notification-channels", t.email)
  BY DEF generateConfig, FileOf
<1> HIDE DEF f
<1>5. GoodRows(u.rows) /\ GoodReferences(u.rows, u.links, u.email) /\ u.links \subseteq Link
  BY <1>0 DEF GoodTransaction, Good, Transactions
<1>6. \A kind, id : Known(u.rows, kind, id) => SlugOf(t, kind, id) = SlugOf(u, kind, id)
  <2>1. \A kind, id : Known(u.rows, kind, id) => Known(t.rows, kind, id)
    BY <1>0, FlatIsGood DEF GoodTables, Good
  <2>2. QED
    BY <1>0, <2>1, FlatSlugs DEF GoodTables, Good
<1>7. ASSUME NEW l \in u.links
      PROVE  link(said(l)) = l /\ ~Fresh(u, said(l).kind, said(l).slug)
  <2>1. Known(u.rows, "monitors", l.monitor) /\ Known(u.rows, l.kind, l.id)
    BY <1>5 DEF GoodReferences
  <2>2. IdOf(u, "monitors", SlugOf(u, "monitors", l.monitor)) = l.monitor
    BY <1>5, <2>1, IdOfSlug
  <2>3. IdOf(u, l.kind, SlugOf(u, l.kind, l.id)) = l.id /\ ~Fresh(u, l.kind, SlugOf(u, l.kind, l.id))
    BY <1>5, <2>1, IdOfSlug
  <2>4. l \in Link
    BY <1>5
  <2>5. said(l).monitor = SlugOf(u, "monitors", l.monitor) /\ said(l).kind = l.kind
        /\ said(l).slug = SlugOf(u, l.kind, l.id)
    BY <1>6, <2>1
  <2> HIDE DEF said
  <2>6. QED
    BY <2>2, <2>3, <2>4, <2>5 DEF Link
<1> HIDE DEF said, link
<1>8. skipped = {}
  BY <1>0, <1>4, <1>7
<1>9. set = u.links
  <2> HIDE DEF skipped
  <2>1. set = {link(x) : x \in f.links}
    BY <1>8
  <2>2. QED
    BY <1>0, <1>4, <1>7, <2>1
<1>10. old = {}
  <2> SUFFICES ASSUME NEW l \in u.links PROVE l.monitor \in updated
    OBVIOUS
  <2>1. PICK r \in u.rows : r.kind = "monitors" /\ r.id = l.monitor
    BY <1>5 DEF GoodReferences, Known
  <2>2. r.slug \in Declared(f, "monitors")
    BY <1>1, <2>1 DEF Only
  <2>3. ~Fresh(u, "monitors", r.slug)
    BY <2>1 DEF Fresh, Named
  <2>4. IdOf(u, "monitors", r.slug) = r.id
    BY <1>5, <2>1, <2>3, RowOfSlug
  <2>5. QED
    BY <1>8, <2>1, <2>2, <2>4
<1>11. m = u.email /\ ~(f.email # "none" /\ noChannel)
  <2>1. CASE t.email = 0
    <3>1. f.email = "none"
      BY <1>4, <2>1
    <3>2. noChannel
      BY <1>5, <3>1, SlugAssumption DEF GoodRows, Row, Fresh, Named
    <3>3. QED
      BY <1>0, <2>1, <3>1, <3>2
  <2>2. CASE t.email # 0
    <3>1. Known(u.rows, "notification-channels", u.email)
      BY <1>0, <1>5, <2>2 DEF GoodReferences
    <3>2. f.email = SlugOf(u, "notification-channels", u.email)
      BY <1>0, <1>4, <1>6, <2>2, <3>1
    <3>3. QED
      BY <1>5, <3>1, <3>2, IdOfSlug
  <2>3. QED
    BY <2>1, <2>2
<1>12. fine = u.ok
  <2>1. u.ok \in BOOLEAN
    BY <1>0 DEF GoodTransaction, Transactions
  <2> HIDE DEF skipped, noChannel
  <2>2. QED
    BY <1>8, <1>11, <2>1
<1> HIDE DEF old, set, m, fine
<1>13. [u EXCEPT !.links = old \cup set, !.email = m, !.ok = fine] = u
  BY <1>0, <1>9, <1>10, <1>11, <1>12 DEF GoodTransaction, Transactions
<1>14. QED
  BY <1>3, <1>13 DEF f, u

\* What the generated file makes of the tables, whatever their values: it is
\* accepted unless a value is refused, and every row of every kind is flattened.
LEMMA GeneratedApplied ==
  ASSUME NEW t, GoodTables(t)
  PROVE  applyConfig(t, generateConfig(t)) = {After(t, Kinds)}
<1> DEFINE f  == generateConfig(t)
           K1 == {"services"}
           K2 == {"services", "monitors"}
           K3 == {"services", "monitors", "notification-channels"}
           A0 == After(t, {})
           A1 == After(t, K1)
           A2 == After(t, K2)
           A3 == After(t, K3)
           A4 == After(t, Kinds)
<1>1. IsFile(f)
  BY GeneratedIsFile
<1>2. f.rename = {} /\ f.malformed = FALSE /\ f.complaint = FALSE
  BY DEF generateConfig, FileOf
<1>3. Start(t, f) = A0
  <2> DEFINE entity(r) == [kind |-> r.kind, slug |-> r.slug, type |-> r.type,
                           value |-> IF r.value = "repeated" THEN "plain" ELSE r.value]
             fine   == \A r \in t.rows : r.value # "refused"
             taken  == \A e \in f.entities : e.value # "refused"
  <2>1. f.entities = {entity(r) : r \in t.rows}
    BY DEF generateConfig, FileOf
  <2>2. \A r : entity(r).value = "refused" <=> r.value = "refused"
    OBVIOUS
  <2> HIDE DEF entity
  <2>3. taken = fine
    BY <2>1, <2>2
  <2>4. Flat(t.rows, {}) = t.rows
    <3>1. ASSUME NEW r \in t.rows PROVE Flatten(r, {}) = r
      <4>1. r \in Row
        BY DEF GoodTables, Good, GoodRows
      <4>2. QED
        BY <4>1 DEF Flatten, Row
    <3>2. QED
      BY <3>1 DEF Flat
  <2>5. Start(t, f) = [rows  |-> t.rows, links |-> t.links, email |-> t.email,
                       ok |-> ~f.malformed /\ ~f.complaint /\ taken]
    BY DEF Start
  <2> HIDE DEF taken, f
  <2>6. (~f.malformed /\ ~f.complaint /\ taken) = fine
    BY <1>2, <2>3
  <2>7. QED
    BY <2>4, <2>5, <2>6 DEF After
<1>4. Renamed(A0, f) = {A0}
  <2> HIDE DEF f, A0
  <2>1. QED
    BY <1>1, <1>2, NothingRenamed
<1>5. applyConfigServices(A0, f) = {A1}
  <2>1. {} \cup {"services"} = K1 /\ "services" \in Kinds
    BY DEF Kinds
  <2> HIDE DEF K1, f, A0, A1, A2, A3, A4
  <2>2. /\ DropUndeclared(After(t, {}), generateConfig(t), "services") = After(t, {})
        /\ Declare(After(t, {}), generateConfig(t), "services")
             = {After(t, {} \cup {"services"})}
    <3>1. \A kind \in Kinds :
            /\ DropUndeclared(After(t, {}), generateConfig(t), kind) = After(t, {})
            /\ Declare(After(t, {}), generateConfig(t), kind) = {After(t, {} \cup {kind})}
      BY GeneratedPass
    <3>2. QED
      BY <2>1, <3>1
  <2>3. DropUndeclared(A0, f, "services") = A0 /\ Declare(A0, f, "services") = {A1}
    BY <2>1, <2>2 DEF f, A0, A1
  <2>4. QED
    BY <2>3 DEF applyConfigServices
<1>6. applyConfigMonitors(A1, f) = {A2}
  <2>1. K1 \cup {"monitors"} = K2 /\ "monitors" \in Kinds
    BY DEF Kinds
  <2> HIDE DEF K1, K2, f, A0, A1, A2, A3, A4
  <2>2. /\ DropUndeclared(After(t, K1), generateConfig(t), "monitors") = After(t, K1)
        /\ Declare(After(t, K1), generateConfig(t), "monitors")
             = {After(t, K1 \cup {"monitors"})}
    <3>1. \A kind \in Kinds :
            /\ DropUndeclared(After(t, K1), generateConfig(t), kind) = After(t, K1)
            /\ Declare(After(t, K1), generateConfig(t), kind) = {After(t, K1 \cup {kind})}
      BY GeneratedPass
    <3>2. QED
      BY <2>1, <3>1
  <2>3. DropUndeclared(A1, f, "monitors") = A1 /\ Declare(A1, f, "monitors") = {A2}
    BY <2>1, <2>2 DEF f, A1, A2
  <2>4. QED
    BY <2>3 DEF applyConfigMonitors
<1>7. applyConfigNotificationChannels(A2, f) = {A3}
  <2>1. K2 \cup {"notification-channels"} = K3 /\ "notification-channels" \in Kinds
    BY DEF Kinds
  <2> HIDE DEF K2, K3, f, A0, A1, A2, A3, A4
  <2>2. /\ DropUndeclared(After(t, K2), generateConfig(t), "notification-channels") = After(t, K2)
        /\ Declare(After(t, K2), generateConfig(t), "notification-channels")
             = {After(t, K2 \cup {"notification-channels"})}
    <3>1. \A kind \in Kinds :
            /\ DropUndeclared(After(t, K2), generateConfig(t), kind) = After(t, K2)
            /\ Declare(After(t, K2), generateConfig(t), kind) = {After(t, K2 \cup {kind})}
      BY GeneratedPass
    <3>2. QED
      BY <2>1, <3>1
  <2>3. DropUndeclared(A2, f, "notification-channels") = A2 /\ Declare(A2, f, "notification-channels") = {A3}
    BY <2>1, <2>2 DEF f, A2, A3
  <2>4. QED
    BY <2>3 DEF applyConfigNotificationChannels
<1>8. applyConfigMailGroups(A3, f) = {A4}
  <2>1. K3 \cup {"mail-groups"} = Kinds /\ "mail-groups" \in Kinds
    BY DEF Kinds
  <2> HIDE DEF K3, f, A0, A1, A2, A3, A4
  <2>2. /\ DropUndeclared(After(t, K3), generateConfig(t), "mail-groups") = After(t, K3)
        /\ Declare(After(t, K3), generateConfig(t), "mail-groups")
             = {After(t, K3 \cup {"mail-groups"})}
    <3>1. \A kind \in Kinds :
            /\ DropUndeclared(After(t, K3), generateConfig(t), kind) = After(t, K3)
            /\ Declare(After(t, K3), generateConfig(t), kind) = {After(t, K3 \cup {kind})}
      BY GeneratedPass
    <3>2. QED
      BY <2>1, <3>1
  <2>3. DropUndeclared(A3, f, "mail-groups") = A3 /\ Declare(A3, f, "mail-groups") = {A4}
    BY <2>1, <2>2 DEF f, A3, A4
  <2>4. QED
    BY <2>3 DEF applyConfigMailGroups
<1>9. applyConfigReferences(A4, f) = {A4}
  BY SameReferences
<1>10. applyConfig(t, f)
         = UNION {applyConfigReferences(v, f) : v \in
             UNION {applyConfigMailGroups(w, f) : w \in
               UNION {applyConfigNotificationChannels(x, f) : x \in
                 UNION {applyConfigMonitors(y, f) : y \in
                   UNION {applyConfigServices(z, f) : z \in Renamed(Start(t, f), f)}}}}}
  BY <1>2 DEF applyConfig, Stage
<1> HIDE DEF f, A0, A1, A2, A3, A4
<1>11. UNION {applyConfigServices(z, f) : z \in Renamed(Start(t, f), f)} = {A1}
  BY <1>3, <1>4, <1>5
<1>12. UNION {applyConfigMonitors(y, f) : y \in {A1}} = {A2}
  BY <1>6
<1>13. UNION {applyConfigNotificationChannels(x, f) : x \in {A2}} = {A3}
  BY <1>7
<1>14. UNION {applyConfigMailGroups(w, f) : w \in {A3}} = {A4}
  BY <1>8
<1>15. UNION {applyConfigReferences(v, f) : v \in {A4}} = {A4}
  BY <1>9
<1>16. QED
  BY <1>10, <1>11, <1>12, <1>13, <1>14, <1>15 DEF f, A4

\* postConfig of the file that generateConfig writes: it is rejected when a form
\* has stored a value that applyConfig refuses; otherwise it changes nothing, ids,
\* links and alert channel included, but that form bodies with a repeated key are
\* flattened.
THEOREM GeneratedChangesNothing == Spec => []RoundTrip
<1>1. IInv => RoundTrip
  <2> DEFINE after == applyConfig(tables, generateConfig(tables))
             plain(r) == [r EXCEPT !.value = "plain"]
  <2> SUFFICES ASSUME GoodTables(tables) PROVE RoundTrip
    BY TypeIsGood DEF IInv
  <2>1. after = {After(tables, Kinds)}
    BY GeneratedApplied
  <2> HIDE DEF after
  <2>2. CASE \E r \in tables.rows : r.value = "refused"
    <3>1. After(tables, Kinds).ok = FALSE
      BY <2>2 DEF After
    <3>2. \A o \in after : ~o.ok
      BY <2>1, <3>1
    <3>3. QED
      BY <2>2, <3>2 DEF RoundTrip, after
  <2>3. CASE ~ \E r \in tables.rows : r.value = "refused"
    <3>1. ASSUME NEW r \in tables.rows PROVE Flatten(r, Kinds) = plain(r)
      <4>1. r \in Row /\ r.kind \in Kinds /\ r.value \in {"plain", "repeated"}
        BY <2>3 DEF GoodTables, Good, GoodRows, Row, Values
      <4>2. (IF r.kind \in Kinds /\ r.value = "repeated" THEN "plain" ELSE r.value) = "plain"
        BY <4>1
      <4>3. QED
        BY <4>2 DEF Flatten
    <3> HIDE DEF plain
    <3>2. Flat(tables.rows, Kinds) = {plain(r) : r \in tables.rows}
      BY <3>1 DEF Flat
    <3>3. (\A r \in tables.rows : r.value # "refused") = TRUE
      BY <2>3
    <3>4. After(tables, Kinds) = [rows |-> {plain(r) : r \in tables.rows},
                                  links |-> tables.links, email |-> tables.email, ok |-> TRUE]
      BY <3>2, <3>3 DEF After
    <3>5. QED
      BY <2>1, <2>3, <3>4 DEF RoundTrip, after, plain
  <2>4. QED
    BY <2>2, <2>3
<1>2. QED
  BY <1>1, Inductive, PTL

-----------------------------------------------------------------------------
(* The order of renames *)

\* Renames of a set P that lead from a slug, and to it.
From(P, kind, x) == {e \in P : e.kind = kind /\ e.src = x}
Into(P, kind, x) == {e \in P : e.kind = kind /\ e.dst = x}

\* c says which row of t each rename of P carries: the row that had the slug
\* it leads from, or else the one that the rename into that slug carried.
Carries(c, P, t) ==
  \A e \in P :
    /\ c[e] \in t.rows
    /\ Named(t, e.kind, e.src) # {} => c[e] \in Named(t, e.kind, e.src)
    /\ Named(t, e.kind, e.src) = {} => \A d \in Into(P, e.kind, e.src) : c[e] = c[d]

\* Rows of c's renames into a slug, under that slug.
Carried(c, P, kind, x) == {[c[d] EXCEPT !.slug = x] : d \in Into(P, kind, x)}

\* What has which slug once the renames of P have been made, in any order: a
\* slug that was taken is left before it is given again, one that was free is
\* given before it is left.
Placed(v, c, P, t) ==
  \A kind, x :
    LET taken == Named(t, kind, x) # {}
        left  == From(P, kind, x) # {}
        given == Into(P, kind, x) # {}
    IN /\ taken /\ ~left  => Named(v, kind, x) = Named(t, kind, x) /\ ~given
       /\ taken /\ left   => Named(v, kind, x) = Carried(c, P, kind, x)
       /\ ~taken /\ ~left => Named(v, kind, x) = Carried(c, P, kind, x)
       /\ ~taken /\ left  => Named(v, kind, x) = {} /\ given

\* Renames that lead from and to slugs of their own.
OneToOne(f) ==
  /\ \A d, e \in f.rename : d.kind = e.kind /\ d.src = e.src => d = e
  /\ \A d, e \in f.rename : d.kind = e.kind /\ d.dst = e.dst => d = e

\* One more rename that works.
RenamesStep(f, t, v, w, P, e) ==
  /\ GoodRows(t.rows) /\ v.rows \subseteq Row
  /\ OneToOne(f) /\ P \subseteq f.rename /\ e \in f.rename /\ e \notin P
  /\ Named(v, e.kind, e.src) # {}
  /\ Named(v, e.kind, e.dst) \subseteq Named(v, e.kind, e.src) /\ e.src # e.dst
  /\ w.rows = Moved(v.rows, Named(v, e.kind, e.src), e.dst)

\* The slug it leads to is free, and there is a row to carry.
LEMMA StepIsFree ==
  ASSUME NEW f, NEW t, NEW v, NEW w, NEW P, NEW e, RenamesStep(f, t, v, w, P, e),
         NEW c, Placed(v, c, P, t)
  PROVE  /\ Named(v, e.kind, e.dst) = {}
         /\ From(P, e.kind, e.src) = {} /\ Into(P, e.kind, e.dst) = {}
         /\ Named(t, e.kind, e.dst) # {} <=> From(P, e.kind, e.dst) # {}
<1>1. Named(v, e.kind, e.dst) = {}
  BY DEF RenamesStep, Named
<1>2. From(P, e.kind, e.src) = {} /\ Into(P, e.kind, e.dst) = {}
  BY DEF RenamesStep, OneToOne, From, Into
<1>3. Named(t, e.kind, e.dst) # {} <=> From(P, e.kind, e.dst) # {}
  BY <1>1, <1>2 DEF Placed
<1>4. QED
  BY <1>1, <1>2, <1>3

\* What a rename finds, under the slug it leads to.
Found(v, e) == {[r EXCEPT !.slug = e.dst] : r \in Named(v, e.kind, e.src)}

\* What the rename finds is the one row that it carries.
LEMMA StepCarries ==
  ASSUME NEW f, NEW t, NEW v, NEW w, NEW P, NEW e, RenamesStep(f, t, v, w, P, e),
         NEW c, Placed(v, c, P, t), NEW Q, Q = P \cup {e}, Carries(c, Q, t)
  PROVE  Found(v, e) = {[c[e] EXCEPT !.slug = e.dst]}
<1>1. From(P, e.kind, e.src) = {}
  BY StepIsFree
<1>2. CASE Named(t, e.kind, e.src) # {}
  <2>1. Named(v, e.kind, e.src) = Named(t, e.kind, e.src)
    BY <1>1, <1>2 DEF Placed
  <2>2. c[e] \in Named(t, e.kind, e.src)
    BY <1>2 DEF Carries
  <2>3. Named(t, e.kind, e.src) = {c[e]}
    BY <2>2 DEF RenamesStep, GoodRows, Unique, Named
  <2>4. QED
    BY <2>1, <2>3 DEF Found
<1>3. CASE Named(t, e.kind, e.src) = {}
  <2>1. Named(v, e.kind, e.src) = Carried(c, P, e.kind, e.src)
    BY <1>1, <1>3 DEF Placed
  <2>2. PICK d \in Into(P, e.kind, e.src) : TRUE
    BY <2>1 DEF RenamesStep, Carried
  <2>3. Into(P, e.kind, e.src) = {d}
    BY <2>2 DEF RenamesStep, OneToOne, Into
  <2>4. d \in Into(Q, e.kind, e.src)
    BY <2>2 DEF Into
  <2>5. c[e] = c[d] /\ c[e] \in Row
    BY <1>3, <2>4 DEF Carries, RenamesStep, GoodRows
  <2>6. Named(v, e.kind, e.src) = {[c[e] EXCEPT !.slug = e.src]}
    BY <2>1, <2>3, <2>5 DEF Carried
  <2>7. [[c[e] EXCEPT !.slug = e.src] EXCEPT !.slug = e.dst] = [c[e] EXCEPT !.slug = e.dst]
    BY <2>5 DEF Row
  <2>8. QED
    BY <2>6, <2>7 DEF Found
<1>4. QED
  BY <1>2, <1>3

\* Everything has the slug it should have after the rename.
LEMMA StepPlaces ==
  ASSUME NEW f, NEW t, NEW v, NEW w, NEW P, NEW e, RenamesStep(f, t, v, w, P, e),
         NEW c, Placed(v, c, P, t), NEW Q, Q = P \cup {e}, Carries(c, Q, t)
  PROVE  Placed(w, c, Q, t)
<1> DEFINE moved == Found(v, e)
<1>1. /\ Named(v, e.kind, e.dst) = {}
      /\ From(P, e.kind, e.src) = {} /\ Into(P, e.kind, e.dst) = {}
      /\ Named(t, e.kind, e.dst) # {} <=> From(P, e.kind, e.dst) # {}
  BY StepIsFree
<1>2. moved = {[c[e] EXCEPT !.slug = e.dst]}
  BY StepCarries
<1>3. w.rows = (v.rows \ Named(v, e.kind, e.src)) \cup moved
  BY DEF RenamesStep, Moved, Found
<1>4. \A r \in moved : r.kind = e.kind /\ r.slug = e.dst
  BY DEF RenamesStep, Named, Row, Found
<1> HIDE DEF moved
<1>5. e.src # e.dst /\ Named(v, e.kind, e.src) # {}
  BY DEF RenamesStep
<1> SUFFICES ASSUME NEW kind, NEW x
             PROVE  LET taken == Named(t, kind, x) # {}
                        left  == From(Q, kind, x) # {}
                        given == Into(Q, kind, x) # {}
                    IN /\ taken /\ ~left  => Named(w, kind, x) = Named(t, kind, x) /\ ~given
                       /\ taken /\ left   => Named(w, kind, x) = Carried(c, Q, kind, x)
                       /\ ~taken /\ ~left => Named(w, kind, x) = Carried(c, Q, kind, x)
                       /\ ~taken /\ left  => Named(w, kind, x) = {} /\ given
  BY DEF Placed
<1>6. CASE kind = e.kind /\ x = e.src
  <2>1. Named(w, kind, x) = {}
    BY <1>3, <1>4, <1>5, <1>6 DEF Named
  <2>2. From(Q, kind, x) # {} /\ Into(Q, kind, x) = Into(P, kind, x)
    BY <1>5, <1>6 DEF From, Into
  <2>3. Carried(c, Q, kind, x) = Carried(c, P, kind, x)
    BY <2>2 DEF Carried
  <2>4. CASE Named(t, kind, x) # {}
    <3>1. Into(P, kind, x) = {}
      BY <1>1, <1>6, <2>4 DEF Placed
    <3>2. Carried(c, P, kind, x) = {}
      BY <3>1 DEF Carried
    <3>3. QED
      BY <2>1, <2>2, <2>3, <2>4, <3>2
  <2>5. CASE Named(t, kind, x) = {}
    <3>1. Named(v, kind, x) = Carried(c, P, kind, x)
      BY <1>1, <1>6, <2>5 DEF Placed
    <3>2. Into(P, kind, x) # {}
      BY <1>5, <1>6, <3>1 DEF Carried
    <3>3. QED
      BY <2>1, <2>2, <2>5, <3>2
  <2>6. QED
    BY <2>4, <2>5
<1>7. CASE kind = e.kind /\ x = e.dst
  <2>1. Named(w, kind, x) = moved
    BY <1>1, <1>3, <1>4, <1>7 DEF Named
  <2>2. From(Q, kind, x) = From(P, kind, x) /\ Into(Q, kind, x) = {e}
    BY <1>1, <1>5, <1>7 DEF From, Into
  <2>3. Carried(c, Q, kind, x) = moved
    BY <1>2, <1>7, <2>2 DEF Carried
  <2>4. QED
    BY <1>1, <1>7, <2>1, <2>2, <2>3
<1>8. CASE kind # e.kind \/ (x # e.src /\ x # e.dst)
  <2>1. Named(w, kind, x) = Named(v, kind, x)
    BY <1>3, <1>4, <1>8 DEF Named
  <2>2. From(Q, kind, x) = From(P, kind, x) /\ Into(Q, kind, x) = Into(P, kind, x)
    BY <1>8 DEF From, Into
  <2>3. Carried(c, Q, kind, x) = Carried(c, P, kind, x)
    BY <2>2 DEF Carried
  <2>4. QED
    BY <2>1, <2>2, <2>3 DEF Placed
<1>9. QED
  BY <1>6, <1>7, <1>8

\* Whatever the rename finds can be what it carries.
LEMMA StepExtends ==
  ASSUME NEW f, NEW t, NEW v, NEW w, NEW P, NEW e, RenamesStep(f, t, v, w, P, e),
         NEW c, Placed(v, c, P, t), Carries(c, P, t)
  PROVE  \E b : Carries(b, P \cup {e}, t) /\ Placed(v, b, P, t)
<1> DEFINE Q == P \cup {e}
<1>1. /\ From(P, e.kind, e.src) = {}
      /\ Named(t, e.kind, e.dst) # {} <=> From(P, e.kind, e.dst) # {}
  BY StepIsFree
<1>2. \E r \in t.rows :
        /\ Named(t, e.kind, e.src) # {} => r \in Named(t, e.kind, e.src)
        /\ Named(t, e.kind, e.src) = {} => \A d \in Into(P, e.kind, e.src) : r = c[d]
  <2>1. CASE Named(t, e.kind, e.src) # {}
    BY <2>1 DEF Named
  <2>2. CASE Named(t, e.kind, e.src) = {}
    <3>1. Named(v, e.kind, e.src) = Carried(c, P, e.kind, e.src)
      BY <1>1, <2>2 DEF Placed
    <3>2. PICK d \in Into(P, e.kind, e.src) : TRUE
      BY <3>1 DEF RenamesStep, Carried
    <3>3. \A g \in Into(P, e.kind, e.src) : g = d
      BY <3>2 DEF RenamesStep, OneToOne, Into
    <3>4. c[d] \in t.rows
      BY <3>2 DEF Carries, Into
    <3>5. QED
      BY <2>2, <3>3, <3>4
  <2>3. QED
    BY <2>1, <2>2
<1>3. PICK r \in t.rows :
        /\ Named(t, e.kind, e.src) # {} => r \in Named(t, e.kind, e.src)
        /\ Named(t, e.kind, e.src) = {} => \A d \in Into(P, e.kind, e.src) : r = c[d]
  BY <1>2
<1> DEFINE b == [d \in Q |-> IF d = e THEN r ELSE c[d]]
<1>4. b[e] = r /\ \A d \in P : b[d] = c[d]
  BY DEF RenamesStep
<1> HIDE DEF b
<1>5. \A kind, x : Carried(b, P, kind, x) = Carried(c, P, kind, x)
  BY <1>4 DEF Carried, Into
<1>6. Placed(v, b, P, t)
  BY <1>5 DEF Placed
<1>7. ASSUME NEW d \in Q
      PROVE  /\ b[d] \in t.rows
             /\ Named(t, d.kind, d.src) # {} => b[d] \in Named(t, d.kind, d.src)
             /\ Named(t, d.kind, d.src) = {} => \A g \in Into(Q, d.kind, d.src) : b[d] = b[g]
  <2>1. CASE d = e
    <3>1. Into(Q, e.kind, e.src) = Into(P, e.kind, e.src)
      BY DEF RenamesStep, Into
    <3>2. \A g \in Into(P, e.kind, e.src) : g \in P
      BY DEF Into
    <3>3. QED
      BY <1>3, <1>4, <2>1, <3>1, <3>2
  <2>2. CASE d # e
    <3>1. d \in P
      BY <2>2
    <3>2. Named(t, d.kind, d.src) = {} => Into(Q, d.kind, d.src) = Into(P, d.kind, d.src)
      BY <1>1, <3>1 DEF From, Into
    <3>3. \A g \in Into(P, d.kind, d.src) : g \in P
      BY DEF Into
    <3>4. QED
      BY <1>4, <3>1, <3>2, <3>3 DEF Carries
  <2>3. QED
    BY <2>1, <2>2
<1>8. Carries(b, Q, t)
  BY <1>7 DEF Carries
<1>9. QED
  BY <1>6, <1>8

\* The renames made so far, in the order of a path.
DoneBy(order, k) == {order[i] : i \in 1..k}

\* A path of renames that works, every entry once.
Works(path, f, t, order, n) ==
  /\ n \in Nat /\ GoodTransaction(t)
  /\ IsPath(path, f, "rename", t, order, n)
  /\ \A i \in 1..n : order[i] \in f.rename
  /\ \A i, j \in 1..n : i # j => order[i] # order[j]
  /\ path[n].ok

\* Every table along it is good, and without a message so far.
LEMMA WorksAlong ==
  ASSUME NEW f, IsFile(f), NEW t, NEW order, NEW n, NEW path, Works(path, f, t, order, n)
  PROVE  \A k \in 0..n : GoodTransaction(path[k]) /\ path[k].ok
<1>1. n \in Nat
  BY DEF Works
<1> DEFINE T == {k \in Nat : k \in 0..n => GoodTransaction(path[k])}
           B == {k \in Nat : k \in 0..n => path[n - k].ok}
<1>2. ASSUME NEW k \in Nat, k \in 1..n
      PROVE  path[k] = RenameEntity(f, path[k - 1], order[k]) /\ order[k] \in f.rename
  BY <1>2 DEF Works, IsPath, Entry
<1>3. 0 \in T
  BY DEF Works, IsPath
<1>4. ASSUME NEW k \in Nat, k \in T PROVE k + 1 \in T
  <2> SUFFICES ASSUME k + 1 \in 0..n PROVE GoodTransaction(path[k + 1])
    OBVIOUS
  <2>1. k \in 0..n /\ k + 1 \in 1..n /\ (k + 1) - 1 = k
    BY <1>1
  <2>2. path[k + 1] = RenameEntity(f, path[k], order[k + 1]) /\ order[k + 1] \in f.rename
    BY <1>2, <2>1
  <2>3. GoodTransaction(path[k])
    BY <1>4, <2>1
  <2>4. QED
    BY <2>2, <2>3, RenameInto
<1>5. \A k \in 0..n : GoodTransaction(path[k])
  <2> HIDE DEF T
  <2>1. Nat \subseteq T
    BY <1>3, <1>4, SetInduction
  <2>2. QED
    BY <1>1, <2>1 DEF T
<1>6. 0 \in B
  BY <1>1 DEF Works
<1>7. ASSUME NEW k \in Nat, k \in B PROVE k + 1 \in B
  <2> SUFFICES ASSUME k + 1 \in 0..n PROVE path[n - (k + 1)].ok
    OBVIOUS
  <2> DEFINE m == n - k
  <2>1. k \in 0..n /\ m \in 1..n /\ m - 1 = n - (k + 1) /\ m - 1 \in 0..n
    BY <1>1
  <2>2. path[m].ok
    BY <1>7, <2>1
  <2> HIDE DEF m
  <2>3. path[m] = RenameEntity(f, path[m - 1], order[m]) /\ order[m] \in f.rename
    BY <1>2, <2>1
  <2>4. path[m - 1].ok
    BY <1>5, <2>1, <2>2, <2>3, RenameInto
  <2>5. QED
    BY <2>1, <2>4
<1>8. \A k \in 0..n : path[k].ok
  <2> HIDE DEF B
  <2>1. Nat \subseteq B
    BY <1>6, <1>7, SetInduction
  <2> SUFFICES ASSUME NEW k \in 0..n PROVE path[k].ok
    OBVIOUS
  <2>2. n - k \in Nat /\ n - k \in 0..n /\ n - (n - k) = k
    BY <1>1
  <2>3. QED
    BY <2>1, <2>2 DEF B
<1>9. QED
  BY <1>5, <1>8

\* Each entry is a step.
LEMMA WorksStep ==
  ASSUME NEW f, IsFile(f), OneToOne(f), NEW t, NEW order, NEW n, NEW path,
         Works(path, f, t, order, n), NEW k \in Nat, k + 1 \in 0..n
  PROVE  /\ RenamesStep(f, t, path[k], path[k + 1], DoneBy(order, k), order[k + 1])
         /\ DoneBy(order, k + 1) = DoneBy(order, k) \cup {order[k + 1]}
<1>1. n \in Nat /\ k \in 0..n /\ k + 1 \in 1..n /\ (k + 1) - 1 = k
  BY DEF Works
<1>2. path[k + 1] = RenameEntity(f, path[k], order[k + 1]) /\ order[k + 1] \in f.rename
  BY <1>1 DEF Works, IsPath, Entry
<1>3. GoodTransaction(path[k]) /\ path[k + 1].ok
  BY <1>1, WorksAlong
<1>4. \A i \in 1..k : i \in 1..n /\ i # k + 1
  BY <1>1
<1>5. DoneBy(order, k) \subseteq f.rename /\ order[k + 1] \notin DoneBy(order, k)
  BY <1>1, <1>4 DEF DoneBy, Works
<1>6. 1..(k + 1) = (1..k) \cup {k + 1}
  OBVIOUS
<1>7. DoneBy(order, k + 1) = DoneBy(order, k) \cup {order[k + 1]}
  BY <1>6 DEF DoneBy
<1> DEFINE v == path[k]
           w == path[k + 1]
           e == order[k + 1]
<1> HIDE DEF v, w, e
<1>8. /\ Named(v, e.kind, e.src) # {}
      /\ Named(v, e.kind, e.dst) \subseteq Named(v, e.kind, e.src) /\ e.src # e.dst
      /\ w.rows = Moved(v.rows, Named(v, e.kind, e.src), e.dst)
  <2>1. w = RenameEntity(f, v, e) /\ e \in f.rename /\ GoodTransaction(v) /\ w.ok
    BY <1>2, <1>3 DEF v, w, e
  <2>2. QED
    BY <2>1, RenameInto
<1>9. GoodRows(t.rows) /\ v.rows \subseteq Row
  BY <1>3 DEF v, Works, GoodTransaction, Good, GoodRows
<1>10. RenamesStep(f, t, v, w, DoneBy(order, k), e)
  BY <1>2, <1>5, <1>8, <1>9 DEF RenamesStep, v, w, e
<1>11. QED
  BY <1>7, <1>10 DEF v, w, e

\* Nothing is carried at first.
LEMMA NothingPlaced ==
  ASSUME NEW t, NEW c
  PROVE  Placed(t, c, {}, t) /\ Carries(c, {}, t)
BY DEF Placed, Carries, From, Into, Carried

\* A path that works tells what each rename carries.
LEMMA WorksCarries ==
  ASSUME NEW f, IsFile(f), OneToOne(f), NEW t, NEW order, NEW n, NEW path,
         Works(path, f, t, order, n)
  PROVE  \E c : Carries(c, DoneBy(order, n), t)
<1> DEFINE Holds(c, k) == Carries(c, DoneBy(order, k), t) /\ Placed(path[k], c, DoneBy(order, k), t)
           T == {k \in Nat : k \in 0..n => \E c : Holds(c, k)}
<1>1. n \in Nat /\ path[0] = t
  BY DEF Works, IsPath
<1>2. 0 \in T
  <2>1. DoneBy(order, 0) = {}
    BY DEF DoneBy
  <2>2. Holds(<<>>, 0)
    BY <1>1, <2>1, NothingPlaced
  <2>3. QED
    BY <2>2
<1>3. ASSUME NEW k \in Nat, k \in T PROVE k + 1 \in T
  <2> SUFFICES ASSUME k + 1 \in 0..n PROVE \E c : Holds(c, k + 1)
    OBVIOUS
  <2>1. k \in 0..n
    BY <1>1
  <2>2. PICK c : Holds(c, k)
    BY <1>3, <2>1
  <2> DEFINE P == DoneBy(order, k)
             v == path[k]
             w == path[k + 1]
             e == order[k + 1]
  <2>3. RenamesStep(f, t, v, w, P, e) /\ DoneBy(order, k + 1) = P \cup {e}
    BY WorksStep
  <2> HIDE DEF P, v, w, e
  <2>4. Carries(c, P, t) /\ Placed(v, c, P, t)
    BY <2>2 DEF P, v
  <2>5. PICK b : Carries(b, P \cup {e}, t) /\ Placed(v, b, P, t)
    BY <2>3, <2>4, StepExtends
  <2>6. Placed(w, b, P \cup {e}, t)
    BY <2>3, <2>5, StepPlaces
  <2>7. Holds(b, k + 1)
    BY <2>3, <2>5, <2>6 DEF w
  <2>8. QED
    BY <2>7
<1> HIDE DEF T
<1>4. Nat \subseteq T
  BY <1>2, <1>3, SetInduction
<1>5. n \in 0..n
  BY <1>1
<1>6. QED
  BY <1>1, <1>4, <1>5 DEF T

\* And every path that works places the rows by that.
LEMMA WorksPlaces ==
  ASSUME NEW f, IsFile(f), OneToOne(f), NEW t, NEW order, NEW n, NEW path,
         Works(path, f, t, order, n), NEW c, Carries(c, f.rename, t)
  PROVE  Placed(path[n], c, DoneBy(order, n), t)
<1> DEFINE T == {k \in Nat : k \in 0..n => Placed(path[k], c, DoneBy(order, k), t)}
<1>1. n \in Nat /\ path[0] = t
  BY DEF Works, IsPath
<1>2. 0 \in T
  <2>1. DoneBy(order, 0) = {}
    BY DEF DoneBy
  <2>2. QED
    BY <1>1, <2>1, NothingPlaced
<1>3. ASSUME NEW k \in Nat, k \in T PROVE k + 1 \in T
  <2> SUFFICES ASSUME k + 1 \in 0..n PROVE Placed(path[k + 1], c, DoneBy(order, k + 1), t)
    OBVIOUS
  <2> DEFINE P == DoneBy(order, k)
             v == path[k]
             w == path[k + 1]
             e == order[k + 1]
  <2>1. RenamesStep(f, t, v, w, P, e) /\ DoneBy(order, k + 1) = P \cup {e}
    BY WorksStep
  <2>2. k \in 0..n
    BY <1>1
  <2>3. Placed(v, c, P, t)
    BY <1>3, <2>2
  <2> HIDE DEF P, v, w, e
  <2>4. Carries(c, P \cup {e}, t)
    <3>1. P \cup {e} \subseteq f.rename
      BY <2>1 DEF RenamesStep
    <3>2. QED
      BY <3>1 DEF Carries, Into
  <2>5. Placed(w, c, P \cup {e}, t)
    BY <2>1, <2>3, <2>4, StepPlaces
  <2>6. QED
    BY <2>1, <2>5 DEF w
<1> HIDE DEF T
<1>4. Nat \subseteq T
  BY <1>2, <1>3, SetInduction
<1>5. n \in 0..n
  BY <1>1
<1>6. QED
  BY <1>1, <1>4, <1>5 DEF T

\* Every order of the renames of a file is a path.
LEMMA RenamedWorks ==
  ASSUME NEW f, IsFile(f), NEW t, GoodTransaction(t), NEW u \in Renamed(t, f), u.ok
  PROVE  \E order, n, path : Works(path, f, t, order, n) /\ u = path[n]
                             /\ DoneBy(order, n) = f.rename
<1> DEFINE n == Cardinality(f.rename)
<1>1. PICK order \in SetToSeqs(f.rename) : u = Renames(f, t, order)
  BY DEF Renamed, Renames
<1>2. /\ n \in Nat
      /\ order \in [1..n -> f.rename]
      /\ \A i, j \in 1..n : i # j => order[i] # order[j]
      /\ \A e \in f.rename : \E i \in 1..n : order[i] = e
  BY RangedOver DEF IsFile
<1> HIDE DEF n
<1>3. PICK path : IsPath(path, f, "rename", t, order, n) /\ u = path[n]
  <2>1. DOMAIN order = 1..n
    BY <1>2
  <2>2. QED
    BY <1>1, <1>2, <2>1, RenamesArePath
<1>4. \A i \in 1..n : order[i] \in f.rename
  BY <1>2
<1>5. Works(path, f, t, order, n)
  BY <1>2, <1>3, <1>4 DEF Works
<1>6. DoneBy(order, n) = f.rename
  BY <1>2, <1>4 DEF DoneBy
<1>7. QED
  BY <1>3, <1>5, <1>6

\* applyConfig's first loop over the map of renames: every order that works
\* leaves the same rows, unless two renames lead to one slug.
THEOREM OrdersAgree == Spec => []OrderDecidesNothing
<1>1. IInv => OrderDecidesNothing
  <2> SUFFICES ASSUME GoodTables(tables), NEW f \in Files, ~Converging(Text[f]),
                      NEW u1 \in Renamed(Start(tables, Text[f]), Text[f]), u1.ok,
                      NEW u2 \in Renamed(Start(tables, Text[f]), Text[f]), u2.ok
               PROVE  u1.rows = u2.rows
    BY TypeIsGood DEF IInv, OrderDecidesNothing
  <2> DEFINE F == Text[f]
             t == Start(tables, F)
  <2>1. IsFile(F)
    BY FilesAssumption
  <2>2. GoodTransaction(t)
    BY <2>1, StartIsGood
  <2>3. OneToOne(F)
    BY <2>1 DEF OneToOne, Converging, IsFile
  <2> HIDE DEF F, t
  <2>4. u1 \in Renamed(t, F) /\ u2 \in Renamed(t, F)
    BY DEF F, t
  <2>5. PICK order1, n1, path1 :
          Works(path1, F, t, order1, n1) /\ u1 = path1[n1] /\ DoneBy(order1, n1) = F.rename
    BY <2>1, <2>2, <2>4, RenamedWorks
  <2>6. PICK order2, n2, path2 :
          Works(path2, F, t, order2, n2) /\ u2 = path2[n2] /\ DoneBy(order2, n2) = F.rename
    BY <2>1, <2>2, <2>4, RenamedWorks
  <2>7. PICK c : Carries(c, F.rename, t)
    <3>1. \E c : Carries(c, DoneBy(order1, n1), t)
      BY <2>1, <2>3, <2>5, WorksCarries
    <3>2. QED
      BY <2>5, <3>1
  <2>8. Placed(u1, c, F.rename, t)
    BY <2>1, <2>3, <2>5, <2>7, WorksPlaces
  <2>9. Placed(u2, c, F.rename, t)
    BY <2>1, <2>3, <2>6, <2>7, WorksPlaces
  <2>10. ASSUME NEW kind, NEW x PROVE Named(u1, kind, x) = Named(u2, kind, x)
    <3>1. CASE Named(t, kind, x) # {} /\ From(F.rename, kind, x) = {}
      BY <2>8, <2>9, <3>1 DEF Placed
    <3>2. CASE Named(t, kind, x) # {} /\ From(F.rename, kind, x) # {}
      BY <2>8, <2>9, <3>2 DEF Placed
    <3>3. CASE Named(t, kind, x) = {} /\ From(F.rename, kind, x) = {}
      BY <2>8, <2>9, <3>3 DEF Placed
    <3>4. CASE Named(t, kind, x) = {} /\ From(F.rename, kind, x) # {}
      BY <2>8, <2>9, <3>4 DEF Placed
    <3>5. QED
      BY <3>1, <3>2, <3>3, <3>4
  <2>11. \A v, r : r \in v.rows <=> r \in Named(v, r.kind, r.slug)
    BY DEF Named
  <2>12. \A r : r \in u1.rows <=> r \in u2.rows
    BY <2>10, <2>11
  <2>13. QED
    BY <2>12
<1>2. QED
  BY <1>1, Inductive, PTL

================================================================================

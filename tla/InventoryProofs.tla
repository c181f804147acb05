--------------------------- MODULE InventoryProofs ---------------------------
(***************************************************************************)
(* About the planner's view of ZFS, and the counts and the file of the     *)
(* status cache (src/zfs.rs, src/planner.rs, src/status.rs).               *)
(*                                                                         *)
(* Inventory, for every configuration, every first state of ZFS and        *)
(* whatever others do to it meanwhile.  First what SumFunctionOnSet        *)
(* computes.  Then two invariants: Shape says what each step of an         *)
(* invocation may rely on although its three listings may disagree         *)
(* (TornListingAccepted), and Accounts relates the number of snapshots of  *)
(* a dataset to what was listed and done so far (CountsTrue).              *)
(*                                                                         *)
(* StatusCache, for every set of processes and every number of versions.   *)
(* The argument goes from the lock to the file.  One process at a time     *)
(* holds the lock (OneWriter), so the version it writes is the newest one  *)
(* (WritesNewest) and not the one anyone reads (Apart).  It gets the name  *)
(* of the cache only when it is whole and on the disk (Progress), hence    *)
(* whatever the name may stand for, before or after a power failure, is    *)
(* whole, on the disk and no older than what was acknowledged (Published). *)
(***************************************************************************)
EXTENDS StatusCache, Inventory, FiniteSetTheorems, WellFoundedInduction, TLAPS

-----------------------------------------------------------------------------
(* Sums *)

\* Of any numbers there is a least one.
LEMMA Least ==
  ASSUME NEW T, T \subseteq Nat, T # {}
  PROVE  \E n \in T : \A m \in T : n <= m
<1>1. PICK n \in T : \A m \in T : <<m, n>> \notin OpToRel(<, Nat)
  BY NatLessThanWellFounded, WFMin
<1>2. ASSUME NEW m \in T PROVE n <= m
  <2>1. ~(m < n)
    BY <1>1 DEF OpToRel
  <2> QED BY <2>1
<1> QED BY <1>2

\* The member the library takes first.
First(s) == CHOOSE x \in s : TRUE

\* g holds the sums of f over the subsets of S.
Accumulates(g, f, S) ==
  g = [s \in SUBSET S |-> IF s = {} THEN 0 ELSE f[First(s)] + g[s \ {First(s)}]]

\* What the library computes.
LEMMA SumDefinition ==
  ASSUME NEW f, NEW S
  PROVE  SumFunctionOnSet(f, S) = (CHOOSE g : Accumulates(g, f, S))[S]
BY DEF SumFunctionOnSet, FoldFunctionOnSet, MapThenFoldSet, Accumulates, First

\* The first member is one.
LEMMA FirstIsMember == ASSUME NEW s, s # {} PROVE First(s) \in s
BY DEF First

\* One less is left when a member is taken out.
LEMMA Fewer ==
  ASSUME NEW s, IsFiniteSet(s), NEW x \in s
  PROVE  /\ IsFiniteSet(s \ {x}) /\ Cardinality(s \ {x}) \in Nat
         /\ Cardinality(s) \in Nat /\ Cardinality(s) = Cardinality(s \ {x}) + 1
<1>1. IsFiniteSet(s \ {x}) /\ Cardinality(s \ {x}) = Cardinality(s) - 1
  BY FS_RemoveElement
<1>2. Cardinality(s) \in Nat /\ Cardinality(s \ {x}) \in Nat
  BY <1>1, FS_CardinalityType
<1> QED BY <1>1, <1>2

\* The sums of f over the subsets of S with at most n members.
SumsUpTo(g, f, S, n) ==
  /\ g \in [{s \in SUBSET S : Cardinality(s) <= n} -> Nat]
  /\ \A s \in SUBSET S :
       Cardinality(s) <= n =>
         g[s] = IF s = {} THEN 0 ELSE f[First(s)] + g[s \ {First(s)}]

\* Numbers can be summed over any finite set.
LEMMA SumsExist ==
  ASSUME NEW S, IsFiniteSet(S), NEW f, \A x \in S : f[x] \in Nat, NEW n \in Nat
  PROVE  \E g : SumsUpTo(g, f, S, n)
<1> DEFINE Missing == {m \in Nat : ~\E g : SumsUpTo(g, f, S, m)}
<1> HIDE DEF Missing
<1> SUFFICES ASSUME Missing # {} PROVE FALSE
  BY DEF Missing
<1>1. PICK m \in Missing : \A k \in Missing : m <= k
  BY Least DEF Missing
<1>2. m \in Nat /\ ~\E g : SumsUpTo(g, f, S, m)
  BY DEF Missing
<1>3. \A s \in SUBSET S : IsFiniteSet(s) /\ Cardinality(s) \in Nat /\ (Cardinality(s) = 0 <=> s = {})
  BY FS_Subset, FS_CardinalityType, FS_EmptySet
<1>4. CASE m = 0
  <2> DEFINE g == [s \in {s \in SUBSET S : Cardinality(s) <= 0} |-> 0]
  <2>1. \A s \in SUBSET S : Cardinality(s) <= 0 => s = {}
    BY <1>3
  <2>2. SumsUpTo(g, f, S, 0)
    BY <2>1 DEF SumsUpTo
  <2> QED BY <1>2, <1>4, <2>2
<1>5. CASE m # 0
  <2>1. m - 1 \in Nat /\ m - 1 \notin Missing
    BY <1>1, <1>2, <1>5
  <2>2. PICK h : SumsUpTo(h, f, S, m - 1)
    BY <2>1 DEF Missing
  <2> DEFINE g == [s \in {s \in SUBSET S : Cardinality(s) <= m} |->
                     IF s = {} THEN 0 ELSE f[First(s)] + h[s \ {First(s)}]]
  <2>3. ASSUME NEW s \in SUBSET S, s # {}, Cardinality(s) <= m
        PROVE  /\ s \ {First(s)} \in SUBSET S /\ f[First(s)] \in Nat
               /\ Cardinality(s \ {First(s)}) <= m - 1
    <3>1. First(s) \in s
      BY <2>3, FirstIsMember
    <3>2. Cardinality(s \ {First(s)}) \in Nat /\ Cardinality(s) = Cardinality(s \ {First(s)}) + 1
      BY <3>1, <1>3, Fewer
    <3> QED BY <3>1, <3>2, <2>3, <1>2
  <2>4. g \in [{s \in SUBSET S : Cardinality(s) <= m} -> Nat]
    <3>1. ASSUME NEW s \in SUBSET S, s # {}, Cardinality(s) <= m
          PROVE  h[s \ {First(s)}] \in Nat
      BY <3>1, <2>2, <2>3 DEF SumsUpTo
    <3> QED BY <3>1, <2>3
  <2>5. ASSUME NEW s \in SUBSET S, Cardinality(s) <= m - 1
        PROVE  h[s] = g[s]
    <3>1. Cardinality(s) <= m
      BY <2>5, <1>2, <1>3
    <3> QED BY <3>1, <2>2, <2>5 DEF SumsUpTo
  <2>6. \A s \in SUBSET S :
          Cardinality(s) <= m => g[s] = IF s = {} THEN 0 ELSE f[First(s)] + g[s \ {First(s)}]
    BY <2>3, <2>5
  <2>7. SumsUpTo(g, f, S, m)
    BY <2>4, <2>6 DEF SumsUpTo
  <2> QED BY <1>2, <2>7
<1> QED BY <1>4, <1>5

\* Two accumulations agree where both are defined.
LEMMA SumsAgree ==
  ASSUME NEW f, NEW S, NEW T, NEW g, NEW h, Accumulates(g, f, S), Accumulates(h, f, T),
         IsFiniteSet(S), NEW s \in SUBSET S, s \in SUBSET T
  PROVE  g[s] = h[s]
<1> DEFINE Both == {t \in SUBSET S : t \in SUBSET T /\ g[t] # h[t]}
           Sizes == {Cardinality(t) : t \in Both}
<1> HIDE DEF Both, Sizes
<1> SUFFICES ASSUME Both # {} PROVE FALSE
  BY DEF Both
<1>1. \A t \in SUBSET S : IsFiniteSet(t) /\ Cardinality(t) \in Nat
  BY FS_Subset, FS_CardinalityType
<1>2. Sizes \subseteq Nat /\ Sizes # {}
  BY <1>1 DEF Sizes, Both
<1>3. PICK n \in Sizes : \A m \in Sizes : n <= m
  BY <1>2, Least
<1>4. PICK t \in Both : n = Cardinality(t)
  BY DEF Sizes
<1>5. t \in SUBSET S /\ t \in SUBSET T /\ g[t] # h[t]
  BY DEF Both
<1>6. t # {}
  BY <1>5 DEF Accumulates
<1>7. First(t) \in t
  BY <1>6, FirstIsMember
<1> DEFINE rest == t \ {First(t)}
<1>8. rest \in SUBSET S /\ rest \in SUBSET T
  BY <1>5
<1>9. Cardinality(rest) \in Nat /\ Cardinality(t) = Cardinality(rest) + 1
  BY <1>1, <1>5, <1>7, Fewer
<1>10. g[t] = f[First(t)] + g[rest] /\ h[t] = f[First(t)] + h[rest]
  BY <1>5, <1>6 DEF Accumulates
<1>11. rest \in Both
  BY <1>5, <1>8, <1>10 DEF Both
<1>12. Cardinality(rest) \in Sizes
  BY <1>11 DEF Sizes
<1> QED BY <1>3, <1>4, <1>9, <1>12

\* The library's sums are an accumulation.
LEMMA SumAccumulates ==
  ASSUME NEW S, IsFiniteSet(S), NEW f, \A x \in S : f[x] \in Nat
  PROVE  \E g \in [SUBSET S -> Nat] : Accumulates(g, f, S) /\ SumFunctionOnSet(f, S) = g[S]
<1> DEFINE n == Cardinality(S)
<1>1. n \in Nat /\ \A s \in SUBSET S : Cardinality(s) <= n
  BY FS_CardinalityType, FS_Subset
<1> HIDE DEF n
<1>2. PICK g : SumsUpTo(g, f, S, n)
  BY <1>1, SumsExist
<1>3. g \in [SUBSET S -> Nat] /\ Accumulates(g, f, S)
  <2>1. {s \in SUBSET S : Cardinality(s) <= n} = SUBSET S
    BY <1>1
  <2> QED BY <1>1, <1>2, <2>1 DEF SumsUpTo, Accumulates
<1> DEFINE h == CHOOSE h : Accumulates(h, f, S)
<1>4. Accumulates(h, f, S)
  BY <1>3
<1>5. SumFunctionOnSet(f, S) = h[S]
  BY SumDefinition
<1> HIDE DEF h
<1>6. h[S] = g[S]
  BY <1>3, <1>4, SumsAgree
<1> QED BY <1>3, <1>5, <1>6

\* A sum is a number; the first member's share is added to that of the rest.
LEMMA SumUnfolds ==
  ASSUME NEW S, IsFiniteSet(S), NEW f, \A x \in S : f[x] \in Nat
  PROVE  /\ SumFunctionOnSet(f, S) \in Nat
         /\ S = {} => SumFunctionOnSet(f, S) = 0
         /\ S # {} => SumFunctionOnSet(f, S)
                        = f[First(S)] + SumFunctionOnSet(f, S \ {First(S)})
<1>1. PICK g \in [SUBSET S -> Nat] : Accumulates(g, f, S) /\ SumFunctionOnSet(f, S) = g[S]
  BY SumAccumulates
<1>2. SumFunctionOnSet(f, S) \in Nat
  BY <1>1
<1>3. ASSUME S = {} PROVE SumFunctionOnSet(f, S) = 0
  BY <1>1, <1>3 DEF Accumulates
<1>4. ASSUME S # {}
      PROVE  SumFunctionOnSet(f, S) = f[First(S)] + SumFunctionOnSet(f, S \ {First(S)})
  <2> DEFINE R == S \ {First(S)}
  <2>1. IsFiniteSet(R) /\ R \in SUBSET S
    BY FS_Subset
  <2>2. \A x \in R : f[x] \in Nat
    BY <2>1
  <2> HIDE DEF R
  <2>3. PICK h \in [SUBSET R -> Nat] : Accumulates(h, f, R) /\ SumFunctionOnSet(f, R) = h[R]
    BY <2>1, <2>2, SumAccumulates
  <2>4. g[R] = h[R]
    BY <1>1, <2>1, <2>3, SumsAgree
  <2>5. g[S] = f[First(S)] + g[R]
    BY <1>1, <1>4 DEF Accumulates, R
  <2> QED BY <1>1, <2>3, <2>4, <2>5 DEF R
<1> QED BY <1>2, <1>3, <1>4

\* Its order does not matter: any member's share can be taken out.
LEMMA SumRemove ==
  ASSUME NEW S, IsFiniteSet(S), NEW f, \A x \in S : f[x] \in Nat, NEW y \in S
  PROVE  SumFunctionOnSet(f, S) = f[y] + SumFunctionOnSet(f, S \ {y})
<1> DEFINE Total(s) == SumFunctionOnSet(f, s)
           Wrong == {s \in SUBSET S : \E x \in s : Total(s) # f[x] + Total(s \ {x})}
           Sizes == {Cardinality(s) : s \in Wrong}
<1>1. \A s \in SUBSET S : IsFiniteSet(s) /\ Cardinality(s) \in Nat
  BY FS_Subset, FS_CardinalityType
<1>2. ASSUME NEW s \in SUBSET S
      PROVE  Total(s) \in Nat /\ (s # {} => Total(s) = f[First(s)] + Total(s \ {First(s)}))
  <2>1. IsFiniteSet(s) /\ \A x \in s : f[x] \in Nat
    BY <1>1
  <2> QED BY <2>1, SumUnfolds
<1> HIDE DEF Total, Wrong, Sizes
<1> SUFFICES ASSUME Wrong # {} PROVE FALSE
  BY DEF Wrong, Total
<1>3. Sizes \subseteq Nat /\ Sizes # {}
  BY <1>1 DEF Sizes, Wrong
<1>4. PICK n \in Sizes : \A m \in Sizes : n <= m
  BY <1>3, Least
<1>5. PICK s \in Wrong : n = Cardinality(s)
  BY DEF Sizes
<1>6. s \in SUBSET S
  BY DEF Wrong
<1>7. PICK x \in s : Total(s) # f[x] + Total(s \ {x})
  BY DEF Wrong
<1> DEFINE z == First(s)
<1>8. z \in s /\ Total(s) = f[z] + Total(s \ {z})
  BY <1>2, <1>6, <1>7, FirstIsMember
<1> HIDE DEF z
<1>9. x # z
  BY <1>7, <1>8
<1>10. ASSUME NEW u \in s
       PROVE  s \ {u} \in SUBSET S /\ s \ {u} \notin Wrong
  <2>1. Cardinality(s \ {u}) \in Nat /\ Cardinality(s) = Cardinality(s \ {u}) + 1
    BY <1>1, <1>6, Fewer
  <2>2. Cardinality(s \ {u}) \notin Sizes
    BY <1>4, <1>5, <2>1
  <2> QED BY <1>6, <2>2 DEF Sizes
<1>11. Total(s \ {z}) = f[x] + Total((s \ {z}) \ {x})
  BY <1>7, <1>8, <1>9, <1>10 DEF Wrong
<1>12. Total(s \ {x}) = f[z] + Total((s \ {x}) \ {z})
  BY <1>7, <1>8, <1>9, <1>10 DEF Wrong
<1>13. (s \ {z}) \ {x} = (s \ {x}) \ {z}
  OBVIOUS
<1>14. f[x] \in Nat /\ f[z] \in Nat /\ Total((s \ {x}) \ {z}) \in Nat
  BY <1>2, <1>6, <1>7, <1>8
<1> QED BY <1>7, <1>8, <1>11, <1>12, <1>13, <1>14

\* Larger shares make a larger sum.
LEMMA SumGrows ==
  ASSUME NEW S, IsFiniteSet(S), NEW f, NEW g, \A x \in S : f[x] \in Nat /\ g[x] \in Nat /\ f[x] <= g[x]
  PROVE  SumFunctionOnSet(f, S) <= SumFunctionOnSet(g, S)
<1> DEFINE F(s) == SumFunctionOnSet(f, s)
           G(s) == SumFunctionOnSet(g, s)
           Wrong == {s \in SUBSET S : ~(F(s) <= G(s))}
           Sizes == {Cardinality(s) : s \in Wrong}
<1>1. \A s \in SUBSET S : IsFiniteSet(s) /\ Cardinality(s) \in Nat
  BY FS_Subset, FS_CardinalityType
<1>2. ASSUME NEW s \in SUBSET S
      PROVE  /\ F(s) \in Nat /\ G(s) \in Nat
             /\ s = {} => F(s) = 0
             /\ s # {} => F(s) = f[First(s)] + F(s \ {First(s)})
             /\ s # {} => G(s) = g[First(s)] + G(s \ {First(s)})
  <2>1. IsFiniteSet(s) /\ (\A x \in s : f[x] \in Nat) /\ (\A x \in s : g[x] \in Nat)
    BY <1>1
  <2> QED BY <2>1, SumUnfolds
<1> HIDE DEF F, G, Wrong, Sizes
<1> SUFFICES ASSUME Wrong # {} PROVE FALSE
  BY DEF Wrong, F, G
<1>3. Sizes \subseteq Nat /\ Sizes # {}
  BY <1>1 DEF Sizes, Wrong
<1>4. PICK n \in Sizes : \A m \in Sizes : n <= m
  BY <1>3, Least
<1>5. PICK s \in Wrong : n = Cardinality(s)
  BY DEF Sizes
<1>6. s \in SUBSET S /\ ~(F(s) <= G(s))
  BY DEF Wrong
<1>7. s # {}
  BY <1>2, <1>6
<1> DEFINE z == First(s)
<1>8. z \in s /\ F(s) = f[z] + F(s \ {z}) /\ G(s) = g[z] + G(s \ {z})
  BY <1>2, <1>6, <1>7, FirstIsMember
<1> HIDE DEF z
<1>9. s \ {z} \in SUBSET S /\ s \ {z} \notin Wrong
  <2>1. Cardinality(s \ {z}) \in Nat /\ Cardinality(s) = Cardinality(s \ {z}) + 1
    BY <1>1, <1>6, <1>8, Fewer
  <2>2. Cardinality(s \ {z}) \notin Sizes
    BY <1>4, <1>5, <2>1
  <2> QED BY <1>6, <2>2 DEF Sizes
<1>10. F(s \ {z}) <= G(s \ {z}) /\ F(s \ {z}) \in Nat /\ G(s \ {z}) \in Nat
  BY <1>2, <1>9 DEF Wrong
<1>11. f[z] \in Nat /\ g[z] \in Nat /\ f[z] <= g[z]
  BY <1>6, <1>8
<1> QED BY <1>6, <1>8, <1>10, <1>11

-----------------------------------------------------------------------------
(* What an invocation may rely on *)

\* Finitely many datasets with finitely many snapshots each.
Holds(z) == IsFiniteSet(DOMAIN z) /\ \A d \in DOMAIN z : IsFiniteSet(z[d])

\* Where `zfs list -r` looks.
Beneath == {d \in Names : \E root \in Configured : d = root \/ Below(d, root)}

\* The steps after each of the listings, and after the plan.
AfterDatasets == {"snapshots", "pools", "resolve", "execute", "cache"}
AfterSnapshots == {"pools", "resolve", "execute", "cache"}
AfterPools == {"resolve", "execute", "cache"}
AfterPlan == {"execute", "cache"}

\* The configuration is one of those given; ZFS stays small and well named.
World ==
  /\ config \in Configurations
  /\ DOMAIN zfs \subseteq Names /\ Holds(zfs)

\* Each listing stays beneath the configured datasets, whatever was there when.
Listings ==
  /\ inventory \subseteq Beneath /\ IsFiniteSet(inventory)
  /\ DOMAIN snapshots \subseteq Beneath /\ Holds(snapshots)
  /\ \A p \in DOMAIN pools : pools[p] <= 100

\* Nothing is known before it was asked for.
Blank ==
  /\ step \notin AfterDatasets => inventory = {}
  /\ step \notin AfterSnapshots => snapshots = <<>>
  /\ step \notin AfterPools => pools = <<>> /\ todo = {} /\ resolved = <<>>
  /\ step \notin AfterPlan => plan = NoPlan
  /\ step # "execute" => work = [snapshots |-> {}, prunes |-> {}] /\ broken = {}

\* The first listing has the configured datasets, the third one their pools.
Ready ==
  /\ step \in AfterDatasets => Configured \subseteq inventory
  /\ step \in AfterPools => DOMAIN pools = {PoolOf(d) : d \in Configured}

\* A status is never planned.
Planning ==
  /\ mode \in {"all", "snapshot", "prune", "status"}
  /\ step \in {"resolve", "execute"} => mode # "status"

\* Only listed datasets are resolved, and no configured one is missing.
Resolution == ~failed /\ todo \subseteq Configured /\ DOMAIN resolved \subseteq inventory

ManagedOf(s) == {x \in s : x.managed}

\* A plan takes snapshots of finitely many kinds and destroys managed ones that
\* were listed.
Planned ==
  /\ IsFiniteSet(DOMAIN plan.snapshots)
  /\ \A d \in DOMAIN plan.snapshots : plan.snapshots[d].kinds \subseteq SnapshotKinds
  /\ \A d \in DOMAIN plan.prunes : plan.prunes[d] \subseteq ManagedOf(Known(d))
  /\ work \in [snapshots : SUBSET DOMAIN plan.snapshots, prunes : SUBSET DOMAIN plan.prunes]

Shape == World /\ Listings /\ Blank /\ Ready /\ Planning /\ Resolution /\ Planned

-----------------------------------------------------------------------------
(* How many snapshots a dataset has *)

\* The actions of the plan that take snapshots of a dataset, and how many of
\* them are taken and of those to be destroyed are gone.
ActionsFor(d) ==
  {root \in DOMAIN plan.snapshots : d = root \/ (plan.snapshots[root].recursive /\ Below(d, root))}
TakenYet(d) == SumFunctionOnSet(KindsOf, ActionsFor(d) \ work.snapshots)
GoneYet(d) ==
  IF d \in DOMAIN plan.prunes \ work.prunes THEN Cardinality(plan.prunes[d]) ELSE 0

\* Of a dataset nobody else touches the listings show what there is.
Seen ==
  \A d \in Names \ touched :
    /\ step \in AfterDatasets => (d \in inventory <=> d \in Listed)
    /\ d \in DOMAIN snapshots => d \in Listed

\* While nothing failed, it has what was listed and what was taken, without what
\* was destroyed.
Balance ==
  step \in AfterSnapshots /\ broken = {} =>
    \A d \in Listed \ touched :
      /\ Cardinality(zfs[d]) + GoneYet(d) = Cardinality(Known(d)) + TakenYet(d)
      /\ Cardinality(ManagedOf(zfs[d])) + GoneYet(d)
           = Cardinality(ManagedOf(Known(d))) + TakenYet(d)

Accounts == Seen /\ Balance /\ CountsTrue

-----------------------------------------------------------------------------
(* Shape is invariant *)


\* A name that begins with another one is in the same pool.
LEMMA SamePool ==
  ASSUME NEW d \in Names, NEW root \in Names, d = root \/ Below(d, root)
  PROVE  PoolOf(d) = PoolOf(root)
<1>1. d \in Seq(Range(d)) /\ root \in Seq(Range(root)) /\ root # <<>>
  BY ResolveAssumption, InventoryAssumption DEF IsName
<1> DEFINE R == Range(d) \cup Range(root)
<1>2. d \in Seq(R) /\ root \in Seq(R)
  BY <1>1
<1> HIDE DEF R
<1>3. CASE Below(d, root)
  <2>1. Len(root) <= Len(d) /\ SubSeq(root, 1, Len(root)) = SubSeq(d, 1, Len(root))
    BY <1>3 DEF Below, IsPrefix
  <2>2. Len(root) \in Nat /\ Len(root) # 0
    BY <1>1, <1>2
  <2>3. SubSeq(root, 1, Len(root))[1] = root[1] /\ SubSeq(d, 1, Len(root))[1] = d[1]
    BY <1>2, <2>1, <2>2
  <2>4. ASSUME NEW s \in Seq(R), s # <<>> PROVE Head(s) = s[1]
    BY ONLY s \in Seq(R), s # <<>>
  <2>5. d # <<>>
    BY <1>2, <2>1, <2>2
  <2> QED BY <1>1, <1>2, <2>1, <2>3, <2>4, <2>5 DEF PoolOf
<1> QED BY <1>3

\* Whatever is beneath a configured dataset is in the pool of a configured one.
LEMMA PoolListed ==
  ASSUME World, NEW d \in Beneath
  PROVE  PoolOf(d) \in {PoolOf(root) : root \in Configured}
<1>1. Configured \subseteq Names
  BY ResolveAssumption DEF World, Configured
<1> QED BY <1>1, SamePool DEF Beneath

\* A snapshot of each kind is taken.
LEMMA NewSnapshots ==
  ASSUME NEW d, IsFiniteSet(plan.snapshots[d].kinds)
  PROVE  IsFiniteSet(New(d)) /\ Cardinality(New(d)) = Cardinality(plan.snapshots[d].kinds)
<1> DEFINE kinds == plan.snapshots[d].kinds
           f == [k \in kinds |-> [kind |-> k, at |-> clock, managed |-> TRUE, protected |-> FALSE]]
<1>1. \A k \in kinds : f[k] \in New(d)
  BY DEF New
<1>2. ASSUME NEW s \in New(d) PROVE s.kind \in kinds /\ f[s.kind] = s
  <2>1. s = [kind |-> s.kind, at |-> s.at, managed |-> s.managed, protected |-> s.protected]
    BY DEF New
  <2>2. s.kind \in kinds /\ s.at = clock /\ s.managed = TRUE /\ s.protected = FALSE
    BY DEF New
  <2> QED BY <2>1, <2>2
<1>3. ASSUME NEW j \in kinds, NEW k \in kinds, f[j] = f[k] PROVE j = k
  <2>1. f[j].kind = j /\ f[k].kind = k
    OBVIOUS
  <2> QED BY <1>3, <2>1
<1>4. f \in [kinds -> New(d)]
  BY <1>1
<1> HIDE DEF f
<1>5. f \in Bijection(kinds, New(d))
  BY <1>2, <1>3, <1>4 DEF Bijection, Injection, Surjection, IsInjective
<1>6. ExistsBijection(kinds, New(d))
  BY <1>5 DEF ExistsBijection
<1> QED BY <1>6, FS_Bijection

\* Others only change datasets that count as touched.
LEMMA OthersTouch ==
  ASSUME World, Others
  PROVE  /\ World'
         /\ touched \subseteq touched'
         /\ \A d : d \notin touched' =>
              (d \in DOMAIN zfs <=> d \in DOMAIN zfs') /\ (d \in DOMAIN zfs => zfs'[d] = zfs[d])
         /\ UNCHANGED <<clock, resolveVars, step, mode, snapshots, pools, plan, work, broken, cache>>
<1>1. PICK d \in Names :
        \/ CreateDataset(d) \/ DestroyDataset(d)
        \/ \E k \in SnapshotKinds \cup {"foreign"} : TakeOther(d, k)
        \/ d \in DOMAIN zfs /\ \E s \in zfs[d] : DestroySnapshot(d, s)
  BY DEF Others
<1>2. CASE CreateDataset(d)
  <2>1. IsFiniteSet(DOMAIN zfs \cup {d}) /\ IsFiniteSet({})
    BY FS_AddElement, FS_EmptySet DEF World, Holds
  <2> QED BY <1>2, <2>1 DEF CreateDataset, Change, World, Holds, resolveVars
<1>3. CASE DestroyDataset(d)
  <2> DEFINE gone == {e \in DOMAIN zfs : e = d \/ Below(e, d)}
  <2>1. Change(gone, [e \in DOMAIN zfs \ gone |-> zfs[e]])
    BY <1>3 DEF DestroyDataset
  <2> HIDE DEF gone
  <2>2. IsFiniteSet(DOMAIN zfs \ gone)
    BY FS_Difference DEF World, Holds
  <2> QED BY <2>1, <2>2 DEF Change, World, Holds, resolveVars
<1>4. ASSUME NEW k \in SnapshotKinds \cup {"foreign"}, TakeOther(d, k)
      PROVE  World' /\ d \in touched' /\ zfs' = [zfs EXCEPT ![d] = zfs'[d]]
  <2> DEFINE other == [kind |-> k, at |-> clock, managed |-> FALSE, protected |-> FALSE]
  <2>1. d \in DOMAIN zfs /\ Change({d}, [zfs EXCEPT ![d] = @ \cup {other}])
    BY <1>4 DEF TakeOther
  <2> HIDE DEF other
  <2>2. IsFiniteSet(zfs[d] \cup {other})
    BY <2>1, FS_AddElement DEF World, Holds
  <2> QED BY <2>1, <2>2 DEF Change, World, Holds, resolveVars
<1>5. ASSUME NEW s \in zfs[d], d \in DOMAIN zfs, DestroySnapshot(d, s)
      PROVE  World' /\ d \in touched' /\ zfs' = [zfs EXCEPT ![d] = zfs'[d]]
  <2>1. IsFiniteSet(zfs[d] \ {s})
    BY <1>5, FS_RemoveElement DEF World, Holds
  <2> QED BY <1>5, <2>1 DEF DestroySnapshot, Change, World, Holds, resolveVars
<1> QED
  BY <1>1, <1>2, <1>3, <1>4, <1>5 DEF CreateDataset, DestroyDataset, TakeOther, DestroySnapshot, Change

\* It holds at first.
LEMMA ShapeInit == InventoryInit => Shape
<1> SUFFICES ASSUME InventoryInit PROVE Shape
  OBVIOUS
<1> USE DEF InventoryInit
<1>1. World
  BY InventoryAssumption DEF World, Holds
<1>2. Listings
  BY FS_EmptySet DEF Listings, Holds
<1>3. Blank /\ Ready /\ Planning /\ Resolution
  BY DEF Blank, Ready, Planning, Resolution, AfterDatasets, AfterSnapshots, AfterPools, AfterPlan
<1>4. Planned
  BY FS_EmptySet DEF Planned, NoPlan
<1> QED BY <1>1, <1>2, <1>3, <1>4 DEF Shape

\* The end of an invocation keeps nothing.
LEMMA EndsKeepsShape ==
  ASSUME Shape, NEW next \in {"idle", "written"}, Ends(next)
  PROVE  Shape'
<1> USE DEF Ends, Shape, world
<1>1. World'
  BY DEF World, Holds
<1>2. Listings'
  BY FS_EmptySet DEF Listings, Holds
<1>3. Blank' /\ Ready' /\ Planning' /\ Resolution'
  BY DEF Blank, Ready, Planning, Resolution, AfterDatasets, AfterSnapshots, AfterPools, AfterPlan
<1>4. Planned'
  BY FS_EmptySet DEF Planned, NoPlan
<1> QED BY <1>1, <1>2, <1>3, <1>4

\* The three listings keep it, even when datasets come and go between them.
LEMMA ListingKeepsShape ==
  ASSUME Shape, ListDatasets \/ ListSnapshots \/ ListPools
  PROVE  Shape'
<1> USE DEF Shape, AfterDatasets, AfterSnapshots, AfterPools, AfterPlan
<1>1. IsFiniteSet(Listed) /\ Listed \subseteq Beneath /\ Listed \subseteq DOMAIN zfs
  BY FS_Subset DEF World, Holds, Listed, Beneath
<1>2. CASE ListDatasets
  <2> USE <1>2 DEF ListDatasets, GoOn, world
  <2>1. World' /\ Beneath' = Beneath
    BY DEF World, Holds, Beneath, Configured
  <2>2. Listings'
    BY <1>1, <2>1 DEF Listings, Holds
  <2>3. Blank' /\ Planning'
    BY DEF Blank, Planning
  <2>4. Configured \subseteq Listed
    BY DEF Listed
  <2>5. Ready' /\ Resolution'
    BY <2>4 DEF Ready, Resolution, Blank, Configured
  <2>6. Planned'
    BY DEF Planned, Known
  <2> QED BY <2>1, <2>2, <2>3, <2>5, <2>6
<1>3. CASE ListSnapshots
  <2> USE <1>3 DEF ListSnapshots, GoOn, world, resolveVars
  <2>1. World' /\ Beneath' = Beneath
    BY DEF World, Holds, Beneath, Configured
  <2>2. DOMAIN snapshots' \subseteq Listed /\ \A d \in DOMAIN snapshots' : snapshots'[d] = zfs[d]
    OBVIOUS
  <2>3. Holds(snapshots')
    BY <1>1, <2>2, FS_Subset DEF World, Holds
  <2>4. Listings'
    BY <1>1, <2>1, <2>2, <2>3 DEF Listings, Holds
  <2>5. Blank' /\ Ready' /\ Planning' /\ Resolution'
    BY DEF Blank, Planning, Ready, Resolution, Configured
  <2>6. Planned'
    BY DEF Planned, Blank, NoPlan
  <2> QED BY <2>1, <2>4, <2>5, <2>6
<1>4. CASE ListPools
  <2> USE <1>4 DEF ListPools, GoOn, world
  <2>1. World' /\ Beneath' = Beneath
    BY DEF World, Holds, Beneath, Configured
  <2>2. DOMAIN pools' = {PoolOf(d) : d \in Configured} /\ \A p \in DOMAIN pools' : pools'[p] <= 100
    <3> DEFINE P == {PoolOf(d) : d \in Configured}
    <3>1. pools' \in [P -> Capacities]
      OBVIOUS
    <3>2. \A c \in Capacities : c <= 100
      BY InventoryAssumption
    <3> HIDE DEF P
    <3>3. DOMAIN pools' = P /\ \A p \in P : pools'[p] \in Capacities
      BY <3>1
    <3> QED BY <3>2, <3>3 DEF P
  <2>3. Listings'
    BY <2>1, <2>2 DEF Listings, Holds
  <2>4. Blank' /\ Ready' /\ Resolution'
    BY <2>2 DEF Blank, Ready, Resolution, Configured
  <2>5. Planning'
    BY DEF Planning
  <2>6. Planned'
    BY DEF Planned, Known
  <2> QED BY <2>1, <2>3, <2>4, <2>5, <2>6
<1> QED BY <1>2, <1>3, <1>4

\* Resolution finds every configured dataset in the first listing.
LEMMA ResolveKeepsShape == ASSUME Shape, ResolveStep PROVE Shape'
<1> USE DEF Shape, AfterDatasets, AfterSnapshots, AfterPools, AfterPlan, ResolveStep, world
<1>1. PICK root \in todo : ResolveSection(root) \/ FailSection(root)
  BY DEF ResolveNext
<1>2. root \in inventory
  BY DEF Ready, Resolution
<1>3. ResolveTargets(root)
  BY <1>1, <1>2 DEF ResolveSection, FailSection
<1>4. UNCHANGED <<config, inventory, failed>> /\ todo' = todo \ {root}
  BY <1>3 DEF ResolveTargets
<1>5. DOMAIN resolved' = Targets(root) \cup DOMAIN resolved
  BY <1>3 DEF ResolveTargets
<1>6. Targets(root) \subseteq inventory
  BY <1>2 DEF Targets
<1>7. World' /\ Listings'
  BY <1>4 DEF World, Listings, Holds, Beneath, Configured
<1>8. Blank' /\ Ready' /\ Planning'
  BY <1>4 DEF Blank, Ready, Planning, Configured
<1>9. Resolution'
  BY <1>4, <1>5, <1>6 DEF Resolution, Configured
<1>10. Planned'
  BY <1>4 DEF Planned, Known
<1> QED BY <1>7, <1>8, <1>9, <1>10

\* The plan is about what was listed.
LEMMA PlanKeepsShape == ASSUME Shape, BuildPlan PROVE Shape'
<1> USE DEF Shape
<1> DEFINE snapping == {d \in DOMAIN resolved : /\ resolved[d].policy.autosnap
                                               /\ resolved[d].strategy.how # "CoveredByRecursive"
                                               /\ DueKinds(d) # {}}
           pruning == {d \in DOMAIN resolved : resolved[d].policy.autoprune}
           excess(d) == UNION {Excess(d, k) : k \in SnapshotKinds}
           cleaning == {d \in pruning : ~Deferred(d)}
           S == [d \in snapping |->
                   [recursive |-> resolved[d].strategy.how = "RecursiveRoot", kinds |-> DueKinds(d)]]
           P == [d \in {d \in cleaning : excess(d) # {}} |-> excess(d)]
           full == [snapshots |-> S, prunes |-> P, deferred |-> pruning \ cleaning,
                    protected |-> [d \in {d \in cleaning : Protected(d) # {}} |-> Protected(d)]]
<1>1. plan' = Filter(full)
  BY DEF BuildPlan
<1>2. step = "resolve" /\ step' = "execute" /\ broken = {}
      /\ UNCHANGED <<world, resolveVars, mode, snapshots, pools, broken, cache>>
      /\ work' = [snapshots |-> DOMAIN plan'.snapshots, prunes |-> DOMAIN plan'.prunes]
  BY DEF BuildPlan, GoOn, Blank
<1>3. IsFiniteSet(DOMAIN S) /\ \A d \in DOMAIN S : S[d].kinds \subseteq SnapshotKinds
  BY FS_Subset DEF Listings, Resolution, DueKinds
<1>4. \A d \in DOMAIN P : P[d] \subseteq ManagedOf(Known(d))
  BY DEF ManagedOf, Excess, OfKind
<1> HIDE DEF S, P
<1>5. full.snapshots = S /\ full.prunes = P
  OBVIOUS
<1> HIDE DEF full
<1>6. /\ plan'.snapshots = S \/ plan'.snapshots = <<>>
      /\ plan'.prunes = P \/ plan'.prunes = <<>>
  <2>1. CASE mode = "all"
    BY <1>1, <1>5, <2>1 DEF Filter
  <2>2. CASE mode = "snapshot"
    BY <1>1, <1>5, <2>2 DEF Filter, NoPlan
  <2>3. CASE mode = "prune"
    <3>1. plan' = [full EXCEPT !.snapshots = <<>>]
      BY <1>1, <2>3 DEF Filter
    <3> QED BY <1>5, <3>1 DEF full
  <2> QED BY <1>2, <2>1, <2>2, <2>3 DEF Planning
<1>7. /\ IsFiniteSet(DOMAIN plan'.snapshots)
      /\ \A d \in DOMAIN plan'.snapshots : plan'.snapshots[d].kinds \subseteq SnapshotKinds
      /\ \A d \in DOMAIN plan'.prunes : plan'.prunes[d] \subseteq ManagedOf(Known(d))
  BY <1>3, <1>4, <1>6, FS_EmptySet
<1>8. Planned'
  BY <1>2, <1>7 DEF Planned, Known, ManagedOf
<1>9. World' /\ Listings' /\ Resolution'
  BY <1>2 DEF world, resolveVars, World, Listings, Resolution, Holds, Beneath, Configured
<1>10. Blank' /\ Ready' /\ Planning'
  BY <1>2 DEF world, resolveVars, Blank, Ready, Planning, Configured, AfterDatasets,
              AfterSnapshots, AfterPools, AfterPlan
<1> QED BY <1>8, <1>9, <1>10

\* So do the commands: those they destroy leave, those they take arrive.
LEMMA CommandKeepsShape ==
  ASSUME Shape, NEW d, ExecuteSnapshot(d) \/ ExecutePrune(d) \/ ExecuteFails(d)
  PROVE  Shape'
<1> USE DEF Shape
<1>1. /\ step = "execute"
      /\ UNCHANGED <<clock, changes, touched, resolveVars, step, mode, snapshots, pools, plan, cache>>
  BY DEF ExecuteSnapshot, ExecutePrune, ExecuteFails, MayPrune, world
<1>2. work' \in [snapshots : SUBSET DOMAIN plan.snapshots, prunes : SUBSET DOMAIN plan.prunes]
  BY DEF ExecuteSnapshot, ExecutePrune, ExecuteFails, Planned
<1>3. DOMAIN zfs' = DOMAIN zfs /\ \A e \in DOMAIN zfs : IsFiniteSet(zfs'[e])
  <2>1. CASE ExecuteSnapshot(d)
    <3>1. d \in DOMAIN plan.snapshots
      BY <2>1 DEF ExecuteSnapshot, Planned
    <3>2. IsFiniteSet(New(d))
      BY <3>1, FS_Subset, NewSnapshots, InventoryAssumption DEF Planned
    <3>3. \A e \in DOMAIN zfs : IsFiniteSet(zfs[e] \cup New(d))
      BY <3>2, FS_Union DEF World, Holds
    <3>4. zfs' = [e \in DOMAIN zfs |-> IF e \in Reached(d) THEN zfs[e] \cup New(d) ELSE zfs[e]]
      BY <2>1 DEF ExecuteSnapshot
    <3> QED BY <3>3, <3>4 DEF World, Holds
  <2>2. CASE ExecutePrune(d)
    <3>1. zfs' = [zfs EXCEPT ![d] = @ \ plan.prunes[d]]
      BY <2>2 DEF ExecutePrune
    <3>2. \A e \in DOMAIN zfs : IsFiniteSet(zfs[e] \ plan.prunes[d])
      BY FS_Difference DEF World, Holds
    <3> QED BY <3>1, <3>2 DEF World, Holds
  <2>3. CASE ExecuteFails(d)
    BY <2>3 DEF ExecuteFails, world, World, Holds
  <2> QED BY <2>1, <2>2, <2>3
<1>4. World' /\ Listings' /\ Resolution'
  BY <1>1, <1>3 DEF resolveVars, World, Listings, Resolution, Holds, Beneath, Configured
<1>5. Blank' /\ Ready' /\ Planning'
  BY <1>1 DEF resolveVars, Blank, Ready, Planning, Configured, AfterDatasets,
              AfterSnapshots, AfterPools, AfterPlan
<1>6. Planned'
  BY <1>1, <1>2 DEF Planned, Known
<1> QED BY <1>4, <1>5, <1>6

\* Every step keeps it.
LEMMA ShapeNext == Shape /\ [InventoryNext]_inventoryVars => Shape'
<1> SUFFICES ASSUME Shape, [InventoryNext]_inventoryVars PROVE Shape'
  OBVIOUS
<1> USE DEF Shape
<1>1. CASE Begin
  <2> USE <1>1 DEF Begin, GoOn
  <2>1. World' /\ Listings' /\ Resolution' /\ Planned'
    BY DEF resolveVars, World, Listings, Resolution, Planned, Known, Holds, Beneath, Configured
  <2>2. Blank' /\ Ready' /\ Planning'
    BY DEF resolveVars, Blank, Ready, Planning, Configured, AfterDatasets, AfterSnapshots,
           AfterPools, AfterPlan
  <2> QED BY <2>1, <2>2
<1>2. CASE ListDatasets \/ ListSnapshots \/ ListPools
  BY <1>2, ListingKeepsShape
<1>3. CASE DiscoverFails
  BY <1>3, EndsKeepsShape DEF DiscoverFails
<1>4. CASE ResolveStep
  BY <1>4, ResolveKeepsShape
<1>5. CASE BuildPlan
  BY <1>5, PlanKeepsShape
<1>6. ASSUME NEW d \in Names, ExecuteSnapshot(d) \/ ExecutePrune(d) \/ ExecuteFails(d)
      PROVE  Shape'
  BY <1>6, CommandKeepsShape
<1>7. CASE Executed
  <2>1. CASE broken = {}
    <3> USE <1>7, <2>1 DEF Executed, GoOn
    <3>1. World' /\ Listings' /\ Resolution' /\ Planned'
      BY DEF world, resolveVars, World, Listings, Resolution, Planned, Known, Holds, Beneath,
             Configured
    <3>2. Blank' /\ Ready' /\ Planning'
      BY DEF resolveVars, Blank, Ready, Planning, Configured, AfterDatasets, AfterSnapshots,
             AfterPools, AfterPlan
    <3> QED BY <3>1, <3>2
  <2>2. CASE broken # {}
    BY <1>7, <2>2, EndsKeepsShape DEF Executed
  <2> QED BY <2>1, <2>2
<1>8. CASE WriteCache
  BY <1>8, EndsKeepsShape DEF WriteCache
<1>9. CASE Others
  <2>1. /\ World'
        /\ UNCHANGED <<resolveVars, step, mode, snapshots, pools, plan, work, broken, cache>>
    BY <1>9, OthersTouch
  <2>2. Listings' /\ Resolution' /\ Planned'
    BY <2>1 DEF resolveVars, Listings, Resolution, Planned, Known, Holds, Beneath, Configured
  <2>3. Blank' /\ Ready' /\ Planning'
    BY <2>1 DEF resolveVars, Blank, Ready, Planning, Configured, AfterDatasets, AfterSnapshots,
                AfterPools, AfterPlan
  <2> QED BY <2>1, <2>2, <2>3
<1>10. CASE UNCHANGED inventoryVars
  <2> USE <1>10 DEF inventoryVars, world, resolveVars
  <2>1. World' /\ Listings' /\ Resolution' /\ Planned'
    BY DEF World, Listings, Resolution, Planned, Known, Holds, Beneath, Configured
  <2>2. Blank' /\ Ready' /\ Planning'
    BY DEF Blank, Ready, Planning, Configured, AfterDatasets, AfterSnapshots, AfterPools, AfterPlan
  <2> QED BY <2>1, <2>2
<1> QED
  BY <1>1, <1>2, <1>3, <1>4, <1>5, <1>6, <1>7, <1>8, <1>9, <1>10 DEF InventoryNext

\* Shape is invariant.
LEMMA ShapeAlways == InventorySpec => []Shape
BY ShapeInit, ShapeNext, PTL DEF InventorySpec

-----------------------------------------------------------------------------
(* The cache is valid *)

\* What is known of a dataset, and what the plan does to it, can be counted.
LEMMA Countable ==
  ASSUME Shape, NEW d
  PROVE  /\ IsFiniteSet(Known(d)) /\ ManagedOf(Known(d)) \subseteq Known(d)
         /\ Cardinality(ManagedOf(Known(d))) \in Nat /\ Cardinality(Known(d)) \in Nat
         /\ Cardinality(ManagedOf(Known(d))) <= Cardinality(Known(d))
         /\ d \in DOMAIN plan.prunes =>
              IsFiniteSet(plan.prunes[d]) /\ Cardinality(plan.prunes[d]) \in Nat
         /\ \A S \in SUBSET DOMAIN plan.snapshots :
              /\ IsFiniteSet(S)
              /\ \A root \in S : KindsOf[root] \in Nat
              /\ SumFunctionOnSet(KindsOf, S) \in Nat
<1> USE DEF Shape
<1>1. IsFiniteSet(Known(d)) /\ ManagedOf(Known(d)) \subseteq Known(d)
  BY FS_EmptySet DEF Known, ManagedOf, Listings, Holds
<1>2. IsFiniteSet(ManagedOf(Known(d)))
  BY <1>1, FS_Subset
<1>3. /\ Cardinality(ManagedOf(Known(d))) \in Nat /\ Cardinality(Known(d)) \in Nat
      /\ Cardinality(ManagedOf(Known(d))) <= Cardinality(Known(d))
  BY <1>1, <1>2, FS_Subset, FS_CardinalityType
<1>4. ASSUME d \in DOMAIN plan.prunes
      PROVE  IsFiniteSet(plan.prunes[d]) /\ Cardinality(plan.prunes[d]) \in Nat
  <2>1. plan.prunes[d] \subseteq ManagedOf(Known(d))
    BY <1>4 DEF Planned
  <2> QED BY <1>2, <2>1, FS_Subset, FS_CardinalityType
<1>5. ASSUME NEW root \in DOMAIN plan.snapshots PROVE KindsOf[root] \in Nat
  <2>1. IsFiniteSet(plan.snapshots[root].kinds)
    BY FS_Subset, InventoryAssumption DEF Planned
  <2> QED BY <2>1, FS_CardinalityType DEF KindsOf
<1>6. ASSUME NEW S \in SUBSET DOMAIN plan.snapshots
      PROVE  /\ IsFiniteSet(S)
             /\ \A root \in S : KindsOf[root] \in Nat
             /\ SumFunctionOnSet(KindsOf, S) \in Nat
  <2>1. IsFiniteSet(S) /\ \A root \in S : KindsOf[root] \in Nat
    BY <1>5, FS_Subset DEF Planned
  <2> QED BY <2>1, SumUnfolds
<1> QED BY <1>1, <1>3, <1>4, <1>6

\* A dataset does not count more managed snapshots than snapshots.
LEMMA CountsOrdered ==
  ASSUME Shape, NEW d
  PROVE  /\ Counted(d, Known(d)) \in Nat /\ Counted(d, ManagedOf(Known(d))) \in Nat
         /\ Counted(d, ManagedOf(Known(d))) <= Counted(d, Known(d))
<1> DEFINE all == Cardinality(Known(d))
           managed == Cardinality(ManagedOf(Known(d)))
           taken == Taken(d)
           pruned == IF d \in DOMAIN plan.prunes THEN Cardinality(plan.prunes[d]) ELSE 0
<1>1. all \in Nat /\ managed \in Nat /\ managed <= all /\ pruned \in Nat
  BY Countable
<1>2. taken \in Nat
  <2> DEFINE S == {root \in DOMAIN plan.snapshots :
                     d = root \/ (plan.snapshots[root].recursive /\ Below(d, root))}
  <2>1. S \in SUBSET DOMAIN plan.snapshots
    OBVIOUS
  <2> HIDE DEF S
  <2>2. SumFunctionOnSet(KindsOf, S) \in Nat
    BY <2>1, Countable
  <2> QED BY <2>2 DEF Taken, S
<1>3. /\ Counted(d, Known(d)) = SaturatingMinus(all + taken, pruned)
      /\ Counted(d, ManagedOf(Known(d))) = SaturatingMinus(managed + taken, pruned)
  BY DEF Counted
<1> HIDE DEF all, managed, taken, pruned
<1> QED BY <1>1, <1>2, <1>3 DEF SaturatingMinus

\* Totals are sums over what the cache says of its datasets, and no pool has
\* more managed snapshots than snapshots.
LEMMA CacheValid == ASSUME Shape PROVE ValidCache(FromInventory)
<1> DEFINE datasets == [d \in DatasetNames |->
                          [pool |-> PoolOf(d),
                           snapshots |-> Counted(d, Known(d)),
                           managed |-> Counted(d, {s \in Known(d) : s.managed})]]
           members(p) == {d \in DatasetNames : datasets[d].pool = p}
           c == FromInventory
<1>1. /\ c.datasets = datasets
      /\ c.pools = [p \in PoolNames |->
                      [capacity |-> IF p \in DOMAIN pools THEN pools[p] ELSE Unlisted,
                       counts |-> Sums(datasets, members(p))]]
      /\ c.totals = [pools |-> Cardinality(PoolNames), counts |-> Sums(datasets, DatasetNames)]
  BY DEF FromInventory
<1>2. ASSUME NEW d \in DatasetNames
      PROVE  /\ datasets[d].pool = PoolOf(d) /\ PoolOf(d) \in PoolNames
             /\ datasets[d].snapshots \in Nat /\ datasets[d].managed \in Nat
             /\ datasets[d].managed <= datasets[d].snapshots
  <2>1. /\ Counted(d, Known(d)) \in Nat /\ Counted(d, ManagedOf(Known(d))) \in Nat
        /\ Counted(d, ManagedOf(Known(d))) <= Counted(d, Known(d))
    BY CountsOrdered
  <2>2. ManagedOf(Known(d)) = {s \in Known(d) : s.managed}
    BY DEF ManagedOf
  <2> QED BY <2>1, <2>2 DEF PoolNames
<1>3. IsFiniteSet(DatasetNames) /\ DOMAIN datasets = DatasetNames
  BY FS_Union DEF Shape, Listings, Holds, DatasetNames
<1> HIDE DEF datasets, c
<1>4. ASSUME NEW S \in SUBSET DatasetNames
      PROVE  Sums(datasets, S).managed <= Sums(datasets, S).snapshots
  <2> DEFINE f == [d \in DOMAIN datasets |-> datasets[d].managed]
             g == [d \in DOMAIN datasets |-> datasets[d].snapshots]
  <2>1. \A d \in S : f[d] \in Nat /\ g[d] \in Nat /\ f[d] <= g[d]
    BY <1>2, <1>3
  <2>2. IsFiniteSet(S)
    BY <1>3, FS_Subset
  <2>3. Sums(datasets, S).managed = SumFunctionOnSet(f, S)
        /\ Sums(datasets, S).snapshots = SumFunctionOnSet(g, S)
    BY DEF Sums
  <2> HIDE DEF f, g
  <2>4. SumFunctionOnSet(f, S) <= SumFunctionOnSet(g, S)
    BY <2>1, <2>2, SumGrows
  <2> QED BY <2>3, <2>4
<1>5. ASSUME NEW p \in PoolNames
      PROVE  /\ c.pools[p].counts.managed <= c.pools[p].counts.snapshots
             /\ c.pools[p].capacity <= 100
             /\ c.pools[p].counts = Sums(datasets, members(p))
  <2>1. c.pools[p].counts = Sums(datasets, members(p))
    BY <1>1
  <2>2. members(p) \in SUBSET DatasetNames
    OBVIOUS
  <2>3. c.pools[p].capacity <= 100
    BY <1>1 DEF Shape, Listings, Unlisted
  <2> QED BY <1>4, <2>1, <2>2, <2>3
<1>6. DOMAIN c.pools = PoolNames /\ DOMAIN c.datasets = DatasetNames
  BY <1>1, <1>3
<1>7. c.totals = [pools |-> Cardinality(DOMAIN c.pools),
                  counts |-> Sums(c.datasets, DOMAIN c.datasets)]
  BY <1>1, <1>6
<1>8. ValidCache(c)
  BY <1>1, <1>2, <1>5, <1>6, <1>7 DEF ValidCache
<1> QED BY <1>8 DEF c

\* No listing is torn so that a run fails: resolution finds each configured
\* dataset, the planner each pool, and validate agrees with from_inventory,
\* whatever others create and destroy between the three commands.
THEOREM ListingsSuffice == InventorySpec => []TornListingAccepted
<1>1. Shape => TornListingAccepted
  <2> SUFFICES ASSUME Shape PROVE TornListingAccepted
    OBVIOUS
  <2>1. ~failed
    BY DEF Shape, Resolution
  <2>2. ASSUME step = "resolve", NEW d \in DOMAIN resolved PROVE PoolOf(d) \in DOMAIN pools
    BY <2>2, PoolListed DEF Shape, Resolution, Listings, Ready, AfterPools
  <2>3. ValidCache(FromInventory)
    BY CacheValid
  <2> QED BY <2>1, <2>2, <2>3 DEF TornListingAccepted
<1> QED BY <1>1, ShapeAlways, PTL

-----------------------------------------------------------------------------
(* The counts are true *)

\* Disjoint sets add up.
LEMMA Together ==
  ASSUME NEW A, NEW B, IsFiniteSet(A), IsFiniteSet(B), A \cap B = {}
  PROVE  Cardinality(A \cup B) = Cardinality(A) + Cardinality(B)
<1>1. Cardinality(A \cup B) = Cardinality(A) + Cardinality(B) - Cardinality(A \cap B)
  BY FS_Union
<1>2. Cardinality(A \cap B) = 0
  BY FS_EmptySet
<1>3. Cardinality(A) \in Nat /\ Cardinality(B) \in Nat
  BY FS_CardinalityType
<1> QED BY <1>1, <1>2, <1>3

\* What a set loses, it had.
LEMMA Without ==
  ASSUME NEW A, NEW B, IsFiniteSet(A), B \subseteq A
  PROVE  Cardinality(A \ B) + Cardinality(B) = Cardinality(A)
<1>1. A \cap B = B /\ IsFiniteSet(B)
  BY FS_Subset
<1>2. Cardinality(A) \in Nat /\ Cardinality(B) \in Nat
  BY <1>1, FS_CardinalityType
<1>3. Cardinality(A \ B) = Cardinality(A) - Cardinality(A \cap B)
  BY FS_Difference
<1> QED BY <1>1, <1>2, <1>3

\* Nothing sums up to nothing.
LEMMA SumOfNone == ASSUME NEW f PROVE SumFunctionOnSet(f, {}) = 0
BY SumUnfolds, FS_EmptySet

\* In what is in scope of a listing, only what others touch comes and goes.
LEMMA OthersScope ==
  ASSUME World, Others, NEW d, d \notin touched'
  PROVE  d \in Listed' <=> d \in Listed
<1>1. (d \in DOMAIN zfs <=> d \in DOMAIN zfs') /\ config' = config
  BY OthersTouch DEF resolveVars
<1> QED BY <1>1 DEF Listed, Configured

\* At first nothing was listed and nothing was written.
LEMMA AccountsInit == InventoryInit => Accounts
<1> SUFFICES ASSUME InventoryInit PROVE Accounts
  OBVIOUS
<1> USE DEF InventoryInit
<1>1. Seen
  BY DEF Seen, AfterDatasets
<1>2. Balance
  BY DEF Balance, AfterSnapshots
<1>3. CountsTrue
  BY DEF CountsTrue
<1> QED BY <1>1, <1>2, <1>3 DEF Accounts

\* Each listing shows an untouched dataset exactly when it is in scope.
LEMMA SeenNext == Shape /\ Seen /\ [InventoryNext]_inventoryVars => Seen'
<1> SUFFICES ASSUME Shape, Seen, [InventoryNext]_inventoryVars PROVE Seen'
  OBVIOUS
<1> USE DEF AfterDatasets
<1>1. CASE Begin
  <2>1. snapshots' = <<>> /\ step' = "datasets"
    BY <1>1 DEF Begin, GoOn, Shape, Blank, AfterSnapshots
  <2> QED BY <2>1 DEF Seen
<1>2. CASE ListDatasets
  <2>1. snapshots' = <<>> /\ inventory' = Listed /\ Listed' = Listed
    BY <1>2 DEF ListDatasets, Shape, Blank, AfterSnapshots, Listed, Configured, world
  <2> QED BY <2>1 DEF Seen
<1>3. CASE ListSnapshots
  <2>1. /\ step = "snapshots" /\ DOMAIN snapshots' \subseteq Listed /\ Listed' = Listed
        /\ UNCHANGED <<inventory, touched>>
    BY <1>3 DEF ListSnapshots, Listed, Configured, world, resolveVars
  <2> QED BY <2>1 DEF Seen
<1>4. CASE ListPools
  <2>1. step = "pools" /\ Listed' = Listed /\ UNCHANGED <<inventory, snapshots, touched>>
    BY <1>4 DEF ListPools, Listed, Configured, world
  <2> QED BY <2>1 DEF Seen
<1>5. ASSUME NEW next \in {"idle", "written"}, Ends(next) PROVE Seen'
  <2>1. snapshots' = <<>> /\ step' = next
    BY <1>5 DEF Ends
  <2> QED BY <2>1 DEF Seen
<1>6. CASE ResolveStep \/ BuildPlan
  <2>1. step = "resolve" /\ UNCHANGED <<config, zfs, inventory, snapshots, touched>>
    BY <1>6 DEF ResolveStep, BuildPlan, ResolveNext, ResolveSection, ResolveTargets, FailSection,
                world, resolveVars
  <2>2. Listed' = Listed
    BY <2>1 DEF Listed, Configured
  <2> QED BY <2>1, <2>2 DEF Seen
<1>7. ASSUME NEW d \in Names, ExecuteSnapshot(d) \/ ExecutePrune(d) \/ ExecuteFails(d)
      PROVE  Seen'
  <2>1. /\ step = "execute" /\ UNCHANGED <<config, inventory, snapshots, touched>>
        /\ DOMAIN zfs' = DOMAIN zfs
    BY <1>7 DEF ExecuteSnapshot, ExecutePrune, ExecuteFails, MayPrune, world, resolveVars
  <2>2. Listed' = Listed
    BY <2>1 DEF Listed, Configured
  <2> QED BY <2>1, <2>2 DEF Seen
<1>8. CASE Executed /\ broken = {}
  <2>1. /\ step = "execute" /\ Listed' = Listed
        /\ UNCHANGED <<inventory, snapshots, touched>>
    BY <1>8 DEF Executed, Listed, Configured, world, resolveVars
  <2> QED BY <2>1 DEF Seen
<1>9. CASE Others
  <2>1. touched \subseteq touched' /\ UNCHANGED <<resolveVars, step, snapshots>>
    BY <1>9, OthersTouch DEF Shape
  <2>2. \A d \in Names \ touched' : d \in Listed' <=> d \in Listed
    BY <1>9, OthersScope DEF Shape
  <2> QED BY <2>1, <2>2 DEF Seen, resolveVars
<1>10. CASE UNCHANGED inventoryVars
  BY <1>10 DEF inventoryVars, world, resolveVars, Seen, Listed, Configured
<1> QED
  BY <1>1, <1>2, <1>3, <1>4, <1>5, <1>6, <1>7, <1>8, <1>9, <1>10
     DEF InventoryNext, DiscoverFails, Executed, WriteCache

\* What the command of a snapshot action takes is added once, of every dataset
\* the action reaches.
LEMMA SnapshotBalances ==
  ASSUME Shape, Balance, NEW root, ExecuteSnapshot(root), broken = {}, NEW d \in Listed \ touched
  PROVE  /\ Cardinality(zfs'[d]) + GoneYet(d)' = Cardinality(Known(d)) + TakenYet(d)'
         /\ Cardinality(ManagedOf(zfs'[d])) + GoneYet(d)'
              = Cardinality(ManagedOf(Known(d))) + TakenYet(d)'
<1> USE DEF Shape
<1>1. /\ step = "execute" /\ root \in work.snapshots /\ ~Clash(root)
      /\ zfs' = [e \in DOMAIN zfs |-> IF e \in Reached(root) THEN zfs[e] \cup New(root) ELSE zfs[e]]
      /\ work'.snapshots = work.snapshots \ {root} /\ work'.prunes = work.prunes
      /\ UNCHANGED <<clock, snapshots, plan>>
  BY DEF ExecuteSnapshot, Planned
<1>2. /\ Cardinality(zfs[d]) + GoneYet(d) = Cardinality(Known(d)) + TakenYet(d)
      /\ Cardinality(ManagedOf(zfs[d])) + GoneYet(d)
           = Cardinality(ManagedOf(Known(d))) + TakenYet(d)
  BY <1>1 DEF Balance, AfterSnapshots
<1>3. d \in DOMAIN zfs /\ IsFiniteSet(zfs[d]) /\ root \in DOMAIN plan.snapshots
  BY <1>1 DEF World, Holds, Listed, Planned
<1>4. GoneYet(d)' = GoneYet(d)
  BY <1>1 DEF GoneYet
<1>5. KindsOf' = KindsOf /\ ActionsFor(d)' = ActionsFor(d)
  BY <1>1 DEF KindsOf, ActionsFor
<1> DEFINE left == ActionsFor(d) \ work.snapshots
<1>6. TakenYet(d)' = SumFunctionOnSet(KindsOf, ActionsFor(d) \ (work.snapshots \ {root}))
  BY <1>1, <1>5 DEF TakenYet
<1>7. CASE root \notin ActionsFor(d)
  <2>1. ActionsFor(d) \ (work.snapshots \ {root}) = left
    BY <1>7
  <2>2. TakenYet(d)' = TakenYet(d)
    BY <1>6, <2>1 DEF TakenYet
  <2>3. d \notin Reached(root)
    BY <1>3, <1>7 DEF Reached, ActionsFor
  <2>4. zfs'[d] = zfs[d]
    BY <1>1, <1>3, <2>3
  <2> QED BY <1>2, <1>4, <2>2, <2>4
<1>8. CASE root \in ActionsFor(d)
  <2> DEFINE S == left \cup {root}
             taken == New(root)
  <2>1. ActionsFor(d) \ (work.snapshots \ {root}) = S
    BY <1>8
  <2>2. root \in S /\ S \ {root} = left /\ S \subseteq DOMAIN plan.snapshots
    BY <1>1, <1>8 DEF ActionsFor
  <2> HIDE DEF S, left
  <2>3. IsFiniteSet(S) /\ (\A x \in S : KindsOf[x] \in Nat) /\ SumFunctionOnSet(KindsOf, left) \in Nat
    <3>1. S \in SUBSET DOMAIN plan.snapshots /\ left \in SUBSET DOMAIN plan.snapshots
      BY <2>2
    <3> QED BY <3>1, Countable
  <2>4. SumFunctionOnSet(KindsOf, S) = KindsOf[root] + SumFunctionOnSet(KindsOf, S \ {root})
    BY <2>2, <2>3, SumRemove
  <2>5. TakenYet(d)' = KindsOf[root] + TakenYet(d) /\ KindsOf[root] \in Nat
    BY <1>6, <2>1, <2>2, <2>3, <2>4 DEF TakenYet, left
  <2>6. d \in Reached(root)
    BY <1>3, <1>8 DEF Reached, ActionsFor
  <2>7. zfs'[d] = zfs[d] \cup taken
    BY <1>1, <1>3, <2>6
  <2>8. IsFiniteSet(taken) /\ Cardinality(taken) = KindsOf[root]
    <3>1. IsFiniteSet(plan.snapshots[root].kinds)
      BY <1>3, FS_Subset, InventoryAssumption DEF Planned
    <3> QED BY <1>3, <3>1, NewSnapshots DEF KindsOf
  <2>9. \A s \in taken : s.at = clock /\ s.kind \in plan.snapshots[root].kinds /\ s.managed = TRUE
    BY DEF New
  <2>10. zfs[d] \cap taken = {}
    BY <1>1, <2>6, <2>9 DEF Clash
  <2> HIDE DEF taken
  <2>11. Cardinality(zfs'[d]) = Cardinality(zfs[d]) + KindsOf[root]
    BY <1>3, <2>7, <2>8, <2>10, Together
  <2>12. ManagedOf(zfs'[d]) = ManagedOf(zfs[d]) \cup taken /\ ManagedOf(zfs[d]) \cap taken = {}
    BY <2>7, <2>9, <2>10 DEF ManagedOf
  <2>13. IsFiniteSet(ManagedOf(zfs[d]))
    BY <1>3, FS_Subset DEF ManagedOf
  <2>14. Cardinality(ManagedOf(zfs'[d])) = Cardinality(ManagedOf(zfs[d])) + KindsOf[root]
    BY <2>8, <2>12, <2>13, Together
  <2>15. /\ Cardinality(zfs[d]) \in Nat /\ Cardinality(ManagedOf(zfs[d])) \in Nat
         /\ Cardinality(Known(d)) \in Nat /\ Cardinality(ManagedOf(Known(d))) \in Nat
         /\ TakenYet(d) \in Nat
    BY <1>3, <2>3, <2>13, FS_CardinalityType, Countable DEF TakenYet, left
  <2>16. GoneYet(d) \in Nat
    BY Countable DEF GoneYet
  <2> QED BY <1>2, <1>4, <2>5, <2>11, <2>14, <2>15, <2>16
<1> QED BY <1>7, <1>8

\* What a prune destroys is subtracted once: it was there, and all of it was
\* managed.
LEMMA PruneBalances ==
  ASSUME Shape, Balance, NEW p, ExecutePrune(p), broken = {}, NEW d \in Listed \ touched
  PROVE  /\ Cardinality(zfs'[d]) + GoneYet(d)' = Cardinality(Known(d)) + TakenYet(d)'
         /\ Cardinality(ManagedOf(zfs'[d])) + GoneYet(d)'
              = Cardinality(ManagedOf(Known(d))) + TakenYet(d)'
<1> USE DEF Shape
<1>1. /\ step = "execute" /\ p \in work.prunes
      /\ p \in DOMAIN zfs /\ plan.prunes[p] \subseteq zfs[p]
      /\ zfs' = [zfs EXCEPT ![p] = @ \ plan.prunes[p]]
      /\ work'.prunes = work.prunes \ {p} /\ work'.snapshots = work.snapshots
      /\ UNCHANGED <<snapshots, plan>>
  BY DEF ExecutePrune, MayPrune, Planned
<1>2. /\ Cardinality(zfs[d]) + GoneYet(d) = Cardinality(Known(d)) + TakenYet(d)
      /\ Cardinality(ManagedOf(zfs[d])) + GoneYet(d)
           = Cardinality(ManagedOf(Known(d))) + TakenYet(d)
  BY <1>1 DEF Balance, AfterSnapshots
<1>3. d \in DOMAIN zfs /\ IsFiniteSet(zfs[d]) /\ p \in DOMAIN plan.prunes
  BY <1>1 DEF World, Holds, Listed, Planned
<1>4. TakenYet(d)' = TakenYet(d)
  BY <1>1 DEF TakenYet, KindsOf, ActionsFor
<1>5. CASE d # p
  <2>1. GoneYet(d)' = GoneYet(d) /\ zfs'[d] = zfs[d]
    BY <1>1, <1>3, <1>5 DEF GoneYet
  <2> QED BY <1>2, <1>4, <2>1
<1>6. CASE d = p
  <2> DEFINE gone == plan.prunes[p]
  <2>1. zfs'[d] = zfs[d] \ gone /\ gone \subseteq zfs[d] /\ gone \subseteq ManagedOf(Known(d))
    BY <1>1, <1>3, <1>6 DEF Planned
  <2>2. GoneYet(d) = 0 /\ GoneYet(d)' = Cardinality(gone)
    BY <1>1, <1>3, <1>6 DEF GoneYet
  <2> HIDE DEF gone
  <2>3. gone \subseteq ManagedOf(zfs[d]) /\ ManagedOf(zfs'[d]) = ManagedOf(zfs[d]) \ gone
    BY <2>1 DEF ManagedOf
  <2>4. IsFiniteSet(ManagedOf(zfs[d]))
    BY <1>3, FS_Subset DEF ManagedOf
  <2>5. /\ Cardinality(zfs'[d]) + Cardinality(gone) = Cardinality(zfs[d])
        /\ Cardinality(ManagedOf(zfs'[d])) + Cardinality(gone) = Cardinality(ManagedOf(zfs[d]))
    BY <1>3, <2>1, <2>3, <2>4, Without
  <2>6. Cardinality(zfs[d]) \in Nat /\ Cardinality(ManagedOf(zfs[d])) \in Nat
    BY <1>3, <2>4, FS_CardinalityType
  <2> QED BY <1>2, <1>4, <2>2, <2>5, <2>6
<1> QED BY <1>5, <1>6

\* Before the commands the balance is that of the second listing.
LEMMA NothingDone ==
  ASSUME NEW d, DOMAIN plan.snapshots \subseteq work.snapshots,
         DOMAIN plan.prunes \subseteq work.prunes
  PROVE  TakenYet(d) = 0 /\ GoneYet(d) = 0
<1>1. ActionsFor(d) \ work.snapshots = {}
  BY DEF ActionsFor
<1> QED BY <1>1, SumOfNone DEF TakenYet, GoneYet

\* It holds at each step: commands change both sides alike, or break the run.
LEMMA BalanceNext ==
  Shape /\ Seen /\ Balance /\ [InventoryNext]_inventoryVars => Balance'
<1> SUFFICES ASSUME Shape, Seen, Balance, [InventoryNext]_inventoryVars PROVE Balance'
  OBVIOUS
<1> USE DEF AfterSnapshots
<1>1. ASSUME step' \notin AfterSnapshots PROVE Balance'
  BY <1>1 DEF Balance
<1>2. ASSUME step \in AfterSnapshots,
             UNCHANGED <<config, zfs, touched, snapshots, plan, work, broken>>
      PROVE  Balance'
  BY <1>2 DEF Balance, Listed, Configured, GoneYet, TakenYet, KindsOf, ActionsFor, Known
<1>3. CASE Begin \/ ListDatasets
  BY <1>1, <1>3 DEF Begin, ListDatasets, GoOn
<1>4. CASE ListSnapshots
  <2>1. /\ step = "snapshots" /\ Listed' = Listed
        /\ snapshots' = [d \in {d \in Listed : zfs[d] # {}} |-> zfs[d]]
        /\ UNCHANGED <<zfs, touched, plan, work>>
    BY <1>4 DEF ListSnapshots, Listed, Configured, world, resolveVars
  <2>2. plan = NoPlan
    BY <2>1 DEF Shape, Blank, AfterPlan
  <2>3. DOMAIN plan.snapshots = {} /\ DOMAIN plan.prunes = {}
    BY <2>2 DEF NoPlan
  <2>4. ASSUME NEW d \in Listed \ touched
        PROVE  Known(d)' = zfs'[d] /\ TakenYet(d)' = 0 /\ GoneYet(d)' = 0
    <3>1. Known(d)' = zfs'[d]
      BY <2>1, <2>4 DEF Known
    <3>2. TakenYet(d) = 0 /\ GoneYet(d) = 0
      BY <2>3, NothingDone
    <3>3. TakenYet(d)' = TakenYet(d) /\ GoneYet(d)' = GoneYet(d)
      BY <2>1 DEF TakenYet, GoneYet, KindsOf, ActionsFor
    <3> QED BY <3>1, <3>2, <3>3
  <2> QED BY <2>1, <2>4 DEF Balance
<1>5. CASE ListPools
  BY <1>2, <1>5 DEF ListPools, world
<1>6. ASSUME NEW next \in {"idle", "written"}, Ends(next) PROVE Balance'
  BY <1>1, <1>6 DEF Ends
<1>7. CASE ResolveStep
  <2>1. config' = config
    BY <1>7 DEF ResolveStep, ResolveNext, ResolveSection, ResolveTargets, FailSection
  <2> QED BY <1>2, <1>7, <2>1 DEF ResolveStep, world
<1>8. CASE BuildPlan
  <2>1. /\ step = "resolve" /\ Listed' = Listed
        /\ work' = [snapshots |-> DOMAIN plan'.snapshots, prunes |-> DOMAIN plan'.prunes]
        /\ UNCHANGED <<zfs, touched, snapshots, broken>>
    BY <1>8 DEF BuildPlan, Listed, Configured, world, resolveVars
  <2>2. plan = NoPlan
    BY <2>1 DEF Shape, Blank, AfterPlan
  <2>3. DOMAIN plan.snapshots = {} /\ DOMAIN plan.prunes = {}
    BY <2>2 DEF NoPlan
  <2>4. ASSUME NEW d
        PROVE  TakenYet(d)' = TakenYet(d) /\ GoneYet(d)' = GoneYet(d) /\ Known(d)' = Known(d)
    <3>1. TakenYet(d) = 0 /\ GoneYet(d) = 0
      BY <2>3, NothingDone
    <3>2. ActionsFor(d)' \ work'.snapshots = {}
      BY <2>1 DEF ActionsFor
    <3>3. TakenYet(d)' = 0
      BY <3>2, SumOfNone DEF TakenYet
    <3>4. GoneYet(d)' = 0
      BY <2>1 DEF GoneYet
    <3> QED BY <2>1, <3>1, <3>3, <3>4 DEF Known
  <2> QED BY <2>1, <2>4 DEF Balance
<1>9. ASSUME NEW d \in Names, ExecuteSnapshot(d) \/ ExecutePrune(d) PROVE Balance'
  <2>1. /\ UNCHANGED <<config, touched, step, snapshots, broken>>
        /\ DOMAIN zfs' = DOMAIN zfs
    BY <1>9 DEF ExecuteSnapshot, ExecutePrune, resolveVars
  <2>2. Listed' = Listed /\ \A e : Known(e)' = Known(e)
    BY <2>1 DEF Listed, Configured, Known
  <2> SUFFICES ASSUME broken = {}, NEW e \in Listed \ touched
               PROVE  /\ Cardinality(zfs'[e]) + GoneYet(e)' = Cardinality(Known(e)) + TakenYet(e)'
                      /\ Cardinality(ManagedOf(zfs'[e])) + GoneYet(e)'
                           = Cardinality(ManagedOf(Known(e))) + TakenYet(e)'
    BY <2>1, <2>2 DEF Balance, ManagedOf
  <2> QED BY <1>9, SnapshotBalances, PruneBalances
<1>10. ASSUME NEW d \in Names, ExecuteFails(d) PROVE Balance'
  <2>1. broken' # {}
    BY <1>10 DEF ExecuteFails
  <2> QED BY <2>1 DEF Balance
<1>11. CASE Executed /\ broken = {}
  BY <1>2, <1>11 DEF Executed, world, resolveVars
<1>12. CASE Others
  <2>1. /\ touched \subseteq touched'
        /\ \A d : d \notin touched' =>
             (d \in DOMAIN zfs <=> d \in DOMAIN zfs') /\ (d \in DOMAIN zfs => zfs'[d] = zfs[d])
        /\ UNCHANGED <<resolveVars, step, mode, snapshots, pools, plan, work, broken, cache>>
    BY <1>12, OthersTouch DEF Shape
  <2>2. ASSUME NEW d \in Listed' \ touched'
        PROVE  /\ d \in Listed \ touched /\ zfs'[d] = zfs[d]
               /\ GoneYet(d)' = GoneYet(d) /\ TakenYet(d)' = TakenYet(d) /\ Known(d)' = Known(d)
    <3>1. d \in Listed \ touched
      BY <1>12, <2>1, <2>2, OthersScope DEF Shape
    <3>2. zfs'[d] = zfs[d]
      BY <2>1, <2>2, <3>1 DEF Listed
    <3> QED BY <2>1, <3>1, <3>2 DEF GoneYet, TakenYet, KindsOf, ActionsFor, Known
  <2> QED BY <2>1, <2>2 DEF Balance, ManagedOf
<1>13. CASE UNCHANGED inventoryVars
  BY <1>1, <1>2, <1>13 DEF inventoryVars, world, resolveVars
<1> QED
  BY <1>3, <1>4, <1>5, <1>6, <1>7, <1>8, <1>9, <1>10, <1>11, <1>12, <1>13
     DEF InventoryNext, DiscoverFails, Executed, WriteCache

\* What from_inventory predicts at the end of a run without errors is there.
LEMMA PredictionTrue ==
  ASSUME Shape, Seen, Balance, step = "cache",
         NEW d \in (DOMAIN zfs \cup DatasetNames) \ touched
  PROVE  /\ d \in Listed =>
              /\ d \in DatasetNames
              /\ Counted(d, Known(d)) = Cardinality(zfs[d])
              /\ Counted(d, ManagedOf(Known(d))) = Cardinality(ManagedOf(zfs[d]))
         /\ d \notin Listed => d \notin DatasetNames
<1> USE DEF Shape
<1>1. d \in Names \ touched
  BY DEF World, Listings, DatasetNames, Beneath
<1>2. (d \in inventory <=> d \in Listed) /\ (d \in DOMAIN snapshots => d \in Listed)
  BY <1>1 DEF Seen, AfterDatasets
<1>3. work = [snapshots |-> {}, prunes |-> {}] /\ broken = {}
  BY DEF Blank
<1>4. ASSUME d \in Listed
      PROVE  /\ Counted(d, Known(d)) = Cardinality(zfs[d])
             /\ Counted(d, ManagedOf(Known(d))) = Cardinality(ManagedOf(zfs[d]))
  <2> DEFINE pruned == IF d \in DOMAIN plan.prunes THEN Cardinality(plan.prunes[d]) ELSE 0
  <2>1. TakenYet(d) = Taken(d) /\ GoneYet(d) = pruned
    BY <1>3 DEF TakenYet, Taken, ActionsFor, GoneYet
  <2>2. /\ Cardinality(zfs[d]) + GoneYet(d) = Cardinality(Known(d)) + TakenYet(d)
        /\ Cardinality(ManagedOf(zfs[d])) + GoneYet(d)
             = Cardinality(ManagedOf(Known(d))) + TakenYet(d)
    BY <1>1, <1>3, <1>4 DEF Balance, AfterSnapshots
  <2>3. Cardinality(zfs[d]) \in Nat /\ Cardinality(ManagedOf(zfs[d])) \in Nat
    <3>1. IsFiniteSet(zfs[d])
      BY <1>4 DEF Listed, World, Holds
    <3>2. ManagedOf(zfs[d]) \in SUBSET zfs[d]
      BY DEF ManagedOf
    <3> QED BY <3>1, <3>2, FS_Subset, FS_CardinalityType
  <2>4. pruned \in Nat
    BY Countable
  <2>5. /\ Counted(d, Known(d)) = SaturatingMinus(Cardinality(Known(d)) + Taken(d), pruned)
        /\ Counted(d, ManagedOf(Known(d)))
             = SaturatingMinus(Cardinality(ManagedOf(Known(d))) + Taken(d), pruned)
    BY DEF Counted
  <2> HIDE DEF pruned
  <2>6. \A m, n \in Nat : SaturatingMinus(m + n, n) = m
    BY DEF SaturatingMinus
  <2> QED BY <2>1, <2>2, <2>3, <2>4, <2>5, <2>6
<1> QED BY <1>2, <1>4 DEF DatasetNames

\* The cache says so until the next run begins.
LEMMA CountsNext ==
  Shape /\ Seen /\ Balance /\ CountsTrue /\ [InventoryNext]_inventoryVars => CountsTrue'
<1> SUFFICES ASSUME Shape, Seen, Balance, CountsTrue, [InventoryNext]_inventoryVars,
                    step' = "written"
             PROVE  CountsTrue'
  BY DEF CountsTrue
<1>1. CASE WriteCache
  <2>1. step = "cache" /\ cache' = FromInventory /\ UNCHANGED <<zfs, touched, config>>
    BY <1>1 DEF WriteCache, Ends, world
  <2>2. DOMAIN cache'.datasets = DatasetNames
        /\ \A d \in DatasetNames :
             /\ cache'.datasets[d].snapshots = Counted(d, Known(d))
             /\ cache'.datasets[d].managed = Counted(d, ManagedOf(Known(d)))
    BY <2>1 DEF FromInventory, ManagedOf
  <2>3. Listed' = Listed
    BY <2>1 DEF Listed, Configured
  <2>4. \A d \in (DOMAIN zfs \cup DatasetNames) \ touched :
          IF d \in Listed
          THEN /\ d \in DatasetNames
               /\ cache'.datasets[d].snapshots = Cardinality(zfs[d])
               /\ cache'.datasets[d].managed = Cardinality(ManagedOf(zfs[d]))
          ELSE d \notin DatasetNames
    BY <2>1, <2>2, PredictionTrue
  <2> QED BY <2>1, <2>2, <2>3, <2>4 DEF CountsTrue, ManagedOf
<1>2. CASE Others
  <2>1. /\ touched \subseteq touched'
        /\ \A d : d \notin touched' =>
             (d \in DOMAIN zfs <=> d \in DOMAIN zfs') /\ (d \in DOMAIN zfs => zfs'[d] = zfs[d])
        /\ UNCHANGED <<resolveVars, step, mode, snapshots, pools, plan, work, broken, cache>>
    BY <1>2, OthersTouch DEF Shape
  <2>2. \A d : d \notin touched' => (d \in Listed' <=> d \in Listed)
    BY <1>2, OthersScope DEF Shape
  <2>3. \A d \in Listed : d \in DOMAIN zfs
    BY DEF Listed
  <2> QED BY <2>1, <2>2, <2>3 DEF CountsTrue
<1>3. CASE UNCHANGED inventoryVars
  BY <1>3 DEF inventoryVars, world, resolveVars, CountsTrue, Listed, Configured
<1>4. CASE ~WriteCache /\ ~Others /\ InventoryNext
  <2>1. step' # "written"
    BY <1>4 DEF InventoryNext, Begin, ListDatasets, ListSnapshots, ListPools, DiscoverFails,
                ResolveStep, BuildPlan, ExecuteSnapshot, ExecutePrune, ExecuteFails, MayPrune,
                Executed, Ends, GoOn
  <2> QED BY <2>1
<1> QED BY <1>1, <1>2, <1>3, <1>4

\* The cache of a run without errors is true of every dataset that others left
\* alone since the listing began, whatever they did to the rest, for any number
\* of datasets, kinds, actions and steps.
THEOREM CacheCountsTrue == InventorySpec => []CountsTrue
<1>1. Accounts /\ Shape /\ [InventoryNext]_inventoryVars => Accounts'
  BY SeenNext, BalanceNext, CountsNext DEF Accounts
<1>2. Accounts => CountsTrue
  BY DEF Accounts
<1> QED BY <1>1, <1>2, AccountsInit, ShapeAlways, PTL DEF InventorySpec

-----------------------------------------------------------------------------
(* The file of the status cache *)

\* The steps that need the run lock.
Locked == {"list", "create", "write", "finish", "sync", "rename", "syncdir",
           "cleanup", "done", "failed"}

\* The version of the cache that a process is at work on, or has written.
Owned == {"create", "write", "finish", "sync", "rename", "syncdir", "cleanup", "done"}

\* A version that has no name on the disk yet, or not for sure.
Unpublished == {"create", "write", "finish", "sync", "rename"}

\* A file the name of the cache may stand for, now or after a power failure, or
\* that a process has open for reading.
Reachable(v) == v \in disk \/ \E p \in Procs : pc[p] = "read" /\ version[p] = v

OneWriter ==
  /\ \A p, q \in mutators : p = q
  /\ \A p \in Procs : pc[p] \in Locked => p \in mutators

WritesNewest ==
  \A p \in Procs : pc[p] \in Owned => version[p] \in Versions /\ version[p] = listed

\* The file that is being written is nobody's cache.
Apart == \A p \in Procs : pc[p] \in Unpublished => ~Reachable(version[p])

\* What the steps of write_atomic that were taken have achieved.
Progress ==
  \A p \in Procs :
    /\ pc[p] = "sync" => contents[version[p]] = "whole"
    /\ pc[p] = "rename" => contents[version[p]] = "whole" /\ version[p] \in synced
    /\ pc[p] = "syncdir" => path = version[p] /\ version[p] \notin temps

Published ==
  \A v \in Versions : Reachable(v) => v <= listed /\ contents[v] = "whole" /\ v \in synced

\* What a reader has found.
Readers ==
  \A p \in Procs : /\ pc[p] = "open" => path # None
                   /\ pc[p] = "read" => version[p] \in Versions /\ version[p] >= floor[p]

Acknowledged ==
  /\ acked <= listed
  /\ \A p \in Procs : floor[p] <= acked
  /\ acked > 0 => \A v \in disk : v # None /\ v >= acked

TempsExist == \A v \in temps : contents[v] # "none"

IInv ==
  /\ TypeOK
  /\ OneWriter /\ WritesNewest /\ Apart /\ Progress
  /\ Published /\ Readers /\ Acknowledged
  /\ TempsExist /\ NoLitter /\ ShowsCurrent /\ AlwaysReadable

-----------------------------------------------------------------------------
\* The state StatusCache starts in satisfies the invariant.
LEMMA CacheInit == Init => IInv
BY StatusCacheAssumption
   DEF Init, Lock!Init, IInv, TypeOK, Steps, Errors, OneWriter, WritesNewest, Apart,
       Progress, Published, Readers, Acknowledged, TempsExist, NoLitter, ShowsCurrent,
       AlwaysReadable, Reachable, Writing, Locked, Owned, Unpublished, Versions

\* The types are kept by every step: with them alone the other parts can be
\* shown one by one.
LEMMA TypeStep == IInv /\ [Next]_vars => TypeOK'
<1> SUFFICES ASSUME IInv, [Next]_vars PROVE TypeOK'
  OBVIOUS
<1> USE StatusCacheAssumption
    DEF TypeOK, Steps, Errors, GoTo, Shows, files, output, history
<1>0. TypeOK
  BY DEF IInv
<1>1. ASSUME NEW p \in Procs, StartRun(p) PROVE TypeOK'
  BY <1>0, <1>1 DEF StartRun, Start
<1>2. ASSUME NEW p \in Procs, StartStatus(p) PROVE TypeOK'
  BY <1>0, <1>2 DEF StartStatus, Start
<1>3. ASSUME NEW p \in Procs, Acquire(p) PROVE TypeOK'
  BY <1>0, <1>3 DEF Acquire, Lock!Enter
<1>4. ASSUME NEW p \in Procs, Refused(p) PROVE TypeOK'
  BY <1>0, <1>4 DEF Refused
<1>5. ASSUME NEW p \in Procs, Discover(p) PROVE TypeOK'
  BY <1>0, <1>5 DEF Discover, Versions
<1>6. ASSUME NEW p \in Procs, GiveUp(p) PROVE TypeOK'
  BY <1>0, <1>6 DEF GiveUp
<1>7. ASSUME NEW p \in Procs, End(p) PROVE TypeOK'
  <2>1. /\ pc[p] \in {"done", "failed"} /\ mutators' \subseteq mutators
        /\ pc' = [pc EXCEPT ![p] = "idle"]
        /\ UNCHANGED <<job, version, listed, contents, synced, temps, path, disk,
                       acked, floor, killed>>
    BY <1>7 DEF End, Lock!Leave
  <2>2. PICK v \in Versions \cup {0}, e \in Errors : Shows(p, v, e)
    BY <1>0, <1>7 DEF End, WritesNewest, Owned, IInv
  <2>3. shown' \in [Procs -> 0..MaxVersion] /\ error' \in [Procs -> Errors]
    BY <1>0, <2>2 DEF Versions
  <2> QED BY <1>0, <2>1, <2>3
<1>8. ASSUME NEW p \in Procs, Create(p) PROVE TypeOK'
  BY <1>0, <1>8 DEF Create, WritesNewest, Owned, IInv, Apart, Unpublished, Reachable
<1>9. ASSUME NEW p \in Procs, Write(p) PROVE TypeOK'
  BY <1>0, <1>9 DEF Write, WritesNewest, Owned, IInv
<1>10. ASSUME NEW p \in Procs, Sync(p) PROVE TypeOK'
  BY <1>0, <1>10 DEF Sync, WritesNewest, Owned, IInv
<1>11. ASSUME NEW p \in Procs, Rename(p) PROVE TypeOK'
  BY <1>0, <1>11 DEF Rename, WritesNewest, Owned, IInv
<1>12. ASSUME NEW p \in Procs, SyncDir(p) PROVE TypeOK'
  BY <1>0, <1>12 DEF SyncDir, WritesNewest, Owned, IInv, Versions
<1>13. ASSUME NEW p \in Procs, CallFails(p) PROVE TypeOK'
  BY <1>0, <1>13 DEF CallFails
<1>14. ASSUME NEW p \in Procs, Cleanup(p) PROVE TypeOK'
  BY <1>0, <1>14 DEF Cleanup
<1>15. ASSUME NEW p \in Procs, Open(p) PROVE TypeOK'
  BY <1>0, <1>15 DEF Open
<1>16. ASSUME NEW p \in Procs, Read(p) PROVE TypeOK'
  BY <1>0, <1>16 DEF Read, Readers, IInv, Versions
<1>17. ASSUME NEW p \in Procs, Crash(p) PROVE TypeOK'
  BY <1>0, <1>17 DEF Crash, Writing, WritesNewest, Owned, IInv
<1>18. CASE PowerLoss
  BY <1>0, <1>18 DEF PowerLoss
<1>19. CASE UNCHANGED vars
  BY <1>0, <1>19 DEF vars, files, output, history
<1> QED
  BY <1>1, <1>2, <1>3, <1>4, <1>5, <1>6, <1>7, <1>8, <1>9, <1>10, <1>11, <1>12,
     <1>13, <1>14, <1>15, <1>16, <1>17, <1>18, <1>19 DEF Next, WriteAtomic

\* No step of any process, and no power failure, breaks it.  Most steps move one
\* process on and are shown at once; what the others rely on is spelled out.
LEMMA CacheStep == IInv /\ [Next]_vars => IInv'
<1> SUFFICES ASSUME IInv, [Next]_vars PROVE IInv'
  OBVIOUS
<1>0. TypeOK'
  BY TypeStep
<1> USE StatusCacheAssumption, <1>0
    DEF IInv, TypeOK, OneWriter, WritesNewest, Apart, Progress, Published, Readers,
        Acknowledged, TempsExist, NoLitter, ShowsCurrent, AlwaysReadable, Reachable,
        Locked, Owned, Unpublished, Writing, Versions, GoTo, Shows, files, output, history
<1>1. ASSUME NEW p \in Procs, StartRun(p) \/ StartStatus(p) PROVE IInv'
  <2>1. PICK first \in {"acquire", "open"} :
          /\ first = "open" => path # None
          /\ pc[p] = "idle" /\ pc' = [pc EXCEPT ![p] = first]
          /\ version' = [version EXCEPT ![p] = None]
          /\ Shows(p, 0, "none") /\ floor' = [floor EXCEPT ![p] = acked]
          /\ UNCHANGED <<mutators, listed, contents, synced, temps, path, disk, acked, killed>>
    BY <1>1 DEF StartRun, StartStatus, Start
  <2>2. OneWriter' /\ WritesNewest' /\ Apart' /\ Progress' /\ Published' /\ TempsExist'
    BY <2>1
  <2>3. Readers' /\ Acknowledged' /\ ShowsCurrent' /\ AlwaysReadable'
    BY <2>1
  <2>4. NoLitter'
    BY <2>1
  <2> QED BY <2>2, <2>3, <2>4
<1>2. ASSUME NEW p \in Procs, Acquire(p) PROVE IInv'
  BY <1>2 DEF Acquire, Lock!Enter
<1>3. ASSUME NEW p \in Procs, Refused(p) PROVE IInv'
  <2>1. OneWriter' /\ WritesNewest' /\ Apart' /\ Progress'
    BY <1>3 DEF Refused
  <2>2. Published' /\ Readers' /\ TempsExist'
    BY <1>3 DEF Refused
  <2>3. Acknowledged' /\ ShowsCurrent' /\ AlwaysReadable' /\ NoLitter'
    BY <1>3 DEF Refused
  <2> QED BY <2>1, <2>2, <2>3
<1>4. ASSUME NEW p \in Procs, Discover(p) PROVE IInv'
  <2>1. \A q \in Procs : pc'[q] \in Owned => q = p
    BY <1>4 DEF Discover
  <2>2. ~Reachable(listed') /\ listed' \in Versions /\ listed' = listed + 1
    BY <1>4 DEF Discover
  <2>3. /\ pc[p] = "list" /\ pc' = [pc EXCEPT ![p] = "create"]
        /\ version' = [version EXCEPT ![p] = listed']
        /\ UNCHANGED <<mutators, contents, synced, temps, path, disk, shown, error,
                       acked, floor, killed>>
    BY <1>4 DEF Discover
  <2>4. OneWriter' /\ WritesNewest' /\ Progress' /\ TempsExist'
    BY <2>1, <2>2, <2>3
  <2>5. Apart' /\ Published'
    BY <2>1, <2>2, <2>3
  <2>6. Readers' /\ Acknowledged' /\ ShowsCurrent' /\ AlwaysReadable'
    BY <2>2, <2>3
  <2>7. NoLitter'
    BY <2>3
  <2> QED BY <2>4, <2>5, <2>6, <2>7
<1>5. ASSUME NEW p \in Procs, GiveUp(p) PROVE IInv'
  <2>1. /\ pc[p] = "list" /\ pc' = [pc EXCEPT ![p] = "failed"]
        /\ UNCHANGED <<mutators, version, listed, contents, synced, temps, path, disk,
                       shown, error, acked, floor, killed>>
    BY <1>5 DEF GiveUp
  <2>2. OneWriter' /\ WritesNewest' /\ Apart' /\ Progress' /\ Published' /\ TempsExist'
    BY <2>1
  <2>3. Readers' /\ Acknowledged' /\ ShowsCurrent' /\ AlwaysReadable'
    BY <2>1
  <2>4. NoLitter'
    BY <2>1
  <2> QED BY <2>2, <2>3, <2>4
<1>6. ASSUME NEW p \in Procs, End(p) PROVE IInv'
  <2>1. /\ pc[p] \in {"done", "failed"} /\ mutators' = mutators \ {p}
        /\ pc' = [pc EXCEPT ![p] = "idle"]
        /\ UNCHANGED <<job, version, listed, contents, synced, temps, path, disk,
                       acked, floor, killed>>
    BY <1>6 DEF End, Lock!Leave
  <2>2. PICK v \in {0, listed} :
          /\ shown' = [shown EXCEPT ![p] = v]
          /\ error' \in {[error EXCEPT ![p] = "none"], [error EXCEPT ![p] = "failed"]}
    BY <1>6 DEF End
  <2>3. \A q \in Procs : shown'[q] \in {shown[q], 0, listed} /\ floor'[q] <= listed
    BY <2>1, <2>2
  <2>4. shown' \in [Procs -> 0..MaxVersion] /\ floor' = floor
    BY <2>1
  <2>5. ShowsCurrent'
    BY <2>3, <2>4
  <2>6. AlwaysReadable'
    BY <2>1, <2>2
  <2>7. OneWriter' /\ WritesNewest' /\ Apart' /\ Progress' /\ Published' /\ Readers'
    BY <2>1
  <2>8. Acknowledged' /\ TempsExist' /\ NoLitter'
    BY <2>1
  <2> QED BY <2>5, <2>6, <2>7, <2>8
<1>7. ASSUME NEW p \in Procs, Create(p) PROVE IInv'
  <2>1. OneWriter' /\ WritesNewest' /\ Apart' /\ Progress'
    BY <1>7 DEF Create
  <2>2. Published' /\ Readers' /\ TempsExist'
    BY <1>7 DEF Create
  <2>3. Acknowledged' /\ ShowsCurrent' /\ AlwaysReadable' /\ NoLitter'
    BY <1>7 DEF Create
  <2> QED BY <2>1, <2>2, <2>3
<1>8. ASSUME NEW p \in Procs, Write(p) PROVE IInv'
  <2>1. OneWriter' /\ WritesNewest' /\ Apart' /\ Progress'
    BY <1>8 DEF Write
  <2>2. Published' /\ Readers' /\ TempsExist'
    BY <1>8 DEF Write
  <2>3. Acknowledged' /\ ShowsCurrent' /\ AlwaysReadable' /\ NoLitter'
    BY <1>8 DEF Write
  <2> QED BY <2>1, <2>2, <2>3
<1>9. ASSUME NEW p \in Procs, Sync(p) PROVE IInv'
  <2>1. OneWriter' /\ WritesNewest' /\ Apart' /\ Progress'
    BY <1>9 DEF Sync
  <2>2. Published' /\ Readers' /\ TempsExist'
    BY <1>9 DEF Sync
  <2>3. Acknowledged' /\ ShowsCurrent' /\ AlwaysReadable' /\ NoLitter'
    BY <1>9 DEF Sync
  <2> QED BY <2>1, <2>2, <2>3
<1>10. ASSUME NEW p \in Procs, Rename(p) PROVE IInv'
  <2>1. \A v \in Versions :
          Reachable(v)' => v <= listed /\ contents[v] = "whole" /\ v \in synced
    BY <1>10 DEF Rename
  <2>2. \A q \in Procs \ {p} : pc'[q] \notin Unpublished
    BY <1>10 DEF Rename
  <2> QED BY <1>10, <2>1, <2>2 DEF Rename
<1>11. ASSUME NEW p \in Procs, SyncDir(p) PROVE IInv'
  <2>1. path = version[p] /\ version[p] = listed
    BY <1>11 DEF SyncDir
  <2> QED BY <1>11, <2>1 DEF SyncDir
<1>12. ASSUME NEW p \in Procs, CallFails(p) PROVE IInv'
  <2>1. OneWriter' /\ WritesNewest' /\ Apart' /\ Progress'
    BY <1>12 DEF CallFails
  <2>2. Published' /\ Readers' /\ TempsExist'
    BY <1>12 DEF CallFails
  <2>3. Acknowledged' /\ ShowsCurrent' /\ AlwaysReadable' /\ NoLitter'
    BY <1>12 DEF CallFails
  <2> QED BY <2>1, <2>2, <2>3
<1>13. ASSUME NEW p \in Procs, Cleanup(p) PROVE IInv'
  <2>1. OneWriter' /\ WritesNewest' /\ Apart' /\ Progress'
    BY <1>13 DEF Cleanup
  <2>2. Published' /\ Readers' /\ TempsExist'
    BY <1>13 DEF Cleanup
  <2>3. Acknowledged' /\ ShowsCurrent' /\ AlwaysReadable' /\ NoLitter'
    BY <1>13 DEF Cleanup
  <2> QED BY <2>1, <2>2, <2>3
<1>14. ASSUME NEW p \in Procs, Open(p) PROVE IInv'
  <2>1. /\ pc[p] = "open" /\ path # None
        /\ pc' = [pc EXCEPT ![p] = "read"] /\ version' = [version EXCEPT ![p] = path]
        /\ UNCHANGED <<mutators, job, listed, contents, synced, temps, path, disk,
                       shown, error, acked, floor, killed>>
    BY <1>14 DEF Open
  <2>2. path >= floor[p]
    BY <2>1
  <2>3. \A v \in Versions : Reachable(v)' => Reachable(v)
    BY <2>1
  <2>4. OneWriter' /\ WritesNewest' /\ Apart' /\ Progress'
    BY <2>1, <2>3
  <2>5. Published' /\ Readers' /\ Acknowledged' /\ TempsExist'
    BY <2>1, <2>2, <2>3
  <2>6. NoLitter' /\ ShowsCurrent' /\ AlwaysReadable'
    BY <2>1
  <2> QED BY <2>4, <2>5, <2>6
<1>15. ASSUME NEW p \in Procs, Read(p) PROVE IInv'
  <2>1. /\ pc[p] = "read" /\ version[p] \in Versions /\ version[p] >= floor[p]
        /\ contents[version[p]] = "whole"
    BY <1>15 DEF Read
  <2>2. /\ shown' = [shown EXCEPT ![p] = version[p]]
        /\ error' = [error EXCEPT ![p] = "none"]
        /\ pc' = [pc EXCEPT ![p] = "idle"]
        /\ UNCHANGED <<mutators, job, version, listed, contents, synced, temps, path,
                       disk, acked, floor, killed>>
    BY <1>15, <2>1 DEF Read
  <2>3. ShowsCurrent' /\ AlwaysReadable'
    BY <2>1, <2>2
  <2>4. OneWriter' /\ WritesNewest' /\ Apart' /\ Progress' /\ Published' /\ Readers'
    BY <2>1, <2>2
  <2>5. Acknowledged' /\ TempsExist' /\ NoLitter'
    BY <2>1, <2>2
  <2> QED BY <2>3, <2>4, <2>5
<1>16. ASSUME NEW p \in Procs, Crash(p) PROVE IInv'
  <2>1. OneWriter' /\ WritesNewest' /\ Apart' /\ Progress'
    BY <1>16 DEF Crash
  <2>2. Published' /\ Readers' /\ TempsExist'
    BY <1>16 DEF Crash
  <2>3. Acknowledged' /\ ShowsCurrent' /\ AlwaysReadable' /\ NoLitter'
    BY <1>16 DEF Crash
  <2> QED BY <2>1, <2>2, <2>3
<1>17. CASE PowerLoss
  <2>1. /\ mutators' = {} /\ \A p \in Procs : pc'[p] = "idle"
        /\ path' \in disk /\ disk' = {path'}
        /\ temps' = (temps \cup (disk \ {None})) \ {path'}
        /\ killed' = {v \in Versions : contents[v] # "none"}
        /\ UNCHANGED <<job, version, listed, synced, shown, error, acked, floor>>
    BY <1>17 DEF PowerLoss
  <2>2. \A v \in Versions : \/ contents'[v] = contents[v]
                            \/ v \notin synced /\ contents'[v] \in {"empty", "torn"}
    BY <1>17 DEF PowerLoss
  <2>3. Published'
    BY <2>1, <2>2
  <2>4. OneWriter' /\ WritesNewest' /\ Apart' /\ Progress' /\ Readers'
    BY <2>1
  <2>5. Acknowledged' /\ ShowsCurrent' /\ AlwaysReadable'
    BY <2>1
  <2>6. TempsExist'
    BY <2>1, <2>2
  <2>7. NoLitter'
    BY <2>1, <2>2
  <2> QED BY <2>3, <2>4, <2>5, <2>6, <2>7
<1>18. CASE UNCHANGED vars
  BY <1>18 DEF vars
<1> QED
  BY <1>1, <1>2, <1>3, <1>4, <1>5, <1>6, <1>7, <1>8, <1>9, <1>10, <1>11, <1>12,
     <1>13, <1>14, <1>15, <1>16, <1>17, <1>18 DEF Next, WriteAtomic

-----------------------------------------------------------------------------
\* The invariant of every behaviour.
LEMMA CacheInvariant == Spec => []IInv
BY CacheInit, CacheStep, PTL DEF Spec

\* Type correctness.
THEOREM CacheTypes == Spec => []TypeOK
<1>1. IInv => TypeOK
  BY DEF IInv
<1> QED BY <1>1, CacheInvariant, PTL

\* `zsnap status` reads the cache without the lock (status.rs, load), and still
\* never finds it partial, unparsable or gone, whoever writes or is killed.
THEOREM CacheAlwaysReadable == Spec => []AlwaysReadable
<1>1. IInv => AlwaysReadable
  BY DEF IInv
<1> QED BY <1>1, CacheInvariant, PTL

\* What write_atomic reported written (status.rs, write_atomic) survives power
\* failures, and no older version ever replaces it.
THEOREM CacheNeverBehind == Spec => []NeverBehind
<1>1. IInv => NeverBehind
  BY DEF IInv, TypeOK, Acknowledged, NeverBehind
<1> QED BY <1>1, CacheInvariant, PTL

\* `zsnap status` never shows less than what was written when it was started
\* (main.rs, show_status).
THEOREM CacheShowsCurrent == Spec => []ShowsCurrent
<1>1. IInv => ShowsCurrent
  BY DEF IInv
<1> QED BY <1>1, CacheInvariant, PTL

\* An error in the middle of write_atomic leaves no temporary file (status.rs,
\* write_atomic): only processes that were killed leave one.
THEOREM CacheNoLitter == Spec => []NoLitter
<1>1. IInv => NoLitter
  BY DEF IInv
<1> QED BY <1>1, CacheInvariant, PTL
=============================================================================

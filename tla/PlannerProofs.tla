---------------------------- MODULE PlannerProofs ----------------------------
(***************************************************************************)
(* About src/planner.rs, which datasets are managed and how, and about     *)
(* src/migration.rs, what a conversion refuses and what it keeps.          *)
(*                                                                         *)
(* For every configuration that Config::validate accepts and every set of  *)
(* existing datasets: what resolve_datasets makes of them, whatever the    *)
(* order of sections of one depth.  First names and their prefixes, then   *)
(* what effective_policy merges.  The inductive invariant IInv is what the *)
(* rounds of the loop have done so far: the settings and the strategy of a *)
(* dataset are those of the nearest of the sections already taken.  It     *)
(* relies on their order: what reaches a section's dataset also reaches    *)
(* its targets and was taken before (Inherited).                           *)
(*                                                                         *)
(* For every Sanoid file: Parse understands its lines (Understood is what   *)
(* its loop keeps), and what is generated from them is valid where the      *)
(* conversion was not refused and their values are valid.  Resolved, it     *)
(* means what the file means (MigrationIInv): sections and templates are    *)
(* carried from the configuration, where IInv is about them, back to the    *)
(* lines.                                                                  *)
(***************************************************************************)
EXTENDS Migration, FiniteSetTheorems, WellFoundedInduction, TLAPS

-----------------------------------------------------------------------------
(* Numbers *)

\* Of any numbers there is a least one.
LEMMA Least ==
  ASSUME NEW T, T \subseteq Nat, T # {}
  PROVE  \E n \in T : \A m \in T : n <= m
<1>1. PICK n \in T : \A m \in T : <<m, n>> \notin OpToRel(<, Nat)
  BY NatLessThanWellFounded, WFMin
<1>2. ASSUME NEW m \in T PROVE n <= m
  <2>1. ~(m < n)
    BY <1>1 DEF OpToRel
  <2> QED BY <2>1
<1> QED BY <1>2

\* Of numbers up to a bound there is a greatest one, and Max is it.
LEMMA Greatest ==
  ASSUME NEW l \in Nat, NEW T, T \subseteq 0..l, T # {}
  PROVE  Max(T) \in T /\ \A m \in T : m <= Max(T)
<1> DEFINE Mirrored == {n \in 0..l : l - n \in T}
<1>1. Mirrored \subseteq Nat /\ Mirrored # {}
  <2>1. PICK n \in T : TRUE
    OBVIOUS
  <2>2. l - n \in Mirrored
    BY <2>1
  <2> QED BY <2>2
<1>2. PICK n \in Mirrored : \A m \in Mirrored : n <= m
  <2> HIDE DEF Mirrored
  <2> QED BY <1>1, Least
<1>3. l - n \in T
  BY <1>2
<1>4. ASSUME NEW m \in T PROVE l - n >= m
  <2>1. l - m \in Mirrored /\ m \in 0..l
    BY <1>4
  <2>2. n <= l - m /\ n \in Nat
    BY <1>2, <2>1
  <2> QED BY <2>1, <2>2
<1>5. \E x \in T : \A m \in T : x >= m
  BY <1>3, <1>4
<1>6. Max(T) \in T /\ \A m \in T : Max(T) >= m
  BY <1>5 DEF Max
<1> QED BY <1>6

-----------------------------------------------------------------------------
(* Names: a dataset is within another that is it or above it *)

Within(d, root) == d = root \/ Below(d, root)

\* Names are sequences.
LEMMA NamesAreSequences ==
  ASSUME NEW d, IsName(d)
  PROVE  Len(d) \in Nat /\ d = [k \in 1..Len(d) |-> d[k]]
<1>1. d \in Seq(Range(d))
  BY DEF IsName
<1> DEFINE R == Range(d)
<1> HIDE DEF R
<1>2. d \in Seq(R)
  BY <1>1 DEF R
<1> QED BY <1>2

\* What IsPrefix says of names.
LEMMA PrefixOfName ==
  ASSUME NEW d, IsName(d), NEW s, IsName(s)
  PROVE  IsPrefix(s, d) <=> Len(s) <= Len(d) /\ \A k \in 1..Len(s) : s[k] = d[k]
<1>1. s \in Seq(Range(s)) /\ d \in Seq(Range(d))
  BY DEF IsName
<1> DEFINE R == Range(s) \cup Range(d)
<1>2. s \in Seq(R) /\ d \in Seq(R)
  BY <1>1
<1> HIDE DEF R
<1>3. SubSeq(s, 1, Len(s)) = s
  BY <1>2
<1>4. ASSUME Len(s) <= Len(d)
      PROVE  /\ SubSeq(d, 1, Len(s)) \in Seq(R) /\ Len(SubSeq(d, 1, Len(s))) = Len(s)
             /\ \A k \in 1..Len(s) : SubSeq(d, 1, Len(s))[k] = d[k]
  BY <1>2, <1>4
<1>5. ASSUME Len(s) <= Len(d), \A k \in 1..Len(s) : s[k] = d[k]
      PROVE  s = SubSeq(d, 1, Len(s))
  <2> DEFINE t == SubSeq(d, 1, Len(s))
  <2>1. t \in Seq(R) /\ Len(t) = Len(s) /\ \A k \in 1..Len(s) : t[k] = s[k]
    BY <1>4, <1>5
  <2> HIDE DEF t
  <2>2. s = t
    BY <1>2, <2>1
  <2> QED BY <2>2 DEF t
<1> QED BY <1>3, <1>4, <1>5 DEF IsPrefix

\* Names of one length that begin in the same way are the same.
LEMMA SameName ==
  ASSUME NEW s, IsName(s), NEW t, IsName(t), Len(s) = Len(t), \A k \in 1..Len(s) : s[k] = t[k]
  PROVE  s = t
<1>1. s = [k \in 1..Len(s) |-> s[k]] /\ t = [k \in 1..Len(t) |-> t[k]]
  BY NamesAreSequences
<1> QED BY <1>1

\* A dataset below another has the longer name.
LEMMA BelowIsLonger ==
  ASSUME NEW d, IsName(d), NEW s, IsName(s), Below(d, s)
  PROVE  Len(s) < Len(d) /\ d # s
<1>1. s # d /\ Len(s) <= Len(d) /\ \A k \in 1..Len(s) : s[k] = d[k]
  BY PrefixOfName DEF Below
<1>2. Len(s) # Len(d)
  BY <1>1, SameName
<1> QED BY <1>1, <1>2, NamesAreSequences

\* Of two datasets that another is within, the one with the longer name is
\* within the other: names are a tree.
LEMMA OneBranch ==
  ASSUME NEW d, IsName(d), NEW s, IsName(s), NEW t, IsName(t),
         Within(d, s), Within(d, t), Len(s) <= Len(t)
  PROVE  Within(t, s)
<1>1. /\ Len(s) <= Len(d) /\ \A k \in 1..Len(s) : s[k] = d[k]
      /\ Len(t) <= Len(d) /\ \A k \in 1..Len(t) : t[k] = d[k]
  BY PrefixOfName, NamesAreSequences DEF Within, Below
<1>2. \A k \in 1..Len(s) : k \in 1..Len(t)
  BY NamesAreSequences
<1>3. IsPrefix(s, t)
  BY <1>1, <1>2, PrefixOfName
<1> QED BY <1>3 DEF Within, Below

\* Two of one length are the same.
LEMMA OneOfEachLength ==
  ASSUME NEW d, IsName(d), NEW s, IsName(s), NEW t, IsName(t),
         Within(d, s), Within(d, t), Len(s) = Len(t)
  PROVE  s = t
<1>1. Within(t, s)
  BY OneBranch, NamesAreSequences
<1> QED BY <1>1, BelowIsLonger, NamesAreSequences DEF Within

\* What is within a dataset that is below another is below that one.
LEMMA BelowAll ==
  ASSUME NEW d, IsName(d), NEW s, IsName(s), NEW t, IsName(t), Within(d, t), Below(t, s)
  PROVE  Below(d, s)
<1>1. CASE d = t
  BY <1>1
<1>2. CASE Below(d, t)
  <2>1. /\ Len(s) <= Len(t) /\ \A k \in 1..Len(s) : s[k] = t[k]
        /\ Len(t) <= Len(d) /\ \A k \in 1..Len(t) : t[k] = d[k]
    BY <1>2, PrefixOfName DEF Below
  <2>2. /\ Len(s) <= Len(d)
        /\ \A k \in 1..Len(s) : s[k] = d[k]
    <3>1. \A k \in 1..Len(s) : k \in 1..Len(t)
      BY <2>1, NamesAreSequences
    <3> QED BY <2>1, <3>1, NamesAreSequences
  <2>3. IsPrefix(s, d)
    BY <2>2, PrefixOfName
  <2>4. Len(s) < Len(t) /\ Len(t) < Len(d)
    BY <1>2, BelowIsLonger
  <2>5. s # d
    BY <2>4, NamesAreSequences
  <2> QED BY <2>3, <2>5 DEF Below
<1> QED BY <1>1, <1>2 DEF Within

-----------------------------------------------------------------------------
(* effective_policy *)

\* m[k] is the policy once the first k templates are applied.
Merges(m, c, ts, base, n) ==
  m = [k \in 0..n |-> IF k = 0 THEN base ELSE Apply(m[k - 1], c.templates[ts[k]])]

\* The recursive function of EffectivePolicy exists.
LEMMA MergeExists ==
  ASSUME NEW c, NEW ts, NEW base, NEW l \in Nat
  PROVE  \E m : Merges(m, c, ts, base, l)
<1> DEFINE Without == {n \in Nat : ~\E m : Merges(m, c, ts, base, n)}
<1>1. Without = {}
  <2> SUFFICES ASSUME Without # {} PROVE FALSE
    OBVIOUS
  <2>1. PICK n \in Without : \A i \in Without : n <= i
    <3>1. Without \subseteq Nat
      OBVIOUS
    <3> HIDE DEF Without
    <3> QED BY <3>1, Least
  <2>2. n \in Nat /\ ~\E m : Merges(m, c, ts, base, n)
    BY <2>1
  <2>3. CASE n = 0
    <3> DEFINE m == [k \in 0..0 |-> base]
    <3>1. \A k \in 0..0 : k = 0 /\ m[k] = base
      OBVIOUS
    <3>2. m = [k \in 0..0 |-> IF k = 0 THEN base ELSE Apply(m[k - 1], c.templates[ts[k]])]
      BY <3>1
    <3> QED BY <2>2, <2>3, <3>2 DEF Merges
  <2>4. CASE n # 0
    <3>1. n - 1 \in Nat /\ n - 1 \notin Without
      <4>1. n - 1 \in Nat /\ ~(n <= n - 1)
        BY <2>2, <2>4
      <4> HIDE DEF Without
      <4> QED BY <2>1, <4>1
    <3>2. PICK g : Merges(g, c, ts, base, n - 1)
      BY <3>1
    <3> DEFINE m == [k \in 0..n |->
                       IF k < n THEN g[k] ELSE Apply(g[n - 1], c.templates[ts[n]])]
    <3>3. ASSUME NEW k \in 0..n
          PROVE  m[k] = IF k = 0 THEN base ELSE Apply(m[k - 1], c.templates[ts[k]])
      <4>1. CASE k < n
        <5>1. k \in 0..(n - 1) /\ (k # 0 => k - 1 \in 0..n /\ k - 1 < n)
          BY <2>2, <4>1
        <5>2. g[k] = IF k = 0 THEN base ELSE Apply(g[k - 1], c.templates[ts[k]])
          BY <3>2, <5>1 DEF Merges
        <5> QED BY <4>1, <5>1, <5>2
      <4>2. CASE k = n
        <5>1. n - 1 \in 0..n /\ n - 1 < n /\ n \in 0..n /\ ~(n < n)
          BY <2>2, <2>4
        <5>2. m[n - 1] = g[n - 1] /\ m[n] = Apply(g[n - 1], c.templates[ts[n]])
          BY <5>1
        <5> QED BY <2>4, <4>2, <5>2
      <4> QED BY <2>2, <4>1, <4>2
    <3>4. m = [k \in 0..n |-> IF k = 0 THEN base ELSE Apply(m[k - 1], c.templates[ts[k]])]
      BY <3>3
    <3> QED BY <2>2, <3>4 DEF Merges
  <2> QED BY <2>3, <2>4
<1> QED BY <1>1

\* EffectivePolicy: the templates one after the other, then the section.
LEMMA EffectivePolicySteps ==
  ASSUME NEW c, NEW d, NEW base, Len(c.datasets[d].templates) \in Nat
  PROVE  \E m : /\ Merges(m, c, c.datasets[d].templates, base, Len(c.datasets[d].templates))
                /\ EffectivePolicy(c, d, base)
                     = Apply(m[Len(c.datasets[d].templates)], c.datasets[d].policy)
<1> DEFINE ts == c.datasets[d].templates
           merged == CHOOSE m : Merges(m, c, ts, base, Len(ts))
<1>1. EffectivePolicy(c, d, base) = Apply(merged[Len(ts)], c.datasets[d].policy)
  BY DEF EffectivePolicy, Merges
<1>2. Merges(merged, c, ts, base, Len(ts))
  BY MergeExists
<1> HIDE DEF merged
<1> QED BY <1>1, <1>2

\* The first n templates of a section that set a field.
SetBefore(c, ts, n, f) == {k \in 1..n : f \in DOMAIN c.templates[ts[k]]}

\* A field of the policy with n templates is what the last of them that sets it
\* has set it to.
LastWins(m, c, ts, base, n, f) ==
  m[n][f] = IF SetBefore(c, ts, n, f) = {} THEN base[f]
            ELSE c.templates[ts[Max(SetBefore(c, ts, n, f))]][f]

\* Of the templates applied so far the last one that sets a field decides.
LEMMA LastTemplateWins ==
  ASSUME NEW c, NEW ts, NEW base, NEW l \in Nat, NEW m, Merges(m, c, ts, base, l),
         NEW f \in Fields
  PROVE  LastWins(m, c, ts, base, l, f)
<1> DEFINE Good(n) == LastWins(m, c, ts, base, n, f)
           Bad == {n \in 0..l : ~Good(n)}
<1>1. Bad = {}
  <2> SUFFICES ASSUME Bad # {} PROVE FALSE
    OBVIOUS
  <2>1. PICK n \in Bad : \A i \in Bad : n <= i
    <3>1. Bad \subseteq Nat
      OBVIOUS
    <3> HIDE DEF Bad
    <3> QED BY <3>1, Least
  <2>2. n \in 0..l /\ ~Good(n)
    BY <2>1
  <2>3. CASE n = 0
    <3>1. m[0] = base
      BY <2>2, <2>3 DEF Merges
    <3>2. SetBefore(c, ts, 0, f) = {}
      BY DEF SetBefore
    <3> QED BY <2>2, <2>3, <3>1, <3>2 DEF LastWins
  <2>4. CASE n # 0
    <3>1. n - 1 \in 0..l /\ n - 1 \notin Bad
      <4>1. n - 1 \in 0..l /\ ~(n <= n - 1)
        BY <2>2, <2>4
      <4> HIDE DEF Bad
      <4> QED BY <2>1, <4>1
    <3>2. Good(n - 1)
      BY <3>1
    <3>3. m[n] = Apply(m[n - 1], c.templates[ts[n]])
      BY <2>2, <2>4 DEF Merges
    <3>4. m[n][f] = IF f \in DOMAIN c.templates[ts[n]] THEN c.templates[ts[n]][f]
                    ELSE m[n - 1][f]
      BY <3>3 DEF Apply
    <3> HIDE DEF Bad
    <3>5. CASE f \in DOMAIN c.templates[ts[n]]
      <4>1. n \in SetBefore(c, ts, n, f) /\ SetBefore(c, ts, n, f) \subseteq 0..n
        BY <2>2, <2>4, <3>5 DEF SetBefore
      <4>2. Max(SetBefore(c, ts, n, f)) = n
        <5> DEFINE S == SetBefore(c, ts, n, f)
        <5>1. S \subseteq 0..n /\ n \in S /\ n \in Nat
          BY <2>2, <4>1
        <5> HIDE DEF S
        <5>2. Max(S) \in S /\ n <= Max(S)
          BY <5>1, Greatest
        <5> DEFINE greatest == Max(S)
        <5>3. greatest \in S /\ n <= greatest
          BY <5>2
        <5> HIDE DEF greatest
        <5>4. greatest \in 0..n
          BY <5>1, <5>3
        <5>5. greatest = n
          BY <5>1, <5>3, <5>4
        <5> QED BY <5>5 DEF S, greatest
      <4>3. SetBefore(c, ts, n, f) # {}
        BY <4>1
      <4> QED BY <2>2, <3>4, <3>5, <4>2, <4>3 DEF LastWins
    <3>6. CASE f \notin DOMAIN c.templates[ts[n]]
      <4>1. \A k : k \in 1..n <=> k \in 1..(n - 1) \/ k = n
        BY <2>2, <2>4
      <4>2. SetBefore(c, ts, n, f) = SetBefore(c, ts, n - 1, f)
        BY <3>6, <4>1 DEF SetBefore
      <4> QED BY <2>2, <3>2, <3>4, <3>6, <4>2 DEF LastWins
    <3> QED BY <3>5, <3>6
  <2> QED BY <2>3, <2>4
<1>2. Good(l)
  <2>1. l \in 0..l
    OBVIOUS
  <2> QED BY <1>1, <2>1
<1> QED BY <1>2

\* A sequence with one more at its end.
LEMMA OneMore ==
  ASSUME NEW S, NEW s \in Seq(S), NEW t \in Seq(S), Len(t) = 1
  PROVE  /\ DOMAIN (s \o t) = 1..(Len(s) + 1)
         /\ \A k \in 1..Len(s) : (s \o t)[k] = s[k]
         /\ (s \o t)[Len(s) + 1] = t[1]
<1>1. /\ Len(s \o t) = Len(s) + Len(t) /\ Len(s) \in Nat
      /\ DOMAIN (s \o t) = 1..Len(s \o t)
  BY ONLY s \in Seq(S), t \in Seq(S)
<1>2. \A k \in 1..Len(s) : (s \o t)[k] = s[k]
  BY ONLY s \in Seq(S), t \in Seq(S)
<1>3. \A k \in 1..Len(t) : (s \o t)[Len(s) + k] = t[k]
  BY ONLY s \in Seq(S), t \in Seq(S)
<1>4. 1 \in 1..Len(t)
  OBVIOUS
<1> QED BY <1>1, <1>2, <1>3, <1>4

\* The patches of a section are its templates and what it sets itself.
LEMMA PatchesInOrder ==
  ASSUME NEW s, Len(config.datasets[s].templates) \in Nat,
         DOMAIN config.datasets[s].templates = 1..Len(config.datasets[s].templates)
  PROVE  LET ts == config.datasets[s].templates
         IN  /\ DOMAIN Patches(s) = 1..(Len(ts) + 1)
             /\ \A k \in 1..Len(ts) : Patches(s)[k] = config.templates[ts[k]]
             /\ Patches(s)[Len(ts) + 1] = config.datasets[s].policy
<1> DEFINE ts == config.datasets[s].templates
           first == [k \in DOMAIN ts |-> config.templates[ts[k]]]
           S == {first[k] : k \in 1..Len(ts)} \cup {config.datasets[s].policy}
<1>1. first \in Seq(S) /\ Len(first) = Len(ts) /\ <<config.datasets[s].policy>> \in Seq(S)
  <2>1. first \in [1..Len(ts) -> S]
    OBVIOUS
  <2> HIDE DEF first, S
  <2>2. first \in Seq(S) /\ Len(first) = Len(ts)
    BY <2>1
  <2>3. config.datasets[s].policy \in S
    BY DEF S
  <2> QED BY <2>2, <2>3
<1>2. \A k \in 1..Len(ts) : first[k] = config.templates[ts[k]]
  OBVIOUS
<1>3. Patches(s) = first \o <<config.datasets[s].policy>>
  BY DEF Patches
<1> DEFINE last == <<config.datasets[s].policy>>
<1>6. last \in Seq(S) /\ Len(last) = 1 /\ last[1] = config.datasets[s].policy
  BY <1>1
<1>7. Patches(s) = first \o last
  BY <1>3
<1> HIDE DEF first, S, last
<1>4. /\ DOMAIN (first \o last) = 1..(Len(first) + 1)
      /\ \A k \in 1..Len(first) : (first \o last)[k] = first[k]
      /\ (first \o last)[Len(first) + 1] = last[1]
  BY <1>1, <1>6, OneMore
<1> QED BY <1>1, <1>2, <1>4, <1>6, <1>7

\* What a section makes of a field it sets.
Value(s, f) == Patches(s)[Max(Setting(s, f))][f]

\* effective_policy: a field the section sets, in a template or itself, is what
\* it sets it to last, and another stays as it was.
LEMMA PolicyMerged ==
  ASSUME Parsed(config), NEW s \in DOMAIN config.datasets, NEW base,
         NEW f \in Fields
  PROVE  EffectivePolicy(config, s, base)[f]
           = IF Setting(s, f) = {} THEN base[f] ELSE Value(s, f)
<1> DEFINE ts == config.datasets[s].templates
           before == SetBefore(config, ts, Len(ts), f)
<1>1. ts \in Seq(Range(ts))
  BY DEF Parsed
<1>2. Len(ts) \in Nat /\ DOMAIN ts = 1..Len(ts)
  <2> DEFINE R == Range(ts)
  <2> HIDE DEF R, ts
  <2>1. ts \in Seq(R)
    BY <1>1 DEF R
  <2> QED BY <2>1
<1>3. PICK m : /\ Merges(m, config, ts, base, Len(ts))
               /\ EffectivePolicy(config, s, base)
                    = Apply(m[Len(ts)], config.datasets[s].policy)
  BY <1>2, EffectivePolicySteps
<1>4. EffectivePolicy(config, s, base)[f]
        = IF f \in DOMAIN config.datasets[s].policy THEN config.datasets[s].policy[f]
          ELSE m[Len(ts)][f]
  BY <1>3 DEF Apply
<1>5. m[Len(ts)][f] = IF before = {} THEN base[f]
                      ELSE config.templates[ts[Max(before)]][f]
  <2>1. LastWins(m, config, ts, base, Len(ts), f)
    BY <1>2, <1>3, LastTemplateWins
  <2> QED BY <2>1 DEF LastWins
<1>6. /\ DOMAIN Patches(s) = 1..(Len(ts) + 1)
      /\ \A k \in 1..Len(ts) : Patches(s)[k] = config.templates[ts[k]]
      /\ Patches(s)[Len(ts) + 1] = config.datasets[s].policy
  BY <1>2, PatchesInOrder
<1> DEFINE l == Len(ts)
           own == DOMAIN config.datasets[s].policy
<1>7. \A k : k \in Setting(s, f) <=> k \in before \/ (k = l + 1 /\ f \in own)
  <2>1. \A k : k \in 1..(l + 1) <=> k \in 1..l \/ k = l + 1
    BY <1>2
  <2>2. \A k : k = l + 1 => k \notin 1..l
    BY <1>2
  <2> QED BY <1>6, <2>1, <2>2 DEF Setting, SetBefore
<1>8. before \subseteq 1..l
  BY DEF SetBefore
<1>9. CASE f \in own
  <2> DEFINE S == Setting(s, f)
  <2>1. l + 1 \in S /\ S \subseteq 0..(l + 1) /\ l + 1 \in Nat
    BY <1>2, <1>7, <1>8, <1>9
  <2> DEFINE greatest == Max(S)
  <2>2. greatest \in S /\ l + 1 <= greatest
    <3> HIDE DEF S
    <3> QED BY <2>1, Greatest
  <2> HIDE DEF greatest
  <2>3. greatest \in 0..(l + 1)
    BY <2>1, <2>2
  <2>4. greatest = l + 1
    BY <1>2, <2>2, <2>3
  <2>5. Value(s, f) = config.datasets[s].policy[f]
    BY <1>6, <2>4 DEF Value, greatest
  <2> QED BY <1>4, <1>9, <2>1, <2>5
<1>10. CASE f \notin own
  <2>1. Setting(s, f) = before
    BY <1>7, <1>10
  <2>2. ASSUME before # {}
        PROVE  Value(s, f) = config.templates[ts[Max(before)]][f]
    <3>1. Max(before) \in before
      <4>1. before \subseteq 0..l
        BY <1>8
      <4> HIDE DEF before
      <4> QED BY <1>2, <2>2, <4>1, Greatest
    <3>2. Max(before) \in 1..l
      BY <1>8, <3>1
    <3> QED BY <1>6, <2>1, <3>2 DEF Value
  <2> QED BY <1>4, <1>5, <1>10, <2>1, <2>2
<1> QED BY <1>9, <1>10

-----------------------------------------------------------------------------
(* The inductive invariant *)

Sections == DOMAIN config.datasets
Processed == Sections \ todo

\* The sections taken so far that reach a dataset, and those of them that set
\* a field.
ReachedBy(d) == {s \in Processed : d \in Targets(s)}
Setters(d, f) == {s \in ReachedBy(d) : Setting(s, f) # {}}

\* The one of the sections S with the longest name.
Nearest(s, S) == s \in S /\ \A e \in S : Len(e) <= Len(s)

\* What the loop does not change.
Given ==
  /\ Parsed(config) /\ Valid(config)
  /\ inventory \in Inventories
  /\ todo \subseteq Sections
  /\ failed \in BOOLEAN

\* No section is taken before a shorter one.
Ordered == \A s \in Processed, e \in todo : Len(s) <= Len(e)

\* The datasets of the sections taken exist.
Existing == Processed \subseteq inventory

\* What is managed is what the sections taken reach.
Managed == DOMAIN resolved = {d \in inventory : ReachedBy(d) # {}}

\* A field comes from the nearest section taken that sets it.
PolicyOf(d, f) ==
  \/ Setters(d, f) = {} /\ resolved[d].policy[f] = DefaultPolicy[f]
  \/ \E s \in Sections : Nearest(s, Setters(d, f)) /\ resolved[d].policy[f] = Value(s, f)

Policies == \A d \in DOMAIN resolved, f \in Fields : PolicyOf(d, f)

\* The nearest section taken decides who snapshots a dataset.
Strategies ==
  \A d \in DOMAIN resolved :
    \E s \in Sections : Nearest(s, ReachedBy(d)) /\ resolved[d].strategy = Strategy(d, s)

IInv == Given /\ Ordered /\ Existing /\ Managed /\ Policies /\ Strategies

\* The invariant holds before the first round: no section has been taken.
LEMMA StartIInv == Given /\ todo = Sections /\ resolved = <<>> => IInv
<1> SUFFICES ASSUME Given, todo = Sections, resolved = <<>> PROVE IInv
  OBVIOUS
<1>1. Processed = {} /\ DOMAIN resolved = {}
  BY DEF Processed
<1>2. \A d : ReachedBy(d) = {}
  BY <1>1 DEF ReachedBy
<1> QED BY <1>1, <1>2 DEF IInv, Ordered, Existing, Managed, Policies, Strategies

LEMMA InitIInv == ResolveInit => IInv
BY StartIInv, ResolveAssumption DEF ResolveInit, Given, Sections

\* What the configuration and the existing datasets determine stays.
LEMMA SameGiven ==
  ASSUME UNCHANGED <<config, inventory>>
  PROVE  /\ Sections' = Sections
         /\ \A s : Targets(s)' = Targets(s)
         /\ \A d, s : Strategy(d, s)' = Strategy(d, s)
         /\ \A s, f : Setting(s, f)' = Setting(s, f) /\ Value(s, f)' = Value(s, f)
<1>1. Sections' = Sections /\ \A s : Targets(s)' = Targets(s)
  BY DEF Sections, Targets
<1>2. \A d, s : Strategy(d, s)' = Strategy(d, s)
  BY DEF Strategy
<1>3. \A s : Patches(s)' = Patches(s)
  BY DEF Patches
<1>4. \A s, f : Setting(s, f)' = Setting(s, f)
  BY <1>3 DEF Setting
<1>5. \A s, f : Value(s, f)' = Value(s, f)
  BY <1>3, <1>4 DEF Value
<1> QED BY <1>1, <1>2, <1>4, <1>5

\* The targets of a section are its dataset and datasets below it that exist.
LEMMA TargetsWithin ==
  ASSUME Given
  PROVE  /\ (\A s \in Sections : IsName(s)) /\ (\A d \in inventory : IsName(d))
         /\ \A s \in Sections : \A d \in Targets(s) :
              /\ IsName(d) /\ Within(d, s)
              /\ s \in inventory => d \in inventory
<1>1. (\A s \in Sections : IsName(s)) /\ (\A d \in inventory : IsName(d))
  BY ResolveAssumption DEF Given, Sections, Parsed
<1> QED BY <1>1 DEF Targets, Within

\* What reaches the dataset of the next section also reaches what that section
\* reaches, and nothing taken before reaches the one and not the other.
LEMMA Inherited ==
  ASSUME Given, Ordered, Existing, NEW root \in todo, root \in inventory,
         NEW d \in Targets(root), NEW e \in Processed
  PROVE  d \in Targets(e) <=> root \in Targets(e)
<1>1. /\ root \in Sections /\ e \in Sections /\ root # e /\ e \in inventory
      /\ Len(e) <= Len(root)
  BY DEF Given, Ordered, Existing, Processed
<1>2. IsName(root) /\ IsName(e) /\ IsName(d) /\ Within(d, root) /\ d \in inventory
  BY <1>1, TargetsWithin
<1>3. ASSUME d \in Targets(e) PROVE root \in Targets(e)
  <2>1. Within(d, e)
    BY <1>1, <1>3, TargetsWithin
  <2>2. Below(root, e)
    BY <1>1, <1>2, <2>1, OneBranch DEF Within
  <2>3. d # e
    <3>1. CASE d = root
      BY <1>1, <3>1
    <3>2. CASE Below(d, root)
      <4>1. Len(root) < Len(d)
        BY <1>2, <3>2, BelowIsLonger
      <4> QED BY <1>1, <1>2, <4>1, NamesAreSequences
    <3> QED BY <1>2, <3>1, <3>2 DEF Within
  <2>4. config.datasets[e].recursive # "None"
    BY <1>3, <2>3 DEF Targets
  <2> QED BY <2>2, <2>4 DEF Targets
<1>4. ASSUME root \in Targets(e) PROVE d \in Targets(e)
  <2>1. Below(root, e) /\ config.datasets[e].recursive # "None"
    BY <1>1, <1>4 DEF Targets
  <2>2. Below(d, e)
    BY <1>2, <2>1, BelowAll
  <2> QED BY <1>2, <2>1, <2>2 DEF Targets
<1> QED BY <1>3, <1>4

\* One round of the loop keeps the invariant.
LEMMA SectionKeepsIInv ==
  ASSUME IInv, NEW root \in todo, ResolveSection(root)
  PROVE  IInv'
<1> DEFINE base == IF root \in DOMAIN resolved THEN resolved[root].policy ELSE DefaultPolicy
           policy == EffectivePolicy(config, root, base)
<1>1. /\ root \in inventory /\ todo' = todo \ {root} /\ root \in NextSections(todo)
      /\ UNCHANGED <<config, inventory, failed>>
      /\ resolved' = [d \in Targets(root) \cup DOMAIN resolved |->
                        IF d \in Targets(root)
                        THEN [policy |-> policy, strategy |-> Strategy(d, root)]
                        ELSE resolved[d]]
  BY DEF ResolveSection, ResolveTargets
<1> HIDE DEF policy
<1>2. /\ DOMAIN resolved' = Targets(root) \cup DOMAIN resolved
      /\ \A d \in Targets(root) : /\ resolved'[d].policy = policy
                                  /\ resolved'[d].strategy = Strategy(d, root)
      /\ \A d \in DOMAIN resolved \ Targets(root) : resolved'[d] = resolved[d]
  BY <1>1
<1>3. /\ Sections' = Sections
      /\ \A s : Targets(s)' = Targets(s)
      /\ \A d, s : Strategy(d, s)' = Strategy(d, s)
      /\ \A s, f : Setting(s, f)' = Setting(s, f) /\ Value(s, f)' = Value(s, f)
  BY <1>1, SameGiven
<1>4. Given' /\ Given
  BY <1>1, <1>3 DEF IInv, Given, Valid, SectionValid
<1>5. root \in Sections /\ Processed' = Processed \cup {root} /\ root \notin Processed
  BY <1>1, <1>3, <1>4 DEF Processed, Given
<1>6. /\ \A d : ReachedBy(d)' = IF d \in Targets(root)
                                THEN ReachedBy(d) \cup {root} ELSE ReachedBy(d)
      /\ \A d, f : Setters(d, f)' = IF d \in Targets(root) /\ Setting(root, f) # {}
                                    THEN Setters(d, f) \cup {root} ELSE Setters(d, f)
  <2>1. \A d : ReachedBy(d)' = IF d \in Targets(root)
                                THEN ReachedBy(d) \cup {root} ELSE ReachedBy(d)
    BY <1>3, <1>5 DEF ReachedBy
  <2> QED BY <1>3, <2>1 DEF Setters
<1>7. \A s \in Processed : Len(s) <= Len(root)
  BY DEF IInv, Ordered
<1>8. Ordered'
  <2>1. \A e \in todo : Len(root) <= Len(e)
    BY <1>1 DEF NextSections
  <2> QED BY <1>1, <1>5, <2>1 DEF IInv, Ordered
<1>9. Existing'
  BY <1>1, <1>5 DEF IInv, Existing
<1>10. Managed'
  <2>1. Targets(root) \subseteq inventory
    BY <1>1, <1>4, <1>5, TargetsWithin
  <2>2. DOMAIN resolved = {d \in inventory : ReachedBy(d) # {}}
    BY DEF IInv, Managed
  <2>3. DOMAIN resolved' = {d \in inventory : ReachedBy(d)' # {}}
    BY <1>2, <1>6, <2>1, <2>2
  <2> QED BY <1>1, <2>3 DEF Managed
<1>11. \A e \in Sections : Len(e) \in Nat
  BY <1>4, TargetsWithin, NamesAreSequences
<1>12. Policies'
  <2> SUFFICES ASSUME NEW d \in DOMAIN resolved', NEW f \in Fields PROVE PolicyOf(d, f)'
    BY DEF Policies
  <2>1. CASE d \notin Targets(root)
    <3>1. PolicyOf(d, f) /\ resolved'[d] = resolved[d] /\ Setters(d, f)' = Setters(d, f)
      BY <1>2, <1>6, <2>1 DEF IInv, Policies
    <3> QED BY <1>3, <3>1 DEF PolicyOf, Nearest
  <2>2. CASE d \in Targets(root) /\ Setting(root, f) # {}
    <3>1. resolved'[d].policy[f] = Value(root, f)
      BY <1>2, <1>4, <1>5, <2>2, PolicyMerged DEF policy, Given, Sections
    <3>2. Setters(d, f)' = Setters(d, f) \cup {root} /\ Setters(d, f) \subseteq Processed
      BY <1>6, <2>2 DEF Setters, ReachedBy
    <3>3. Nearest(root, Setters(d, f)')
      BY <1>5, <1>7, <1>11, <3>2 DEF Nearest
    <3> QED BY <1>3, <1>5, <3>1, <3>3 DEF PolicyOf
  <2>3. CASE d \in Targets(root) /\ Setting(root, f) = {}
    <3>1. resolved'[d].policy[f] = base[f]
      BY <1>2, <1>4, <1>5, <2>3, PolicyMerged DEF policy, Given, Sections
    <3>2. ReachedBy(d) = ReachedBy(root)
      BY <1>1, <1>4, <2>3, Inherited DEF IInv, ReachedBy
    <3>3. Setters(d, f)' = Setters(root, f)
      BY <1>6, <2>3, <3>2 DEF Setters
    <3>4. CASE root \in DOMAIN resolved
      <4>1. PolicyOf(root, f)
        BY <3>4 DEF IInv, Policies
      <4> QED BY <1>3, <3>1, <3>3, <3>4, <4>1 DEF PolicyOf
    <3>5. CASE root \notin DOMAIN resolved
      <4>1. Setters(root, f) = {}
        BY <1>1, <3>5 DEF IInv, Managed, Setters
      <4> QED BY <3>1, <3>3, <3>5, <4>1 DEF PolicyOf
    <3> QED BY <3>4, <3>5
  <2> QED BY <2>1, <2>2, <2>3
<1>13. Strategies'
  <2> SUFFICES ASSUME NEW d \in DOMAIN resolved'
               PROVE  \E s \in Sections : /\ Nearest(s, ReachedBy(d)')
                                          /\ resolved'[d].strategy = Strategy(d, s)
    BY <1>3 DEF Strategies
  <2>1. CASE d \notin Targets(root)
    BY <1>2, <1>6, <2>1 DEF IInv, Strategies
  <2>2. CASE d \in Targets(root)
    <3>1. ReachedBy(d)' = ReachedBy(d) \cup {root} /\ ReachedBy(d) \subseteq Processed
      BY <1>6, <2>2 DEF ReachedBy
    <3>2. Nearest(root, ReachedBy(d)')
      BY <1>5, <1>7, <1>11, <3>1 DEF Nearest
    <3> QED BY <1>2, <1>5, <2>2, <3>2
  <2> QED BY <2>1, <2>2
<1> QED BY <1>4, <1>8, <1>9, <1>10, <1>12, <1>13 DEF IInv

\* Every step keeps the invariant.
LEMMA NextIInv == IInv /\ [ResolveNext]_resolveVars => IInv'
<1> SUFFICES ASSUME IInv, [ResolveNext]_resolveVars PROVE IInv'
  OBVIOUS
<1>1. ASSUME NEW root \in todo, ResolveSection(root) PROVE IInv'
  BY <1>1, SectionKeepsIInv
<1>2. ASSUME UNCHANGED <<config, inventory, todo, resolved>>, failed' \in BOOLEAN PROVE IInv'
  <2>1. /\ Sections' = Sections
        /\ \A s : Targets(s)' = Targets(s)
        /\ \A d, s : Strategy(d, s)' = Strategy(d, s)
        /\ \A s, f : Setting(s, f)' = Setting(s, f) /\ Value(s, f)' = Value(s, f)
    BY <1>2, SameGiven
  <2>2. Processed' = Processed
    BY <1>2, <2>1 DEF Processed
  <2>3. \A d : ReachedBy(d)' = ReachedBy(d)
    BY <2>1, <2>2 DEF ReachedBy
  <2>4. \A d, f : Setters(d, f)' = Setters(d, f)
    BY <2>1, <2>3 DEF Setters
  <2>5. Given'
    BY <1>2, <2>1 DEF IInv, Given, Valid, SectionValid
  <2>6. Ordered' /\ Existing' /\ Managed'
    BY <1>2, <2>1, <2>2, <2>3 DEF IInv, Ordered, Existing, Managed
  <2>7. Policies'
    BY <1>2, <2>1, <2>4 DEF IInv, Policies, PolicyOf, Nearest
  <2>8. Strategies'
    BY <1>2, <2>1, <2>3 DEF IInv, Strategies, Nearest
  <2> QED BY <2>5, <2>6, <2>7, <2>8 DEF IInv
<1>3. ASSUME NEW root \in todo, FailSection(root) PROVE IInv'
  BY <1>2, <1>3 DEF FailSection
<1>4. CASE UNCHANGED resolveVars
  BY <1>2, <1>4 DEF resolveVars, IInv, Given
<1> QED BY <1>1, <1>3, <1>4 DEF ResolveNext

LEMMA InvAlways == ResolveSpec => []IInv
<1> QED BY InitIInv, NextIInv, PTL DEF ResolveSpec

-----------------------------------------------------------------------------
(* What it means for the result *)

\* At the end a section has been taken when it reaches a dataset.
LEMMA AllTaken ==
  ASSUME IInv, Done, NEW d \in inventory
  PROVE  ReachedBy(d) = Reaching(d)
<1>1. Processed = Sections
  BY DEF Done, Processed
<1> QED BY <1>1 DEF ReachedBy, Reaching, Targets, Sections

\* The nearest of the sections that reach a dataset is one section.
LEMMA NearestIsOne ==
  ASSUME IInv, NEW d, NEW S, S \subseteq ReachedBy(d),
         NEW s, NEW t, Nearest(s, S), Nearest(t, S)
  PROVE  s = t
<1>1. /\ s \in Sections /\ t \in Sections /\ d \in Targets(s) /\ d \in Targets(t)
      /\ Len(s) <= Len(t) /\ Len(t) <= Len(s)
  BY DEF Nearest, ReachedBy, Processed
<1>2. IsName(d) /\ IsName(s) /\ IsName(t) /\ Within(d, s) /\ Within(d, t)
  BY <1>1, TargetsWithin DEF IInv
<1>3. Len(s) = Len(t)
  BY <1>1, <1>2, NamesAreSequences
<1> QED BY <1>2, <1>3, OneOfEachLength

\* The managed datasets and their policies are what the administrator means.
LEMMA IInvNearest == IInv => NearestSectionWins
<1> SUFFICES ASSUME IInv, Done
             PROVE  /\ DOMAIN resolved = {d \in inventory : Reaching(d) # {}}
                    /\ \A d \in DOMAIN resolved, f \in Fields :
                         resolved[d].policy[f] = Meant(d, f)
  BY DEF NearestSectionWins
<1>1. DOMAIN resolved = {d \in inventory : Reaching(d) # {}}
  BY AllTaken DEF IInv, Managed
<1>2. ASSUME NEW d \in DOMAIN resolved, NEW f \in Fields
      PROVE  resolved[d].policy[f] = Meant(d, f)
  <2> DEFINE setting == {s \in Reaching(d) : Setting(s, f) # {}}
             nearest == CHOOSE s \in setting : \A e \in setting : Len(e) <= Len(s)
  <2>1. setting = Setters(d, f) /\ Setters(d, f) \subseteq ReachedBy(d)
    BY <1>1, AllTaken DEF Setters
  <2>2. Meant(d, f) = IF setting = {} THEN DefaultPolicy[f] ELSE Value(nearest, f)
    BY DEF Meant, Value
  <2>3. PolicyOf(d, f)
    BY DEF IInv, Policies
  <2>4. ASSUME NEW s, Nearest(s, Setters(d, f)) PROVE nearest = s /\ setting # {}
    <3>1. s \in setting /\ \A e \in setting : Len(e) <= Len(s)
      BY <2>1, <2>4 DEF Nearest
    <3> HIDE DEF setting
    <3>2. nearest \in setting /\ \A e \in setting : Len(e) <= Len(nearest)
      BY <3>1
    <3>3. Nearest(nearest, Setters(d, f))
      BY <2>1, <3>2 DEF Nearest
    <3> HIDE DEF nearest
    <3>4. nearest = s
      BY <2>1, <2>4, <3>3, NearestIsOne
    <3> QED BY <3>1, <3>4
  <2> HIDE DEF nearest, setting
  <2> QED BY <2>1, <2>2, <2>3, <2>4 DEF PolicyOf
<1> QED BY <1>1, <1>2

\* Which datasets are managed, and with which policy: whatever the order of
\* sections of one depth, resolve_datasets leaves each dataset that a section
\* reaches, and no other, and each field as the nearest such section sets it.
THEOREM NearestSectionDecides == ResolveSpec => []NearestSectionWins
<1> QED BY InvAlways, IInvNearest, PTL

\* A dataset whose snapshots take those below it with them is that of an
\* atomic section.
LEMMA RootsAreSections ==
  ASSUME IInv, Done, NEW s \in DOMAIN resolved, resolved[s].strategy.how = "RecursiveRoot"
  PROVE  s \in Sections /\ config.datasets[s].recursive = "Zfs" /\ IsName(s)
<1>1. PICK r \in Sections : Nearest(r, ReachedBy(s)) /\ resolved[s].strategy = Strategy(s, r)
  BY DEF IInv, Strategies
<1>2. config.datasets[r].recursive = "Zfs" /\ s = r
  BY <1>1 DEF Strategy
<1> QED BY <1>2, TargetsWithin DEF IInv

\* What an atomic section reaches, with its own dataset, and that no section is
\* below it.
LEMMA AtomicSection ==
  ASSUME IInv, Done, NEW s \in Sections, config.datasets[s].recursive = "Zfs"
  PROVE  /\ \A e \in Sections : ~Below(e, s)
         /\ s \in inventory /\ s \in ReachedBy(s) /\ IsName(s)
         /\ \A d \in inventory : Below(d, s) => s \in ReachedBy(d)
<1>1. s \in Processed
  BY DEF Done, Processed
<1>2. Valid(config) /\ ~config.datasets[s].childrenOnly
  BY DEF IInv, Given, Valid, SectionValid, Sections
<1>3. \A e \in Sections : ~Below(e, s)
  BY <1>2 DEF Valid, Sections
<1>4. s \in inventory /\ IsName(s)
  BY <1>1, TargetsWithin DEF IInv, Existing
<1> QED BY <1>1, <1>2, <1>3, <1>4 DEF ReachedBy, Targets

\* A snapshot of a dataset below s is taken by the command of s exactly when s
\* is an atomic root.
LEMMA TakenFromAbove ==
  ASSUME IInv, Done, NEW d \in inventory, NEW s \in DOMAIN resolved, s # d
  PROVE  d \in Snapshotted(s) <=> resolved[s].strategy.how = "RecursiveRoot" /\ Below(d, s)
<1>1. PICK r : resolved[s].strategy = Strategy(s, r)
  BY DEF IInv, Strategies
<1>2. resolved[s].strategy.how \in {"Individual", "RecursiveRoot", "CoveredByRecursive"}
  BY <1>1 DEF Strategy
<1>3. CASE resolved[s].strategy.how = "Individual"
  BY <1>3 DEF Snapshotted
<1>4. CASE resolved[s].strategy.how = "RecursiveRoot"
  BY <1>4 DEF Snapshotted
<1>5. CASE resolved[s].strategy.how = "CoveredByRecursive"
  BY <1>5 DEF Snapshotted
<1> QED BY <1>2, <1>3, <1>4, <1>5

\* An atomic root that snapshots a managed dataset is the nearest section that
\* reaches it, for no section is between them.
LEMMA RootIsNearest ==
  ASSUME IInv, Done, NEW d \in inventory, NEW s \in DOMAIN resolved, s # d,
         d \in Snapshotted(s), NEW n, Nearest(n, ReachedBy(d))
  PROVE  n = s
<1>1. resolved[s].strategy.how = "RecursiveRoot" /\ Below(d, s)
  BY TakenFromAbove
<1>2. s \in Sections /\ config.datasets[s].recursive = "Zfs" /\ IsName(s)
  BY <1>1, RootsAreSections
<1>3. (\A e \in Sections : ~Below(e, s)) /\ s \in ReachedBy(d)
  BY <1>1, <1>2, AtomicSection
<1>4. n \in Sections /\ d \in Targets(n) /\ Len(s) <= Len(n)
  BY <1>3 DEF Nearest, ReachedBy, Processed
<1>5. IsName(n) /\ IsName(d) /\ Within(d, n) /\ Within(d, s)
  BY <1>1, <1>4, TargetsWithin DEF IInv, Within
<1>6. Within(n, s)
  BY <1>2, <1>4, <1>5, OneBranch
<1> QED BY <1>3, <1>4, <1>6 DEF Within

\* A dataset is managed when some section reaches it.
LEMMA ManagedIsReachedBy ==
  ASSUME IInv, NEW d \in inventory
  PROVE  d \in DOMAIN resolved <=> ReachedBy(d) # {}
BY DEF IInv, Managed

\* The command of each dataset, and no other, is known from its nearest
\* section.
LEMMA ByOneCommand ==
  ASSUME IInv, Done, NEW d \in DOMAIN resolved
  PROVE  \E c \in DOMAIN resolved :
           \A s \in DOMAIN resolved : d \in Snapshotted(s) <=> s = c
<1>1. d \in inventory
  BY DEF IInv, Managed
<1>2. PICK n \in Sections : Nearest(n, ReachedBy(d)) /\ resolved[d].strategy = Strategy(d, n)
  BY DEF IInv, Strategies
<1>3. n \in ReachedBy(d) /\ d \in Targets(n)
  BY <1>2 DEF Nearest, ReachedBy
<1>4. ASSUME NEW s \in DOMAIN resolved, s # d, d \in Snapshotted(s)
      PROVE  /\ s = n /\ Below(d, n) /\ config.datasets[n].recursive = "Zfs"
  BY <1>1, <1>2, <1>4, RootIsNearest, TakenFromAbove, RootsAreSections
<1>5. CASE config.datasets[n].recursive # "Zfs"
  <2>1. d \in Snapshotted(d)
    BY <1>2, <1>5 DEF Snapshotted, Strategy
  <2> QED BY <1>4, <1>5, <2>1
<1>6. CASE config.datasets[n].recursive = "Zfs" /\ d = n
  <2>1. resolved[d].strategy.how = "RecursiveRoot"
    BY <1>2, <1>6 DEF Strategy
  <2>2. d \in Snapshotted(d)
    BY <2>1 DEF Snapshotted
  <2> QED BY <1>4, <1>6, <2>2
<1>7. CASE config.datasets[n].recursive = "Zfs" /\ d # n
  <2>1. resolved[d].strategy.how = "CoveredByRecursive"
    BY <1>2, <1>7 DEF Strategy
  <2>2. d \notin Snapshotted(d)
    BY <2>1 DEF Snapshotted
  <2>3. n \in inventory /\ n \in ReachedBy(n) /\ IsName(n)
    BY <1>7, AtomicSection
  <2>4. n \in DOMAIN resolved
    BY <2>3, ManagedIsReachedBy
  <2>5. PICK r \in Sections : /\ Nearest(r, ReachedBy(n))
                              /\ resolved[n].strategy = Strategy(n, r)
    BY <2>4 DEF IInv, Strategies
  <2>6. r = n
    <3>1. IsName(r) /\ n \in Targets(r) /\ Within(n, r) /\ Len(n) <= Len(r)
      BY <2>3, <2>5, TargetsWithin DEF IInv, Nearest, ReachedBy
    <3>2. ~Below(n, r)
      BY <2>3, <3>1, BelowIsLonger, NamesAreSequences
    <3> QED BY <3>1, <3>2 DEF Within
  <2>7. resolved[n].strategy.how = "RecursiveRoot"
    BY <1>7, <2>5, <2>6 DEF Strategy
  <2>8. Below(d, n)
    BY <1>7, <1>3, TargetsWithin DEF IInv, Within
  <2>9. d \in Snapshotted(n)
    BY <1>1, <1>7, <2>4, <2>7, <2>8, TakenFromAbove
  <2> QED BY <1>4, <2>2, <2>4, <2>9
<1> QED BY <1>5, <1>6, <1>7

\* No command reaches a dataset that is not managed.
LEMMA ByNoCommand ==
  ASSUME IInv, Done, NEW d \in inventory, d \notin DOMAIN resolved, NEW s \in DOMAIN resolved
  PROVE  d \notin Snapshotted(s)
<1> SUFFICES ASSUME d \in Snapshotted(s) PROVE FALSE
  OBVIOUS
<1>1. resolved[s].strategy.how = "RecursiveRoot" /\ Below(d, s)
  BY TakenFromAbove
<1>2. s \in Sections /\ config.datasets[s].recursive = "Zfs"
  BY <1>1, RootsAreSections
<1>3. s \in ReachedBy(d)
  BY <1>1, <1>2, AtomicSection
<1> QED BY <1>3, ManagedIsReachedBy

\* The commands for the resolved datasets, put together.
LEMMA IInvOneSnapshot == IInv => OneSnapshotEach
<1> SUFFICES ASSUME IInv, Done, NEW d \in inventory
             PROVE  Cardinality({s \in DOMAIN resolved : d \in Snapshotted(s)})
                      = IF d \in DOMAIN resolved THEN 1 ELSE 0
  BY DEF OneSnapshotEach
<1> DEFINE commands == {s \in DOMAIN resolved : d \in Snapshotted(s)}
<1>1. CASE d \in DOMAIN resolved
  <2>1. PICK c \in DOMAIN resolved : \A s \in DOMAIN resolved : d \in Snapshotted(s) <=> s = c
    BY <1>1, ByOneCommand
  <2>2. commands = {c}
    BY <2>1
  <2>3. Cardinality({c}) = 1
    BY FS_Singleton
  <2> QED BY <1>1, <2>2, <2>3
<1>2. CASE d \notin DOMAIN resolved
  <2>1. commands = {}
    BY <1>2, ByNoCommand
  <2>2. Cardinality({}) = 0
    BY FS_EmptySet
  <2> QED BY <1>2, <2>1, <2>2
<1> QED BY <1>1, <1>2

\* Every managed dataset is snapshotted by exactly one command and no other
\* dataset by any: with Config::validate's refusal of sections beneath an atomic
\* root, recursion modes neither overlap nor leave a dataset out.
THEOREM OneCommandEach == ResolveSpec => []OneSnapshotEach
<1> QED BY InvAlways, IInvOneSnapshot, PTL

-----------------------------------------------------------------------------
(* parse_sanoid *)

\* What parse_sanoid has after the first n lines.
Reads(r, lines, n) ==
  r = [k \in 0..n |-> IF k = 0 THEN Unparsed ELSE ParseLine(r[k - 1], lines[k])]

\* The recursive function of Parse exists.
LEMMA ReadExists ==
  ASSUME NEW lines, NEW l \in Nat
  PROVE  \E r : Reads(r, lines, l)
<1> DEFINE Without == {n \in Nat : ~\E r : Reads(r, lines, n)}
<1>1. Without = {}
  <2> SUFFICES ASSUME Without # {} PROVE FALSE
    OBVIOUS
  <2>1. PICK n \in Without : \A i \in Without : n <= i
    <3>1. Without \subseteq Nat
      OBVIOUS
    <3> HIDE DEF Without
    <3> QED BY <3>1, Least
  <2>2. n \in Nat /\ ~\E r : Reads(r, lines, n)
    BY <2>1
  <2>3. CASE n = 0
    <3> DEFINE r == [k \in 0..0 |-> Unparsed]
    <3>1. \A k \in 0..0 : k = 0
      OBVIOUS
    <3>2. r = [k \in 0..0 |-> IF k = 0 THEN Unparsed ELSE ParseLine(r[k - 1], lines[k])]
      BY <3>1
    <3> QED BY <3>2, <2>2, <2>3 DEF Reads
  <2>4. CASE n # 0
    <3>1. n - 1 \in Nat /\ ~(n <= n - 1)
      BY <2>2, <2>4
    <3>2. n - 1 \notin Without
      BY <3>1, <2>1
    <3>3. PICK q : Reads(q, lines, n - 1)
      BY <3>1, <3>2
    <3> DEFINE r == [k \in 0..n |-> IF k = n THEN ParseLine(q[n - 1], lines[n]) ELSE q[k]]
    <3>4. ASSUME NEW k \in 0..n
          PROVE  r[k] = IF k = 0 THEN Unparsed ELSE ParseLine(r[k - 1], lines[k])
      <4>1. CASE k = n
        <5>1. r[k - 1] = q[n - 1] /\ k # 0
          BY <4>1, <2>4, <3>1
        <5> QED BY <5>1, <4>1
      <4>2. CASE k # n
        <5>1. k \in 0..(n - 1) /\ (k # 0 => k - 1 \in 0..(n - 1))
          BY <4>2, <2>2
        <5>2. r[k] = q[k] /\ (k # 0 => r[k - 1] = q[k - 1])
          BY <5>1, <4>2, <2>2
        <5>3. q[k] = IF k = 0 THEN Unparsed ELSE ParseLine(q[k - 1], lines[k])
          BY <5>1, <3>3 DEF Reads
        <5> QED BY <5>2, <5>3
      <4> QED BY <4>1, <4>2
    <3>5. r = [k \in 0..n |-> r[k]]
      OBVIOUS
    <3>6. Reads(r, lines, n)
      <4> HIDE DEF r
      <4> QED BY <3>4, <3>5 DEF Reads
    <3> QED BY <3>6, <2>2
  <2> QED BY <2>3, <2>4
<1> QED BY <1>1

\* Parse takes one line after the other.
LEMMA ParsedByLines ==
  ASSUME NEW lines, Len(lines) \in Nat
  PROVE  \E r : Reads(r, lines, Len(lines)) /\ Parse(lines) = r[Len(lines)]
<1> DEFINE r == CHOOSE r : Reads(r, lines, Len(lines))
<1>1. Reads(r, lines, Len(lines))
  BY ReadExists
<1>2. Parse(lines) = r[Len(lines)]
  BY DEF Parse, Reads
<1> QED BY <1>1, <1>2

-----------------------------------------------------------------------------

\* The last header of the first n lines.
Opened(lines, n, name) ==
  \E h \in 1..n : /\ IsHeader(lines[h]) /\ lines[h].section = name
                  /\ \A j \in (h + 1)..n : ~IsHeader(lines[j])

SaysBy(lines, n, name, key) == {k \in Says(lines, name, key) : k <= n}

\* A section has the first of its settings of each key.
First(section, lines, n, name) ==
  /\ \A key : key \in DOMAIN section <=> SaysBy(lines, n, name, key) # {}
  /\ \A key \in DOMAIN section :
       \E k \in SaysBy(lines, n, name, key) :
         /\ \A j \in SaysBy(lines, n, name, key) : k <= j
         /\ section[key] = lines[k].value

\* What the loop of parse_sanoid keeps, unless a line was malformed.
Understood(p, lines, n) ==
  /\ p = [sections |-> p.sections, current |-> p.current, ok |-> p.ok]
  /\ p.ok =>
       /\ DOMAIN p.sections = {lines[h].section : h \in {i \in 1..n : IsHeader(lines[i])}}
       /\ \A name : Opened(lines, n, name) => p.current = name
       /\ p.current # <<>> => Opened(lines, n, p.current)
       /\ \A name \in DOMAIN p.sections : First(p.sections[name], lines, n, name)

\* A line is a setting of the section opened last.
LEMMA SaysAt ==
  ASSUME NEW lines, DOMAIN lines = 1..Len(lines), Len(lines) \in Nat, NEW n \in 1..Len(lines),
         NEW name, NEW key
  PROVE  n \in Says(lines, name, key)
           <=> ~IsHeader(lines[n]) /\ lines[n].key = key /\ Opened(lines, n - 1, name)
<1>1. \A h \in 1..(n - 1) : (h + 1)..n = ((h + 1)..(n - 1)) \cup {n}
  OBVIOUS
<1> QED BY <1>1 DEF Says, Opened

\* A header opens a section, which may have settings already.
LEMMA UnderstoodHeader ==
  ASSUME NEW lines, DOMAIN lines = 1..Len(lines), Len(lines) \in Nat, NEW n \in 1..Len(lines),
         NEW p, Understood(p, lines, n - 1), IsHeader(lines[n])
  PROVE  Understood(ParseLine(p, lines[n]), lines, n)
<1> DEFINE q == ParseLine(p, lines[n])
           this == lines[n].section
<1>1. q = [sections |-> Over(p.sections, [name \in {this} |-> <<>>]), current |-> this,
           ok |-> p.ok]
  BY DEF ParseLine, Understood
<1> HIDE DEF q
<1> SUFFICES ASSUME p.ok
             PROVE  /\ DOMAIN q.sections
                         = {lines[h].section : h \in {i \in 1..n : IsHeader(lines[i])}}
                    /\ \A name : Opened(lines, n, name) => this = name
                    /\ Opened(lines, n, this)
                    /\ \A name \in DOMAIN q.sections : First(q.sections[name], lines, n, name)
  BY <1>1 DEF Understood, q
<1>2. 1..n = (1..(n - 1)) \cup {n} /\ n \notin 1..(n - 1)
  OBVIOUS
<1>3. DOMAIN q.sections = DOMAIN p.sections \cup {this}
  BY <1>1 DEF Over
<1>4. DOMAIN q.sections = {lines[h].section : h \in {i \in 1..n : IsHeader(lines[i])}}
  BY <1>2, <1>3 DEF Understood
<1>5. Opened(lines, n, this)
  BY <1>2 DEF Opened
<1>6. ASSUME NEW name, Opened(lines, n, name) PROVE this = name
  <2>1. PICK h \in 1..n : /\ IsHeader(lines[h]) /\ lines[h].section = name
                          /\ \A j \in (h + 1)..n : ~IsHeader(lines[j])
    BY <1>6 DEF Opened
  <2>2. h = n
    BY <2>1
  <2> QED BY <2>1, <2>2
<1>7. ASSUME NEW name, NEW key
      PROVE  SaysBy(lines, n, name, key) = SaysBy(lines, n - 1, name, key)
  <2>1. n \notin Says(lines, name, key)
    BY SaysAt
  <2>2. \A k \in Says(lines, name, key) : k \in 1..Len(lines)
    BY DEF Says
  <2>3. \A k \in 1..Len(lines) : k <= n <=> k <= n - 1 \/ k = n
    OBVIOUS
  <2> QED BY <2>1, <2>2, <2>3 DEF SaysBy
<1>8. ASSUME NEW name \in DOMAIN q.sections PROVE First(q.sections[name], lines, n, name)
  <2>1. CASE name \in DOMAIN p.sections
    <3>1. q.sections[name] = p.sections[name]
      BY <1>1, <2>1 DEF Over
    <3>2. First(p.sections[name], lines, n - 1, name)
      BY <2>1 DEF Understood
    <3> QED BY <3>1, <3>2, <1>7 DEF First
  <2>2. CASE name \notin DOMAIN p.sections
    <3>1. q.sections[name] = <<>>
      BY <1>1, <1>3, <2>2 DEF Over
    <3>2. DOMAIN q.sections[name] = {}
      BY <3>1
    <3>3. ASSUME NEW key PROVE SaysBy(lines, n - 1, name, key) = {}
      <4>1. ASSUME NEW k \in SaysBy(lines, n - 1, name, key) PROVE FALSE
        <5>1. k \in 1..Len(lines) /\ k <= n - 1 /\ Opened(lines, k - 1, name)
          <6>1. k \in 1..Len(lines) /\ k <= n - 1 /\ k \in Says(lines, name, key)
            BY DEF SaysBy, Says
          <6> QED BY <6>1, SaysAt
        <5>2. PICK h \in 1..(k - 1) : IsHeader(lines[h]) /\ lines[h].section = name
          BY <5>1 DEF Opened
        <5>3. h \in 1..(n - 1)
          BY <5>1
        <5> QED BY <5>2, <5>3, <2>2 DEF Understood
      <4> QED BY <4>1
    <3> QED BY <3>2, <3>3, <1>7 DEF First
  <2> QED BY <2>1, <2>2
<1> QED BY <1>4, <1>5, <1>6, <1>8

\* A setting goes to the section opened last, if it is its first of the key.
LEMMA UnderstoodSetting ==
  ASSUME NEW lines, DOMAIN lines = 1..Len(lines), Len(lines) \in Nat, NEW n \in 1..Len(lines),
         NEW p, Understood(p, lines, n - 1), ~IsHeader(lines[n])
  PROVE  Understood(ParseLine(p, lines[n]), lines, n)
<1> DEFINE q == ParseLine(p, lines[n])
           line == lines[n]
           this == p.current
<1>1. CASE this = <<>> \/ line.key = ""
  <2>1. q = [sections |-> p.sections, current |-> p.current, ok |-> FALSE]
    BY <1>1 DEF ParseLine, Understood
  <2> QED BY <2>1 DEF Understood
<1>2. CASE ~(this = <<>> \/ line.key = "") /\ ~p.ok
  <2> DEFINE s == [p.sections EXCEPT ![this] = Over(@, [key \in {line.key} |-> line.value])]
  <2>1. q = [sections |-> s, current |-> this, ok |-> p.ok]
    BY <1>2 DEF ParseLine, Understood
  <2> HIDE DEF q, s
  <2>2. Understood(q, lines, n)
    BY <2>1, <1>2 DEF Understood
  <2> QED BY <2>2 DEF q
<1>3. CASE this # <<>> /\ line.key # "" /\ p.ok
  <2> DEFINE s == [p.sections EXCEPT ![this] = Over(@, [key \in {line.key} |-> line.value])]
             settings == Over(p.sections[this], [key \in {line.key} |-> line.value])
  <2>1. q = [sections |-> s, current |-> this, ok |-> TRUE]
    BY <1>3 DEF ParseLine, Understood
  <2>2. 1..n = (1..(n - 1)) \cup {n} /\ n \notin 1..(n - 1)
    OBVIOUS
  <2>3. {i \in 1..n : IsHeader(lines[i])} = {i \in 1..(n - 1) : IsHeader(lines[i])}
    BY <2>2
  <2>4. ASSUME NEW name PROVE Opened(lines, n, name) <=> Opened(lines, n - 1, name)
    <3>1. \A h \in 1..(n - 1) : (h + 1)..n = ((h + 1)..(n - 1)) \cup {n}
      OBVIOUS
    <3> QED BY <2>2, <3>1 DEF Opened
  <2>5. this \in DOMAIN p.sections /\ Opened(lines, n - 1, this)
    <3>1. Opened(lines, n - 1, this)
      BY <1>3 DEF Understood
    <3> QED BY <3>1, <1>3 DEF Opened, Understood
  <2>6. /\ DOMAIN s = DOMAIN p.sections
        /\ s[this] = settings
        /\ \A name \in DOMAIN p.sections : name # this => s[name] = p.sections[name]
    BY <2>5
  <2>7. ASSUME NEW name, NEW key
        PROVE  \A k : k \in SaysBy(lines, n, name, key)
                       <=> \/ k \in SaysBy(lines, n - 1, name, key)
                           \/ k = n /\ name = this /\ key = line.key
    <3>1. n \in Says(lines, name, key) <=> key = line.key /\ Opened(lines, n - 1, name)
      BY SaysAt
    <3>2. Opened(lines, n - 1, name) <=> name = this
      BY <2>5, <1>3 DEF Understood
    <3>3. \A k \in Says(lines, name, key) : k \in 1..Len(lines)
      BY DEF Says
    <3>4. \A k \in 1..Len(lines) : k <= n <=> k <= n - 1 \/ k = n
      OBVIOUS
    <3> QED BY <3>1, <3>2, <3>3, <3>4 DEF SaysBy
  <2>8. \A name \in DOMAIN p.sections : First(p.sections[name], lines, n - 1, name)
    BY <1>3 DEF Understood
  <2>9. First(settings, lines, n, this)
    <3>1. /\ DOMAIN settings = DOMAIN p.sections[this] \cup {line.key}
          /\ \A key \in DOMAIN p.sections[this] : settings[key] = p.sections[this][key]
          /\ line.key \notin DOMAIN p.sections[this] => settings[line.key] = line.value
      BY DEF Over
    <3> HIDE DEF settings
    <3>2. First(p.sections[this], lines, n - 1, this)
      BY <2>8, <2>5
    <3>3. ASSUME NEW key PROVE key \in DOMAIN settings <=> SaysBy(lines, n, this, key) # {}
      <4>1. key \in DOMAIN p.sections[this] <=> SaysBy(lines, n - 1, this, key) # {}
        BY <3>2 DEF First
      <4>2. SaysBy(lines, n, this, key) # {}
              <=> SaysBy(lines, n - 1, this, key) # {} \/ key = line.key
        BY <2>7
      <4> QED BY <4>1, <4>2, <3>1
    <3>4. ASSUME NEW key \in DOMAIN settings
          PROVE  \E k \in SaysBy(lines, n, this, key) :
                   /\ \A j \in SaysBy(lines, n, this, key) : k <= j
                   /\ settings[key] = lines[k].value
      <4>1. CASE key \in DOMAIN p.sections[this]
        <5>1. PICK k \in SaysBy(lines, n - 1, this, key) :
                /\ \A j \in SaysBy(lines, n - 1, this, key) : k <= j
                /\ p.sections[this][key] = lines[k].value
          BY <4>1, <3>2 DEF First
        <5>2. k <= n
          BY DEF SaysBy, Says
        <5> QED BY <5>1, <5>2, <3>1, <4>1, <2>7
      <4>2. CASE key \notin DOMAIN p.sections[this]
        <5>1. key = line.key /\ settings[key] = lines[n].value
          BY <4>2, <3>1
        <5>2. SaysBy(lines, n - 1, this, key) = {}
          BY <4>2, <3>2 DEF First
        <5>3. SaysBy(lines, n, this, key) = {n}
          BY <5>1, <5>2, <2>7
        <5> QED BY <5>1, <5>3
      <4> QED BY <4>1, <4>2
    <3> QED BY <3>3, <3>4 DEF First
  <2>10. ASSUME NEW name \in DOMAIN s PROVE First(s[name], lines, n, name)
    <3>1. CASE name = this
      BY <3>1, <2>6, <2>9
    <3>2. CASE name # this
      <4>1. s[name] = p.sections[name] /\ First(p.sections[name], lines, n - 1, name)
        BY <3>2, <2>6, <2>8
      <4>2. ASSUME NEW key
            PROVE  SaysBy(lines, n, name, key) = SaysBy(lines, n - 1, name, key)
        <5>1. \A k : k \in SaysBy(lines, n, name, key)
                     <=> k \in SaysBy(lines, n - 1, name, key)
          BY <3>2, <2>7
        <5>2. SaysBy(lines, n, name, key) \subseteq SaysBy(lines, n - 1, name, key)
          BY <5>1
        <5>3. SaysBy(lines, n - 1, name, key) \subseteq SaysBy(lines, n, name, key)
          BY <5>1
        <5> QED BY <5>2, <5>3
      <4> QED BY <4>1, <4>2 DEF First
    <3> QED BY <3>1, <3>2
  <2> HIDE DEF q, s
  <2>11. DOMAIN s = {lines[h].section : h \in {i \in 1..n : IsHeader(lines[i])}}
    BY <2>3, <2>6, <1>3 DEF Understood
  <2>12. /\ \A name : Opened(lines, n, name) => this = name
         /\ Opened(lines, n, this)
    BY <2>4, <2>5, <1>3 DEF Understood
  <2>13. Understood(q, lines, n)
    BY <2>1, <2>10, <2>11, <2>12 DEF Understood
  <2> QED BY <2>13 DEF q
<1> QED BY <1>1, <1>2, <1>3 DEF Understood

\* parse_sanoid understands every file.
LEMMA ParseUnderstands ==
  ASSUME NEW lines, DOMAIN lines = 1..Len(lines), Len(lines) \in Nat
  PROVE  Understood(Parse(lines), lines, Len(lines))
<1>1. PICK r : Reads(r, lines, Len(lines)) /\ Parse(lines) = r[Len(lines)]
  BY ParsedByLines
<1> DEFINE Lost == {n \in 0..Len(lines) : ~Understood(r[n], lines, n)}
<1>2. Lost = {}
  <2> SUFFICES ASSUME Lost # {} PROVE FALSE
    OBVIOUS
  <2>1. PICK n \in Lost : \A i \in Lost : n <= i
    <3>1. Lost \subseteq Nat
      OBVIOUS
    <3> HIDE DEF Lost
    <3> QED BY <3>1, Least
  <2>2. n \in 0..Len(lines) /\ ~Understood(r[n], lines, n)
    BY <2>1
  <2>3. CASE n = 0
    <3>1. r[0] = [sections |-> <<>>, current |-> <<>>, ok |-> TRUE]
      BY <1>1 DEF Reads, Unparsed
    <3>2. \A name : ~Opened(lines, 0, name)
      BY DEF Opened
    <3>3. /\ DOMAIN <<>> = {}
          /\ {lines[h].section : h \in {i \in 1..0 : IsHeader(lines[i])}} = {}
      OBVIOUS
    <3>4. Understood(r[0], lines, 0)
      BY <3>1, <3>2, <3>3 DEF Understood
    <3> QED BY <3>4, <2>2, <2>3
  <2>4. CASE n # 0
    <3>1. n \in 1..Len(lines) /\ n - 1 \in 0..Len(lines) /\ ~(n <= n - 1)
      BY <2>2, <2>4
    <3>2. Understood(r[n - 1], lines, n - 1)
      BY <2>1, <3>1
    <3>3. r[n] = ParseLine(r[n - 1], lines[n])
      BY <1>1, <3>1 DEF Reads
    <3> QED BY <3>1, <3>2, <3>3, <2>2, UnderstoodHeader, UnderstoodSetting
  <2> QED BY <2>3, <2>4
<1> QED BY <1>1, <1>2

\* A file that parses is understood as what its lines say.
LEMMA SettingsSaid ==
  ASSUME NEW lines, Lines(lines), Parse(lines).ok
  PROVE  LET sections == Parse(lines).sections
         IN  /\ IsFiniteSet(DOMAIN sections)
             /\ \A name \in DOMAIN sections :
                  /\ \E line \in Range(lines) : IsHeader(line) /\ line.section = name
                  /\ \A key : key \in DOMAIN sections[name] <=> Says(lines, name, key) # {}
                  /\ \A key \in DOMAIN sections[name] :
                       /\ sections[name][key] = Said(lines, name, key)
                       /\ \E line \in Range(lines) :
                            /\ ~IsHeader(line) /\ line.key = key
                            /\ line.value = sections[name][key]
<1> DEFINE sections == Parse(lines).sections
           l == Len(lines)
           headers == {i \in 1..l : IsHeader(lines[i])}
<1>1. DOMAIN lines = 1..l /\ l \in Nat
  BY DEF Lines
<1>2. /\ DOMAIN sections = {lines[h].section : h \in headers}
      /\ \A name \in DOMAIN sections : First(sections[name], lines, l, name)
  BY <1>1, ParseUnderstands DEF Understood
<1> HIDE DEF sections
<1>3. IsFiniteSet(DOMAIN sections)
  <2>1. IsFiniteSet(1..l)
    BY <1>1, FS_Interval
  <2>2. IsFiniteSet(headers)
    BY <2>1, FS_Subset
  <2> DEFINE f == [h \in headers |-> lines[h].section]
  <2>3. f \in Surjection(headers, DOMAIN sections)
    BY <1>2 DEF Surjection
  <2> HIDE DEF f, headers
  <2> QED BY <2>2, <2>3, FS_Surjection
<1>4. ASSUME NEW name \in DOMAIN sections
      PROVE  \E line \in Range(lines) : IsHeader(line) /\ line.section = name
  BY <1>1, <1>2 DEF Range
<1>5. ASSUME NEW name, NEW key
      PROVE  /\ SaysBy(lines, l, name, key) = Says(lines, name, key)
             /\ Says(lines, name, key) \subseteq 1..l
  BY <1>1 DEF SaysBy, Says
<1>6. ASSUME NEW name \in DOMAIN sections, NEW key \in DOMAIN sections[name]
      PROVE  /\ sections[name][key] = Said(lines, name, key)
             /\ \E line \in Range(lines) : /\ ~IsHeader(line) /\ line.key = key
                                           /\ line.value = sections[name][key]
  <2>1. PICK k \in Says(lines, name, key) :
          /\ \A j \in Says(lines, name, key) : k <= j
          /\ sections[name][key] = lines[k].value
    <3>1. First(sections[name], lines, l, name)
      BY <1>2
    <3> QED BY <3>1, <1>5 DEF First
  <2>2. Min(Says(lines, name, key)) = k
    <3>1. \A j \in Says(lines, name, key) : j \in 1..l
      BY <1>5
    <3>2. \A j \in Says(lines, name, key) :
            (\A i \in Says(lines, name, key) : j <= i) => j = k
      BY <2>1, <3>1, <1>1
    <3> QED BY <2>1, <3>2 DEF Min
  <2>3. lines[k] \in Range(lines) /\ ~IsHeader(lines[k]) /\ lines[k].key = key
    BY <1>1 DEF Says, Range
  <2> QED BY <2>1, <2>2, <2>3 DEF Said
<1>7. ASSUME NEW name \in DOMAIN sections, NEW key
      PROVE  key \in DOMAIN sections[name] <=> Says(lines, name, key) # {}
  BY <1>2, <1>5 DEF First
<1> QED BY <1>3, <1>4, <1>6, <1>7 DEF sections

-----------------------------------------------------------------------------
(* Values *)

\* Every setting of a file is valid where it is converted.
Fine(lines) ==
  \A line \in Range(lines) :
    ~IsHeader(line) /\ line.key \in Fields =>
      Converted(line.key, line.value) \in ValidValues[line.key]

\* apply_policy makes a valid patch of every section of such a file.
LEMMA PatchFine ==
  ASSUME NEW lines, Lines(lines), Parse(lines).ok, Fine(lines), NEW name
  PROVE  PatchValid(Patch(Section(Parse(lines).sections, name)))
<1> DEFINE sections == Parse(lines).sections
           section == Section(sections, name)
<1>1. ASSUME NEW key \in DOMAIN section \cap Fields
      PROVE  Converted(key, section[key]) \in ValidValues[key]
  <2>1. name \in DOMAIN sections /\ section = sections[name]
    <3>1. DOMAIN <<>> = {}
      OBVIOUS
    <3> QED BY <3>1 DEF Section
  <2>2. PICK line \in Range(lines) : /\ ~IsHeader(line) /\ line.key = key
                                     /\ line.value = sections[name][key]
    BY <2>1, SettingsSaid
  <2> QED BY <2>1, <2>2 DEF Fine
<1> HIDE DEF section
<1>2. PatchValid(Patch(section))
  BY <1>1 DEF PatchValid, Patch
<1> QED BY <1>2 DEF section

\* Two valid patches are one.
LEMMA OverValid ==
  ASSUME NEW first, NEW second, PatchValid(first), PatchValid(second)
  PROVE  PatchValid(Over(first, second))
BY DEF PatchValid, Over

\* Every template that is written is valid, Sanoid's own defaults included.
LEMMA TemplatesFine ==
  ASSUME NEW main, Lines(main), Parse(main).ok, Fine(main),
         NEW defaults, Lines(defaults), Parse(defaults).ok, Fine(defaults)
  PROVE  LET templates == Templates(Parse(main).sections, Parse(defaults).sections)
         IN  \A t \in DOMAIN templates : PatchValid(templates[t])
<1> DEFINE sections == Parse(main).sections
           others == Parse(defaults).sections
           default == Patch(Section(sections, TemplateDefault))
           standard == [f \in Fields \cap DOMAIN StandardDefaults |-> StandardDefaults[f]]
           base == Over(default, Over(Patch(Section(others, TemplateDefault)), standard))
           templates == Templates(sections, others)
<1>1. PatchValid(default)
  BY PatchFine
<1>2. PatchValid(base)
  <2>1. PatchValid(standard)
    BY MigrationAssumption DEF PatchValid
  <2>2. PatchValid(Patch(Section(others, TemplateDefault)))
    BY PatchFine
  <2> HIDE DEF default, standard
  <2> QED BY <1>1, <2>1, <2>2, OverValid
<1>3. ASSUME NEW name \in TemplateNames(sections) PROVE PatchValid(Patch(sections[name]))
  <2>1. Section(sections, name) = sections[name]
    BY DEF TemplateNames, Section
  <2>2. PatchValid(Patch(Section(sections, name)))
    BY PatchFine
  <2> QED BY <2>1, <2>2
<1> DEFINE generated ==
             Over([name \in {BaseName(sections)} |-> base],
                  IF TemplateDefault \in DOMAIN sections
                  THEN [name \in {UserDefaultName(sections)} |-> default] ELSE <<>>)
           named == [name \in TemplateNames(sections) |-> Patch(sections[name])]
<1>4. templates = Over(generated, named)
  BY DEF Templates
<1> HIDE DEF default, base, templates, sections
<1>5. ASSUME NEW t \in DOMAIN generated PROVE PatchValid(generated[t])
  <2>1. DOMAIN <<>> = {}
    OBVIOUS
  <2> QED BY <2>1, <1>1, <1>2 DEF Over
<1>6. ASSUME NEW t \in DOMAIN named PROVE PatchValid(named[t])
  BY <1>3
<1> HIDE DEF generated, named
<1>7. \A t \in DOMAIN templates : PatchValid(templates[t])
  BY <1>4, <1>5, <1>6 DEF Over
<1> QED BY <1>7 DEF templates, sections

-----------------------------------------------------------------------------
(* Templates *)

\* The value of use_template.
Listed(section) ==
  IF "use_template" \in DOMAIN section THEN section.use_template ELSE <<>>

\* What parse_template_list can put into its list.
Usable(sections, section) ==
  {<<"template_", x>> : x \in Range(Listed(section)) \ {"default"}}
    \cup (IF TemplateDefault \in DOMAIN sections THEN {UserDefaultName(sections)} ELSE {})

\* u[k] is the list after k names.
Uses(u, sections, section, n) ==
  u = [k \in 0..n |->
         IF k = 0 THEN <<>>
         ELSE IF Listed(section)[k] # "default"
         THEN Append(u[k - 1], <<"template_", Listed(section)[k]>>)
         ELSE IF TemplateDefault \in DOMAIN sections
         THEN Append(u[k - 1], UserDefaultName(sections))
         ELSE u[k - 1]]

\* The recursive function of UseTemplates exists.
LEMMA UsesExists ==
  ASSUME NEW sections, NEW section, NEW l \in Nat
  PROVE  \E u : Uses(u, sections, section, l)
<1> DEFINE listed == Listed(section)
           Step(before, k) ==
             IF listed[k] # "default" THEN Append(before, <<"template_", listed[k]>>)
             ELSE IF TemplateDefault \in DOMAIN sections
             THEN Append(before, UserDefaultName(sections))
             ELSE before
           Without == {n \in Nat : ~\E u : Uses(u, sections, section, n)}
<1>1. ASSUME NEW u, NEW n
      PROVE  Uses(u, sections, section, n)
               <=> u = [k \in 0..n |-> IF k = 0 THEN <<>> ELSE Step(u[k - 1], k)]
  BY DEF Uses
<1> HIDE DEF Step
<1>2. Without = {}
  <2> SUFFICES ASSUME Without # {} PROVE FALSE
    OBVIOUS
  <2>1. PICK n \in Without : \A i \in Without : n <= i
    <3>1. Without \subseteq Nat
      OBVIOUS
    <3> HIDE DEF Without
    <3> QED BY <3>1, Least
  <2>2. n \in Nat /\ ~\E u : Uses(u, sections, section, n)
    BY <2>1
  <2>3. CASE n = 0
    <3> DEFINE u == [k \in 0..0 |-> <<>>]
    <3>1. \A k \in 0..0 : k = 0
      OBVIOUS
    <3>2. u = [k \in 0..0 |-> IF k = 0 THEN <<>> ELSE Step(u[k - 1], k)]
      BY <3>1
    <3> HIDE DEF u
    <3> QED BY <3>2, <1>1, <2>2, <2>3
  <2>4. CASE n # 0
    <3>1. n - 1 \in Nat /\ ~(n <= n - 1)
      BY <2>2, <2>4
    <3>2. n - 1 \notin Without
      BY <3>1, <2>1
    <3>3. PICK q : Uses(q, sections, section, n - 1)
      BY <3>1, <3>2
    <3> DEFINE u == [k \in 0..n |-> IF k = n THEN Step(q[n - 1], n) ELSE q[k]]
    <3>4. ASSUME NEW k \in 0..n
          PROVE  u[k] = IF k = 0 THEN <<>> ELSE Step(u[k - 1], k)
      <4>1. CASE k = n
        <5>1. u[k - 1] = q[n - 1] /\ k # 0
          BY <4>1, <2>4, <3>1
        <5> QED BY <5>1, <4>1
      <4>2. CASE k # n
        <5>1. k \in 0..(n - 1) /\ (k # 0 => k - 1 \in 0..(n - 1))
          BY <4>2, <2>2
        <5>2. u[k] = q[k] /\ (k # 0 => u[k - 1] = q[k - 1])
          BY <5>1, <4>2, <2>2
        <5>3. q = [i \in 0..(n - 1) |-> IF i = 0 THEN <<>> ELSE Step(q[i - 1], i)]
          BY <3>3, <1>1
        <5>4. q[k] = IF k = 0 THEN <<>> ELSE Step(q[k - 1], k)
          BY <5>1, <5>3
        <5> QED BY <5>2, <5>4
      <4> QED BY <4>1, <4>2
    <3>5. u = [k \in 0..n |-> u[k]]
      OBVIOUS
    <3> HIDE DEF u
    <3>6. u = [k \in 0..n |-> IF k = 0 THEN <<>> ELSE Step(u[k - 1], k)]
      BY <3>4, <3>5
    <3> QED BY <3>6, <1>1, <2>2
  <2> QED BY <2>3, <2>4
<1> QED BY <1>2

\* A section's templates are a list of such names.
LEMMA TemplatesUsed ==
  ASSUME NEW sections, NEW name,
         Listed(sections[name]) \in Seq(Range(Listed(sections[name])))
  PROVE  UseTemplates(sections, name) \in Seq(Usable(sections, sections[name]))
<1> DEFINE section == sections[name]
           l == Len(Listed(section))
           T == Usable(sections, section)
           u == CHOOSE u : Uses(u, sections, section, l)
           Wrong == {n \in 0..l : u[n] \notin Seq(T)}
<1>1. l \in Nat /\ \A k \in 1..l : Listed(section)[k] \in Range(Listed(section))
  BY DEF Range
<1>2. Uses(u, sections, section, l)
  BY <1>1, UsesExists
<1>3. UseTemplates(sections, name) = u[l]
  BY DEF UseTemplates, Uses, Listed
<1> HIDE DEF u
<1>4. Wrong = {}
  <2> SUFFICES ASSUME Wrong # {} PROVE FALSE
    OBVIOUS
  <2>1. PICK n \in Wrong : \A i \in Wrong : n <= i
    <3>1. Wrong \subseteq Nat
      BY <1>1
    <3> HIDE DEF Wrong
    <3> QED BY <3>1, Least
  <2>2. n # 0
    <3>1. u[0] = <<>>
      BY <1>1, <1>2 DEF Uses
    <3>2. <<>> \in Seq(T)
      OBVIOUS
    <3> HIDE DEF T
    <3> QED BY <2>1, <3>1, <3>2
  <2>3. n \in 1..l /\ n - 1 \in 0..l /\ ~(n <= n - 1)
    BY <1>1, <2>1, <2>2
  <2>4. u[n - 1] \in Seq(T)
    BY <2>1, <2>3
  <2>5. Listed(section)[n] # "default" => <<"template_", Listed(section)[n]>> \in T
    BY <1>1, <2>3 DEF Usable
  <2>6. TemplateDefault \in DOMAIN sections => UserDefaultName(sections) \in T
    BY DEF Usable
  <2>7. u[n] = IF Listed(section)[n] # "default"
               THEN Append(u[n - 1], <<"template_", Listed(section)[n]>>)
               ELSE IF TemplateDefault \in DOMAIN sections
               THEN Append(u[n - 1], UserDefaultName(sections))
               ELSE u[n - 1]
    <3>1. n \in 0..l /\ n # 0
      BY <2>1, <2>2
    <3> HIDE DEF section, l
    <3> QED BY <1>2, <3>1 DEF Uses
  <2>8. u[n] \in Seq(T)
    <3> HIDE DEF T
    <3> QED BY <2>4, <2>5, <2>6, <2>7
  <2> QED BY <2>1, <2>8
<1> QED BY <1>1, <1>3, <1>4

\* Whatever unique_template_name makes is a template.
LEMMA UniqueIsTemplate ==
  ASSUME NEW sections
  PROVE  IsTemplate(UserDefaultName(sections))
<1> QED BY DEF UserDefaultName, UniqueName, IsTemplate

-----------------------------------------------------------------------------
(* What convert_sanoid writes *)

\* A section that is not refused uses templates that are written.
LEMMA TemplatesWritten ==
  ASSUME NEW sections, NEW defaults, NEW name \in DOMAIN sections, name # TemplateDefault,
         Listed(sections[name]) \in Seq(Range(Listed(sections[name]))),
         ~SectionRefused(sections, name)
  PROVE  Range(OutputSection(sections, name).templates)
           \subseteq DOMAIN Templates(sections, defaults)
<1> DEFINE used == UseTemplates(sections, name)
           written == DOMAIN Templates(sections, defaults)
           head == IF Inherits(sections, name) THEN <<>> ELSE <<BaseName(sections)>>
<1>1. used \in Seq(Usable(sections, sections[name]))
  BY TemplatesUsed
<1>2. written = {BaseName(sections)}
                  \cup (IF TemplateDefault \in DOMAIN sections
                        THEN {UserDefaultName(sections)} ELSE {})
                  \cup TemplateNames(sections)
  <2>1. DOMAIN <<>> = {}
    OBVIOUS
  <2> QED BY <2>1 DEF Templates, Over
<1> HIDE DEF used, written
<1>3. ASSUME NEW t \in Range(used) PROVE t \in written
  <2>1. t \in Usable(sections, sections[name])
    <3> DEFINE U == Usable(sections, sections[name])
    <3> HIDE DEF U
    <3>1. used \in Seq(U)
      BY <1>1 DEF U
    <3>2. t \in U
      BY <3>1 DEF Range
    <3> QED BY <3>2 DEF U
  <2>2. CASE TemplateDefault \in DOMAIN sections /\ t = UserDefaultName(sections)
    BY <2>2, <1>2
  <2>3. CASE ~(TemplateDefault \in DOMAIN sections /\ t = UserDefaultName(sections))
    <3>1. SourceOf(sections, t) \in DOMAIN sections
      BY DEF SectionRefused, used
    <3>2. t \in DOMAIN sections
      BY <2>3, <3>1 DEF SourceOf
    <3>3. PICK x : t = <<"template_", x>> /\ x # "default"
      BY <2>1, <2>3 DEF Usable
    <3>4. IsTemplate(t) /\ t # TemplateDefault
      BY <3>3 DEF IsTemplate, TemplateDefault
    <3> QED BY <3>2, <3>4, <1>2 DEF TemplateNames
  <2> QED BY <2>2, <2>3
<1>4. head \in Seq({BaseName(sections)})
  <2>1. \A b : <<>> \in Seq({b}) /\ <<b>> \in Seq({b})
    OBVIOUS
  <2> QED BY <2>1
<1>5. OutputSection(sections, name).templates = head \o used
  BY DEF OutputSection, used
<1> HIDE DEF head
<1>6. ASSUME NEW t \in Range(head \o used) PROVE t \in written
  <2> DEFINE U == Usable(sections, sections[name])
  <2> HIDE DEF U
  <2>1. head \in Seq({BaseName(sections)}) /\ used \in Seq(U)
    BY <1>1, <1>4 DEF U
  <2>2. PICK i \in 1..(Len(head) + Len(used)) : t = (head \o used)[i]
    BY <1>6, <2>1 DEF Range
  <2>3. CASE i <= Len(head)
    <3>1. t = head[i] /\ i \in 1..Len(head)
      BY <2>1, <2>2, <2>3
    <3> QED BY <2>1, <3>1, <1>2
  <2>4. CASE ~(i <= Len(head))
    <3>1. t = used[i - Len(head)] /\ i - Len(head) \in 1..Len(used)
      BY <2>1, <2>2, <2>4
    <3>2. t \in Range(used)
      BY <2>1, <3>1 DEF Range
    <3> QED BY <3>2, <1>3
  <2> QED BY <2>3, <2>4
<1> QED BY <1>5, <1>6 DEF written

\* The names of a file are supported, and written as they are read.
Named ==
  /\ \A name \in SanoidSections : ValidName(Path(name)) /\ Path(name)[1] \notin DOMAIN Dotted
  /\ \A line \in Range(source.main) :
       IsHeader(line) /\ IsTemplate(line.section) => line.section[2] \notin NoKeys

\* A configuration without a wrong value or name is valid, unless the
\* conversion was refused.
LEMMA WrittenValid ==
  ASSUME source \in Sources,
         NEW main, main = Parse(source.main), NEW defaults, defaults = Parse(source.defaults),
         main.ok, defaults.ok,
         ~SectionsRefused(main.sections, defaults.sections),
         ~ChildrenOnlyRefused(main.sections), ~AtomicRefused(main.sections),
         Fine(source.main), Fine(source.defaults), Named
  PROVE  LET written == Output(main.sections, defaults.sections)
         IN  Readable(written, main.sections) /\ Valid(written)
<1> DEFINE sections == main.sections
           names == DatasetSections(sections)
           written == Output(sections, defaults.sections)
           named == {DatasetName(sections, name) : name \in names}
<1>1. Lines(source.main) /\ Lines(source.defaults)
  BY MigrationAssumption
<1>2. ASSUME NEW name \in names
      PROVE  /\ name \in SanoidSections
             /\ Path(name) = DatasetName(sections, name)
             /\ Reread(DatasetName(sections, name)) = DatasetName(sections, name)
             /\ ValidName(DatasetName(sections, name))
  <2>1. name \in DOMAIN sections /\ ~IsTemplate(name) /\ name # Version
    BY DEF DatasetSections
  <2>2. \E line \in Range(source.main) : IsHeader(line) /\ line.section = name
    BY <2>1, <1>1, SettingsSaid
  <2>3. name \in SanoidSections
    BY <2>1, <2>2 DEF SanoidSections
  <2>4. Path(name) = DatasetName(sections, name)
    <3>1. /\ "path" \in DOMAIN sections[name] <=> Says(source.main, name, "path") # {}
          /\ "path" \in DOMAIN sections[name] =>
               sections[name]["path"] = Said(source.main, name, "path")
      BY <2>1, <1>1, SettingsSaid
    <3> QED BY <3>1 DEF Path, DatasetName
  <2>5. ValidName(DatasetName(sections, name)) /\ DatasetName(sections, name)[1] \notin DOMAIN Dotted
    BY <2>3, <2>4 DEF Named
  <2> QED BY <2>3, <2>4, <2>5 DEF Reread
<1>3. /\ DOMAIN written.datasets = named
      /\ \A d \in named : \E name \in names :
           /\ DatasetName(sections, name) = d
           /\ written.datasets[d] = OutputSection(sections, name)
      /\ written.templates = Templates(sections, defaults.sections)
  <2> DEFINE read(name) == Reread(DatasetName(sections, name))
             from(d) == CHOOSE name \in names : read(name) = d
  <2>1. written = [templates |-> Templates(sections, defaults.sections),
                   datasets |-> [d \in {read(name) : name \in names}
                                   |-> OutputSection(sections, from(d))]]
    BY DEF Output
  <2>2. {read(name) : name \in names} = named
    BY <1>2
  <2>3. ASSUME NEW d \in named
        PROVE  from(d) \in names /\ DatasetName(sections, from(d)) = d
    <3>1. \E name \in names : read(name) = d
      BY <1>2
    <3>2. from(d) \in names /\ read(from(d)) = d
      BY <3>1
    <3> HIDE DEF from
    <3> QED BY <3>2, <1>2
  <2> HIDE DEF written, named, read, from, names
  <2> QED BY <2>1, <2>2, <2>3
<1> HIDE DEF written
<1>4. Readable(written, sections)
  <2>1. IsFiniteSet(names)
    <3>1. IsFiniteSet(DOMAIN sections)
      BY <1>1, SettingsSaid
    <3>2. names \subseteq DOMAIN sections
      BY DEF DatasetSections
    <3> QED BY <3>1, <3>2, FS_Subset
  <2>2. IsFiniteSet(named) /\ Cardinality(named) <= Cardinality(names)
    <3> DEFINE f == [name \in names |-> DatasetName(sections, name)]
    <3>1. f \in Surjection(names, named)
      BY DEF Surjection
    <3> HIDE DEF f, names, named
    <3> QED BY <2>1, <3>1, FS_Surjection
  <2>3. Cardinality(named) \in Nat /\ Cardinality(names) \in Nat
    BY <2>1, <2>2, FS_CardinalityType
  <2>4. ~(Cardinality(named) < Cardinality(names))
    BY DEF SectionsRefused
  <2>5. <<>> \notin named
    BY DEF SectionsRefused, SectionRefused
  <2> HIDE DEF names, named
  <2>6. Cardinality(named) = Cardinality(names)
    BY <2>2, <2>3, <2>4
  <2>7. ASSUME NEW name \in TemplateNames(sections) PROVE name[2] \notin NoKeys
    <3>1. name \in DOMAIN sections /\ IsTemplate(name)
      BY DEF TemplateNames
    <3>2. PICK line \in Range(source.main) : IsHeader(line) /\ line.section = name
      BY <3>1, <1>1, SettingsSaid
    <3> QED BY <3>1, <3>2 DEF Named
  <2> QED BY <2>5, <2>6, <2>7, <1>3 DEF Readable, names
<1>5. \A t \in DOMAIN written.templates : PatchValid(written.templates[t])
  BY <1>1, <1>3, TemplatesFine
<1>6. ASSUME NEW d \in DOMAIN written.datasets PROVE SectionValid(written, d)
  <2>1. PICK name \in names : /\ DatasetName(sections, name) = d
                             /\ written.datasets[d] = OutputSection(sections, name)
    BY <1>3
  <2>2. name \in DOMAIN sections /\ ~SectionRefused(sections, name) /\ ~IsTemplate(name)
    BY DEF SectionsRefused, DatasetSections
  <2>3. written.datasets[d].childrenOnly => written.datasets[d].recursive = "Children"
    BY <2>1 DEF ChildrenOnlyRefused, OutputSection
  <2>4. Listed(sections[name]) \in Seq(Range(Listed(sections[name])))
    <3>1. CASE "use_template" \in DOMAIN sections[name]
      <4>1. \E line \in Range(source.main) :
               ~IsHeader(line) /\ line.value = sections[name]["use_template"]
        BY <3>1, <2>2, <1>1, SettingsSaid
      <4> QED BY <4>1, <3>1, <1>1 DEF Lines, Listed, IsName
    <3>2. CASE "use_template" \notin DOMAIN sections[name]
      <4>1. <<>> \in Seq(Range(<<>>))
        OBVIOUS
      <4> QED BY <4>1, <3>2 DEF Listed
    <3> QED BY <3>1, <3>2
  <2>5. Range(OutputSection(sections, name).templates) \subseteq DOMAIN written.templates
    <3>1. name # TemplateDefault
      BY <2>2 DEF IsTemplate, TemplateDefault
    <3> QED BY <3>1, <2>2, <2>4, <1>3, TemplatesWritten
  <2>6. PatchValid(Patch(sections[name]))
    <3>1. PatchValid(Patch(Section(sections, name)))
      BY <1>1, PatchFine
    <3> QED BY <3>1, <2>2 DEF Section
  <2>7. written.datasets[d].policy = Patch(sections[name])
    BY <2>1 DEF OutputSection
  <2>8. ValidName(d)
    BY <1>2, <2>1
  <2> QED BY <2>1, <2>3, <2>5, <2>6, <2>7, <2>8 DEF SectionValid
<1>7. ASSUME NEW root \in DOMAIN written.datasets, NEW d \in DOMAIN written.datasets,
             written.datasets[root].recursive = "Zfs"
      PROVE  ~Below(d, root)
  <2>1. PICK name \in names : DatasetName(sections, name) = d
    BY <1>3
  <2>2. PICK above \in names : /\ DatasetName(sections, above) = root
                               /\ written.datasets[root] = OutputSection(sections, above)
    BY <1>3
  <2>3. Recursive(sections[above]) = "Zfs"
    BY <1>7, <2>2 DEF OutputSection
  <2> QED BY <2>1, <2>2, <2>3 DEF AtomicRefused
<1>8. written.datasets # <<>>
  <2>1. named # {}
    BY DEF SectionsRefused
  <2>2. DOMAIN <<>> = {}
    OBVIOUS
  <2> QED BY <2>1, <2>2, <1>3
<1>9. Valid(written)
  BY <1>5, <1>6, <1>7, <1>8 DEF Valid
<1> QED BY <1>4, <1>9 DEF written

\* Whatever the lines of the two files, what convert_sanoid generates from them
\* fails its final validation only for a value out of range, the name of a
\* dataset that is not supported or that TOML reads as a table, or that of a
\* template that is no key of TOML: OnlyNamesOrValuesInvalid.
THEOREM RefusedBeforeValidation == MigrationSpec => []OnlyNamesOrValuesInvalid
<1> DEFINE Inv == source \in Sources /\ OnlyNamesOrValuesInvalid
<1>1. MigrationInit => Inv
  BY DEF MigrationInit, OnlyNamesOrValuesInvalid
<1>2. Inv /\ [MigrationNext]_<<resolveVars, migrationVars>> => Inv'
  <2> SUFFICES ASSUME Inv, [MigrationNext]_<<resolveVars, migrationVars>> PROVE Inv'
    OBVIOUS
  <2>0. ASSUME source' = source
        PROVE  /\ SanoidSections' = SanoidSections
               /\ \A name : Path(name)' = Path(name)
    <3>1. SanoidSections' = SanoidSections
      BY <2>0 DEF SanoidSections
    <3>2. ASSUME NEW name PROVE Path(name)' = Path(name)
      BY <2>0 DEF Path
    <3> QED BY <3>1, <3>2
  <2>1. ASSUME UNCHANGED migrationVars PROVE Inv'
    BY <2>0, <2>1 DEF migrationVars, OnlyNamesOrValuesInvalid
  <2>2. ASSUME Convert PROVE Inv'
    <3> DEFINE main == Parse(source.main)
               defaults == Parse(source.defaults)
               written == Output(main.sections, defaults.sections)
               refused == \/ ~main.ok \/ ~defaults.ok
                          \/ SectionsRefused(main.sections, defaults.sections)
                          \/ ChildrenOnlyRefused(main.sections)
                          \/ AtomicRefused(main.sections)
               bad == ~Fine(source.main) \/ ~Fine(source.defaults) \/ ~Named
    <3>1. source' = source
      BY <2>2 DEF Convert
    <3>2. outcome' = "invalid" =>
            ~refused /\ (~Readable(written, main.sections) \/ ~Valid(written))
      BY <2>2 DEF Convert
    <3>3. outcome' = "invalid" => bad
      <4> SUFFICES ASSUME outcome' = "invalid", ~bad PROVE FALSE
        OBVIOUS
      <4>1. Readable(written, main.sections) /\ Valid(written)
        BY <3>2, WrittenValid
      <4> QED BY <3>2, <4>1
    <3>4. bad => \/ \E line \in Range(source.main) \cup Range(source.defaults) :
                      /\ ~IsHeader(line) /\ line.key \in Fields
                      /\ Converted(line.key, line.value) \notin ValidValues[line.key]
                 \/ \E name \in SanoidSections :
                      ~ValidName(Path(name)) \/ Path(name)[1] \in DOMAIN Dotted
                 \/ \E line \in Range(source.main) :
                      IsHeader(line) /\ IsTemplate(line.section) /\ line.section[2] \in NoKeys
      BY DEF Fine, Named
    <3> HIDE DEF bad
    <3>5. OnlyNamesOrValuesInvalid'
      BY <2>0, <3>1, <3>3, <3>4 DEF OnlyNamesOrValuesInvalid
    <3> QED BY <3>1, <3>5
  <2> QED BY <2>1, <2>2 DEF MigrationNext, migrationVars
<1>3. Inv => OnlyNamesOrValuesInvalid
  OBVIOUS
<1> QED BY <1>1, <1>2, <1>3, PTL DEF MigrationSpec
-----------------------------------------------------------------------------
(* The generated templates *)

\* What the lines of a file say of a section, if there is one.
LEMMA SectionSays ==
  ASSUME NEW lines, Lines(lines), Parse(lines).ok, NEW name
  PROVE  LET sections == Parse(lines).sections
             section == Section(sections, name)
         IN  /\ name \in DOMAIN sections
                  <=> \E line \in Range(lines) : IsHeader(line) /\ line.section = name
             /\ \A key : key \in DOMAIN section <=> Says(lines, name, key) # {}
             /\ \A key \in DOMAIN section : section[key] = Said(lines, name, key)
<1> DEFINE sections == Parse(lines).sections
           section == Section(sections, name)
<1>1. DOMAIN lines = 1..Len(lines) /\ Len(lines) \in Nat
  BY DEF Lines
<1>2. DOMAIN sections = {lines[h].section : h \in {i \in 1..Len(lines) : IsHeader(lines[i])}}
  BY <1>1, ParseUnderstands DEF Understood
<1>3. name \in DOMAIN sections
        <=> \E line \in Range(lines) : IsHeader(line) /\ line.section = name
  BY <1>1, <1>2 DEF Range
<1>4. CASE name \in DOMAIN sections
  BY <1>3, <1>4, SettingsSaid DEF Section
<1>5. CASE name \notin DOMAIN sections
  <2>1. section = <<>> /\ DOMAIN section = {}
    <3>1. DOMAIN <<>> = {}
      OBVIOUS
    <3> QED BY <3>1, <1>5 DEF Section
  <2>2. \A key : Says(lines, name, key) = {}
    <3> HIDE DEF sections
    <3> SUFFICES ASSUME NEW key, NEW k \in Says(lines, name, key) PROVE FALSE
      OBVIOUS
    <3>1. PICK h \in 1..(k - 1) : IsHeader(lines[h]) /\ lines[h].section = name
      BY DEF Says
    <3>2. k \in 1..Len(lines)
      BY <1>1 DEF Says
    <3>3. h \in 1..Len(lines)
      BY <3>1, <3>2, <1>1
    <3> QED BY <3>1, <3>3, <1>2, <1>5
  <2> QED BY <2>1, <2>2, <1>3
<1> QED BY <1>4, <1>5

\* A greatest one is the only one.
LEMMA MaxIs ==
  ASSUME NEW T, T \subseteq Nat, NEW n \in T, \A m \in T : m <= n
  PROVE  Max(T) = n
<1>1. \A x \in T : (\A m \in T : x >= m) => x = n
  OBVIOUS
<1>2. \E x \in T : \A m \in T : x >= m
  OBVIOUS
<1> QED BY <1>1, <1>2 DEF Max

\* What unique_template_name makes is new, for of one number more than there
\* are names one is free.
LEMMA UniqueIsNew ==
  ASSUME NEW base, NEW existing, IsFiniteSet(existing),
         \A j, k \in 2..(2 + Cardinality(existing)) :
           Numbered(base, j) = Numbered(base, k) => j = k
  PROVE  UniqueName(base, existing) \notin existing
<1> DEFINE numbers == 2..(2 + Cardinality(existing))
           numbered(k) == <<"template_", Numbered(base, k)>>
           free == {k \in numbers : numbered(k) \notin existing}
<1>1. Cardinality(existing) \in Nat
  BY FS_CardinalityType
<1>2. free # {}
  <2> SUFFICES ASSUME free = {} PROVE FALSE
    OBVIOUS
  <2> DEFINE f == [k \in numbers |-> numbered(k)]
  <2>1. f \in [numbers -> existing]
    OBVIOUS
  <2>2. IsFiniteSet(numbers) /\ Cardinality(numbers) = Cardinality(existing) + 1
    BY <1>1, FS_Interval
  <2>3. \A j, k \in numbers : f[j] = f[k] => j = k
    <3>1. \A j, k \in numbers : numbered(j) = numbered(k) => Numbered(base, j) = Numbered(base, k)
      OBVIOUS
    <3> QED BY <3>1
  <2>4. Cardinality(existing) < Cardinality(numbers)
    BY <1>1, <2>2
  <2> HIDE DEF f, numbers
  <2> QED BY <2>1, <2>2, <2>3, <2>4, FS_PigeonHole
<1>3. Min(free) \in free
  <2>1. free \subseteq Nat
    BY <1>1
  <2> HIDE DEF free
  <2>2. \E n \in free : \A m \in free : n <= m
    BY <1>2, <2>1, Least
  <2> QED BY <2>2 DEF Min
<1>4. UniqueName(base, existing)
        = IF <<"template_", base>> \notin existing THEN <<"template_", base>>
          ELSE numbered(Min(free))
  BY DEF UniqueName
<1>5. numbered(Min(free)) \notin existing
  BY <1>3
<1> HIDE DEF numbered, free
<1> QED BY <1>4, <1>5

\* The generated templates have names of their own.
LEMMA GeneratedNew ==
  ASSUME source \in Sources, Parse(source.main).ok
  PROVE  LET sections == Parse(source.main).sections
         IN  /\ BaseName(sections) \notin TemplateNames(sections)
             /\ UserDefaultName(sections) \notin TemplateNames(sections) \cup {BaseName(sections)}
<1> DEFINE l == Len(source.main)
           sections == Parse(source.main).sections
           headers == {i \in 1..l : IsHeader(source.main[i])}
           names == TemplateNames(sections)
<1>1. Lines(source.main) /\ DOMAIN source.main = 1..l /\ l \in Nat
  BY MigrationAssumption DEF Lines
<1>2. IsFiniteSet(DOMAIN sections) /\ Cardinality(DOMAIN sections) <= l
  <2>1. DOMAIN sections = {source.main[h].section : h \in headers}
    BY <1>1, ParseUnderstands DEF Understood
  <2>2. IsFiniteSet(1..l) /\ Cardinality(1..l) = l
    BY <1>1, FS_Interval
  <2>3. IsFiniteSet(headers) /\ Cardinality(headers) <= l
    BY <2>2, FS_Subset
  <2> DEFINE f == [h \in headers |-> source.main[h].section]
  <2>4. f \in Surjection(headers, DOMAIN sections)
    BY <2>1 DEF Surjection
  <2> HIDE DEF f, headers, sections
  <2>5. IsFiniteSet(DOMAIN sections) /\ Cardinality(DOMAIN sections) <= Cardinality(headers)
    BY <2>3, <2>4, FS_Surjection
  <2>6. Cardinality(DOMAIN sections) \in Nat /\ Cardinality(headers) \in Nat
    BY <2>3, <2>5, FS_CardinalityType
  <2> QED BY <1>1, <2>3, <2>5, <2>6
<1>3. IsFiniteSet(names) /\ Cardinality(names) \in Nat /\ Cardinality(names) <= l
  <2>1. names \subseteq DOMAIN sections
    BY DEF TemplateNames
  <2> HIDE DEF names, sections
  <2>2. IsFiniteSet(names) /\ Cardinality(names) <= Cardinality(DOMAIN sections)
    BY <1>2, <2>1, FS_Subset
  <2>3. Cardinality(names) \in Nat /\ Cardinality(DOMAIN sections) \in Nat
    BY <1>2, <2>2, FS_CardinalityType
  <2> QED BY <1>1, <1>2, <2>2, <2>3
<1>4. ASSUME NEW base \in GeneratedNames, NEW existing, IsFiniteSet(existing),
             Cardinality(existing) <= l + 1
      PROVE  UniqueName(base, existing) \notin existing
  <2>1. Cardinality(existing) \in Nat
    BY <1>4, FS_CardinalityType
  <2>2. \A j : j \in 2..(2 + Cardinality(existing)) => j \in 2..(l + 3)
    BY <1>1, <1>4, <2>1
  <2>3. \A j, k \in 2..(l + 3) : Numbered(base, j) = Numbered(base, k) => j = k
    BY MigrationAssumption
  <2> QED BY <1>4, <2>2, <2>3, UniqueIsNew
<1> DEFINE more == names \cup {BaseName(sections)}
<1>5. IsFiniteSet(more) /\ Cardinality(more) <= l + 1
  <2> HIDE DEF names, sections
  <2>1. /\ IsFiniteSet(more)
        /\ Cardinality(more) = IF BaseName(sections) \in names THEN Cardinality(names)
                               ELSE Cardinality(names) + 1
    BY <1>3, FS_AddElement
  <2> QED BY <1>1, <1>3, <2>1
<1>6. BaseName(sections) \notin names
  <2> HIDE DEF names
  <2>1. UniqueName("sanoid_defaults", names) \notin names
    BY <1>1, <1>3, <1>4 DEF GeneratedNames
  <2> QED BY <2>1 DEF BaseName, names
<1>7. UserDefaultName(sections) \notin more
  <2> HIDE DEF more
  <2>1. UniqueName("sanoid_user_defaults", more) \notin more
    BY <1>4, <1>5 DEF GeneratedNames
  <2> QED BY <2>1 DEF UserDefaultName, more
<1> QED BY <1>6, <1>7

\* Every template that is used is written with what the file says of it.
LEMMA TemplatesAre ==
  ASSUME NEW sections, NEW defaults,
         BaseName(sections) \notin TemplateNames(sections),
         UserDefaultName(sections) \notin TemplateNames(sections) \cup {BaseName(sections)}
  PROVE  LET templates == Templates(sections, defaults)
             default == Patch(Section(sections, TemplateDefault))
             standard == [f \in Fields \cap DOMAIN StandardDefaults |-> StandardDefaults[f]]
         IN  /\ templates[BaseName(sections)]
                  = Over(default, Over(Patch(Section(defaults, TemplateDefault)), standard))
             /\ TemplateDefault \in DOMAIN sections =>
                  templates[UserDefaultName(sections)] = default
             /\ \A t \in TemplateNames(sections) : templates[t] = Patch(sections[t])
<1> DEFINE default == Patch(Section(sections, TemplateDefault))
           standard == [f \in Fields \cap DOMAIN StandardDefaults |-> StandardDefaults[f]]
           base == Over(default, Over(Patch(Section(defaults, TemplateDefault)), standard))
           user == IF TemplateDefault \in DOMAIN sections
                   THEN [name \in {UserDefaultName(sections)} |-> default] ELSE <<>>
           generated == Over([name \in {BaseName(sections)} |-> base], user)
           named == [name \in TemplateNames(sections) |-> Patch(sections[name])]
<1>1. Templates(sections, defaults) = Over(generated, named)
  BY DEF Templates
<1> HIDE DEF default, base
<1>2. DOMAIN user = IF TemplateDefault \in DOMAIN sections THEN {UserDefaultName(sections)} ELSE {}
  <2>1. DOMAIN <<>> = {}
    OBVIOUS
  <2> QED BY <2>1
<1>3. /\ DOMAIN generated = {BaseName(sections)} \cup DOMAIN user
      /\ generated[BaseName(sections)] = base
      /\ TemplateDefault \in DOMAIN sections => generated[UserDefaultName(sections)] = default
  BY <1>2 DEF Over
<1> HIDE DEF user, generated
<1>4. /\ Over(generated, named)[BaseName(sections)] = base
      /\ TemplateDefault \in DOMAIN sections =>
           Over(generated, named)[UserDefaultName(sections)] = default
  BY <1>2, <1>3 DEF Over
<1>5. ASSUME NEW t \in TemplateNames(sections)
      PROVE  Over(generated, named)[t] = Patch(sections[t])
  BY <1>2, <1>3 DEF Over
<1> QED BY <1>1, <1>4, <1>5 DEF base, default

-----------------------------------------------------------------------------
(* The order of the templates *)

Template(x) == <<"template_", x>>

\* The name under which a template of the file is used.
Renamed(sections, t) == IF t = TemplateDefault THEN UserDefaultName(sections) ELSE t

\* Of the first n names of a list the last one that says something is, under
\* its new name, the last of the templates used that does.
KeepsLast(u, n, sections, section, says, has) ==
  LET listed == {k \in 1..n : Template(Listed(section)[k]) \in says}
      used == {j \in DOMAIN u[n] : u[n][j] \in has}
  IN  /\ listed = {} <=> used = {}
      /\ listed # {} => u[n][Max(used)] = Renamed(sections, Template(Listed(section)[Max(listed)]))

\* The list t is s with x at its end.
Longer(t, s, x) == t = Append(s, x)

\* A list with a template more, which says something.
LEMMA LastAdded ==
  ASSUME NEW T, NEW s, s \in Seq(T), NEW x, x \in T, NEW has, x \in has,
         NEW t, Longer(t, s, x), NEW used, \A j : j \in used <=> j \in DOMAIN t /\ t[j] \in has
  PROVE  used # {} /\ t[Max(used)] = x
<1>1. t \in Seq(T) /\ Len(t) = Len(s) + 1 /\ t[Len(s) + 1] = x /\ Len(s) \in Nat
  BY DEF Longer
<1>2. DOMAIN t = 1..(Len(s) + 1)
  BY <1>1
<1>3. Len(s) + 1 \in used /\ used \subseteq Nat /\ \A m \in used : m <= Len(s) + 1
  BY <1>1, <1>2
<1>4. Max(used) = Len(s) + 1
  BY <1>3, MaxIs
<1> QED BY <1>1, <1>3, <1>4

\* One that says nothing.
LEMMA NoneAdded ==
  ASSUME NEW T, NEW s \in Seq(T), NEW x \in T, NEW has, x \notin has
  PROVE  LET t == Append(s, x)
             before == {j \in DOMAIN s : s[j] \in has}
             used == {j \in DOMAIN t : t[j] \in has}
         IN  used = before /\ \A j \in used : t[j] = s[j]
<1> DEFINE t == Append(s, x)
<1>1. /\ t \in Seq(T) /\ Len(t) = Len(s) + 1 /\ t[Len(s) + 1] = x /\ Len(s) \in Nat
      /\ \A j \in 1..Len(s) : t[j] = s[j]
  OBVIOUS
<1>2. DOMAIN t = 1..(Len(s) + 1) /\ DOMAIN s = 1..Len(s)
  BY <1>1
<1> HIDE DEF t
<1>3. \A j : j \in 1..(Len(s) + 1) <=> j \in 1..Len(s) \/ j = Len(s) + 1
  BY <1>1
<1>4. ~(Len(s) + 1 \in 1..Len(s))
  BY <1>1
<1> QED BY <1>1, <1>2, <1>3, <1>4 DEF t

\* parse_template_list keeps the order of the names, drops `default` where
\* there is none, and so keeps the last of them that says something.
LEMMA LastIsKept ==
  ASSUME NEW sections, NEW section, NEW says, NEW has,
         Listed(section) \in Seq(Range(Listed(section))),
         \A x \in Range(Listed(section)) \ {"default"} : Template(x) \in says <=> Template(x) \in has,
         TemplateDefault \in DOMAIN sections =>
           (TemplateDefault \in says <=> UserDefaultName(sections) \in has),
         TemplateDefault \notin DOMAIN sections => TemplateDefault \notin says,
         NEW u, Uses(u, sections, section, Len(Listed(section)))
  PROVE  KeepsLast(u, Len(Listed(section)), sections, section, says, has)
<1> DEFINE list == Listed(section)
           l == Len(list)
           T == Usable(sections, section)
           Good(n) == u[n] \in Seq(T) /\ KeepsLast(u, n, sections, section, says, has)
           Wrong == {n \in 0..l : ~Good(n)}
<1>1. l \in Nat /\ \A k \in 1..l : list[k] \in Range(list)
  BY DEF Range
<1>2. Wrong = {}
  <2> SUFFICES ASSUME Wrong # {} PROVE FALSE
    OBVIOUS
  <2>1. PICK n \in Wrong : \A i \in Wrong : n <= i
    <3>1. Wrong \subseteq Nat
      BY <1>1
    <3> HIDE DEF Wrong
    <3> QED BY <3>1, Least
  <2>2. n \in 0..l /\ ~Good(n)
    BY <2>1
  <2>3. n # 0
    <3> SUFFICES ASSUME n = 0 PROVE FALSE
      OBVIOUS
    <3>1. u[0] = <<>>
      BY <1>1 DEF Uses
    <3>2. <<>> \in Seq(T) /\ DOMAIN <<>> = {}
      OBVIOUS
    <3>3. {k \in 1..0 : Template(list[k]) \in says} = {} /\ {j \in DOMAIN u[0] : u[0][j] \in has} = {}
      BY <3>1, <3>2
    <3>4. KeepsLast(u, 0, sections, section, says, has)
      BY <3>3 DEF KeepsLast
    <3> HIDE DEF T
    <3> QED BY <2>2, <3>1, <3>2, <3>4
  <2>4. n \in 1..l /\ n - 1 \in 0..l /\ n - 1 \notin Wrong
    <3>1. n \in 1..l /\ n - 1 \in 0..l /\ ~(n <= n - 1)
      BY <1>1, <2>2, <2>3
    <3> HIDE DEF Wrong
    <3> QED BY <2>1, <3>1
  <2>5. u[n - 1] \in Seq(T) /\ KeepsLast(u, n - 1, sections, section, says, has)
    BY <2>4
  <2>6. list[n] \in Range(list)
    BY <1>1, <2>4
  <2> DEFINE x == Template(list[n])
             new == Renamed(sections, x)
             before == {k \in 1..(n - 1) : Template(list[k]) \in says}
             listed == {k \in 1..n : Template(list[k]) \in says}
             usedBefore == {j \in DOMAIN u[n - 1] : u[n - 1][j] \in has}
             used == {j \in DOMAIN u[n] : u[n][j] \in has}
  <2>7. list[n] = "default" <=> x = TemplateDefault
    BY DEF Template, TemplateDefault
  <2>8. u[n] = IF list[n] = "default" /\ TemplateDefault \notin DOMAIN sections THEN u[n - 1]
               ELSE Append(u[n - 1], new)
    <3>1. u[n] = IF list[n] # "default" THEN Append(u[n - 1], x)
                 ELSE IF TemplateDefault \in DOMAIN sections
                 THEN Append(u[n - 1], UserDefaultName(sections))
                 ELSE u[n - 1]
      <4>1. n \in 0..l /\ n # 0
        BY <2>2, <2>3
      <4> HIDE DEF l
      <4> QED BY <4>1 DEF Uses, Template, l
    <3> QED BY <3>1, <2>7 DEF Renamed
  <2>9. /\ before = {} <=> usedBefore = {}
        /\ before # {} =>
             u[n - 1][Max(usedBefore)] = Renamed(sections, Template(list[Max(before)]))
    BY <2>5 DEF KeepsLast
  <2>10. \A k : k \in 1..n <=> k \in 1..(n - 1) \/ k = n
    BY <2>2, <2>3
  <2>11. listed = IF x \in says THEN before \cup {n} ELSE before
    BY <2>10
  <2>12. CASE list[n] = "default" /\ TemplateDefault \notin DOMAIN sections
    <3>1. u[n] = u[n - 1] /\ x \notin says
      BY <2>7, <2>8, <2>12
    <3>2. listed = before /\ used = usedBefore
      BY <2>11, <3>1
    <3>3. /\ listed = {} <=> used = {}
          /\ listed # {} => u[n][Max(used)] = Renamed(sections, Template(list[Max(listed)]))
      BY <2>9, <3>1, <3>2
    <3>4. KeepsLast(u, n, sections, section, says, has)
      BY <3>3 DEF KeepsLast
    <3> HIDE DEF T
    <3> QED BY <2>2, <2>5, <3>1, <3>4
  <2>13. CASE ~(list[n] = "default" /\ TemplateDefault \notin DOMAIN sections)
    <3>1. u[n] = Append(u[n - 1], new)
      BY <2>8, <2>13
    <3>2. new \in T /\ (x \in says <=> new \in has)
      <4>1. CASE list[n] = "default"
        BY <4>1, <2>7, <2>13 DEF Renamed, Usable
      <4>2. CASE list[n] # "default"
        <5>1. new = x /\ x \in T
          BY <4>2, <2>6, <2>7 DEF Renamed, Usable, Template
        <5> QED BY <4>2, <2>6, <5>1
      <4> QED BY <4>1, <4>2
    <3> HIDE DEF T, new
    <3>3. u[n] \in Seq(T)
      BY <2>5, <3>1, <3>2
    <3>4. CASE x \in says
      <4>1. used # {} /\ u[n][Max(used)] = new
        <5>1. u[n - 1] \in Seq(T) /\ new \in T /\ new \in has
          BY <2>5, <3>2, <3>4
        <5>2. \A j : j \in used <=> j \in DOMAIN u[n] /\ u[n][j] \in has
          OBVIOUS
        <5>3. Longer(u[n], u[n - 1], new)
          BY <3>1 DEF Longer
        <5> HIDE DEF used
        <5> QED BY <5>1, <5>2, <5>3, LastAdded
      <4>2. Max(listed) = n
        <5>1. n \in listed /\ listed \subseteq Nat /\ \A m \in listed : m <= n
          BY <2>4, <3>4
        <5> HIDE DEF listed
        <5> QED BY <5>1, MaxIs
      <4>3. listed # {}
        BY <2>11, <3>4
      <4>4. KeepsLast(u, n, sections, section, says, has)
        BY <4>1, <4>2, <4>3 DEF KeepsLast, new
      <4> QED BY <2>2, <3>3, <4>4 DEF T
    <3>5. CASE x \notin says
      <4>1. used = usedBefore /\ \A j \in used : u[n][j] = u[n - 1][j]
        BY <2>5, <3>1, <3>2, <3>5, NoneAdded
      <4>2. listed = before
        BY <2>11, <3>5
      <4>3. used # {} => Max(used) \in used
        <5>1. used \subseteq 0..Len(u[n]) /\ Len(u[n]) \in Nat
          BY <3>3
        <5> HIDE DEF used
        <5> QED BY <5>1, Greatest
      <4>4. /\ listed = {} <=> used = {}
            /\ listed # {} => u[n][Max(used)] = Renamed(sections, Template(list[Max(listed)]))
        <5> HIDE DEF used, usedBefore, listed, before
        <5> QED BY <2>9, <4>1, <4>2, <4>3
      <4>5. KeepsLast(u, n, sections, section, says, has)
        BY <4>4 DEF KeepsLast
      <4> QED BY <2>2, <3>3, <4>5 DEF T
    <3> QED BY <3>4, <3>5
  <2> QED BY <2>12, <2>13
<1> QED BY <1>1, <1>2

-----------------------------------------------------------------------------
(* A converted file *)

MainSections == Parse(source.main).sections
OtherSections == Parse(source.defaults).sections

\* A file that was converted, and the configuration it became.
Converts ==
  /\ source \in Sources /\ Parse(source.main).ok /\ Parse(source.defaults).ok
  /\ ~SectionsRefused(MainSections, OtherSections)
  /\ config = Output(MainSections, OtherSections)
  /\ Readable(config, MainSections)

\* Its lines, read with and without parsing.
LEMMA LinesRead ==
  ASSUME Converts, NEW name
  PROVE  LET section == Section(MainSections, name)
         IN  /\ name \in DOMAIN MainSections
                  <=> \E line \in Range(source.main) : IsHeader(line) /\ line.section = name
             /\ \A key : key \in DOMAIN section <=> Says(source.main, name, key) # {}
             /\ \A key \in DOMAIN section : section[key] = Said(source.main, name, key)
<1> DEFINE lines == source.main
           section == Section(Parse(lines).sections, name)
<1>1. Lines(lines) /\ Parse(lines).ok
  BY MigrationAssumption DEF Converts
<1> HIDE DEF lines
<1>2. /\ name \in DOMAIN Parse(lines).sections
           <=> \E line \in Range(lines) : IsHeader(line) /\ line.section = name
      /\ \A key : key \in DOMAIN section <=> Says(lines, name, key) # {}
      /\ \A key \in DOMAIN section : section[key] = Said(lines, name, key)
  BY <1>1, SectionSays
<1> HIDE DEF section
<1> QED BY <1>2 DEF MainSections, section, lines

LEMMA OtherLinesRead ==
  ASSUME Converts, NEW name
  PROVE  LET section == Section(OtherSections, name)
         IN  /\ \A key : key \in DOMAIN section <=> Says(source.defaults, name, key) # {}
             /\ \A key \in DOMAIN section : section[key] = Said(source.defaults, name, key)
<1> DEFINE lines == source.defaults
           section == Section(Parse(lines).sections, name)
<1>1. Lines(lines) /\ Parse(lines).ok
  BY MigrationAssumption DEF Converts
<1> HIDE DEF lines
<1>2. /\ name \in DOMAIN Parse(lines).sections
           <=> \E line \in Range(lines) : IsHeader(line) /\ line.section = name
      /\ \A key : key \in DOMAIN section <=> Says(lines, name, key) # {}
      /\ \A key \in DOMAIN section : section[key] = Said(lines, name, key)
  BY <1>1, SectionSays
<1> HIDE DEF section
<1> QED BY <1>2 DEF OtherSections, section, lines

\* The sections of datasets, each with what it says.
LEMMA SectionsRead ==
  ASSUME Converts
  PROVE  /\ SanoidSections = DatasetSections(MainSections)
         /\ \A name \in SanoidSections :
              /\ name \in DOMAIN MainSections /\ Section(MainSections, name) = MainSections[name]
              /\ Path(name) = DatasetName(MainSections, name)
              /\ IsName(Path(name))
<1>1. ASSUME NEW name PROVE name \in SanoidSections <=> name \in DatasetSections(MainSections)
  BY LinesRead DEF SanoidSections, DatasetSections
<1>2. ASSUME NEW name \in SanoidSections
      PROVE  /\ name \in DOMAIN MainSections /\ Section(MainSections, name) = MainSections[name]
             /\ Path(name) = DatasetName(MainSections, name)
             /\ IsName(Path(name))
  <2>1. name \in DOMAIN MainSections /\ Section(MainSections, name) = MainSections[name]
    BY <1>1 DEF DatasetSections, Section
  <2>2. /\ "path" \in DOMAIN MainSections[name] <=> Says(source.main, name, "path") # {}
        /\ "path" \in DOMAIN MainSections[name] =>
             MainSections[name]["path"] = Said(source.main, name, "path")
    BY <2>1, LinesRead
  <2>3. Path(name) = DatasetName(MainSections, name)
    BY <2>2 DEF Path, DatasetName
  <2>4. Lines(source.main) /\ Parse(source.main).ok
    BY MigrationAssumption DEF Converts
  <2>5. CASE "path" \in DOMAIN MainSections[name]
    <3>1. PICK line \in Range(source.main) : ~IsHeader(line) /\ line.value = MainSections[name]["path"]
      BY <2>1, <2>4, <2>5, SettingsSaid DEF MainSections
    <3>2. IsName(line.value)
      BY <2>4, <3>1 DEF Lines
    <3> QED BY <2>1, <2>3, <2>5, <3>1, <3>2 DEF DatasetName
  <2>6. CASE "path" \notin DOMAIN MainSections[name]
    <3>1. PICK line \in Range(source.main) : IsHeader(line) /\ line.section = name
      BY <2>1, LinesRead
    <3>2. IsName(line.section)
      BY <2>4, <3>1 DEF Lines
    <3> QED BY <2>1, <2>3, <2>6, <3>1, <3>2 DEF DatasetName
  <2> QED BY <2>1, <2>3, <2>5, <2>6
<1> QED BY <1>1, <1>2

\* Each becomes one section, under the name of its dataset.
LEMMA SectionsWritten ==
  ASSUME Converts, ~Mistaken
  PROVE  /\ Sections = {Path(name) : name \in SanoidSections}
         /\ \A name, other \in SanoidSections : Path(name) = Path(other) => name = other
         /\ \A name \in SanoidSections :
              config.datasets[Path(name)] = OutputSection(MainSections, name)
         /\ config.templates = Templates(MainSections, OtherSections)
<1> DEFINE names == SanoidSections
           named == {Path(name) : name \in names}
           from(d) == CHOOSE name \in names : Path(name) = d
<1>1. \A name \in names : /\ Reread(DatasetName(MainSections, name)) = Path(name)
                          /\ DatasetName(MainSections, name) = Path(name)
  BY SectionsRead DEF Mistaken
<1>2. /\ config.templates = Templates(MainSections, OtherSections)
      /\ config.datasets = [d \in named |-> OutputSection(MainSections, from(d))]
  <2> DEFINE read(name) == Reread(DatasetName(MainSections, name))
             chosen(d) == CHOOSE name \in names : read(name) = d
  <2>1. config = [templates |-> Templates(MainSections, OtherSections),
                  datasets |-> [d \in {read(name) : name \in names}
                                  |-> OutputSection(MainSections, chosen(d))]]
    BY SectionsRead DEF Converts, Output
  <2>2. {read(name) : name \in names} = named
    BY <1>1
  <2>3. \A d : chosen(d) = from(d)
    BY <1>1
  <2> HIDE DEF read, chosen, from, names, named
  <2> QED BY <2>1, <2>2, <2>3
<1>3. Sections = named
  BY <1>2 DEF Sections
<1>4. \A name, other \in names : Path(name) = Path(other) => name = other
  <2> DEFINE f == [name \in names |-> Path(name)]
  <2>1. f \in Surjection(names, named)
    BY DEF Surjection
  <2>2. IsFiniteSet(names)
    <3>1. IsFiniteSet(DOMAIN MainSections)
      BY SettingsSaid, MigrationAssumption DEF Converts, MainSections
    <3>2. names \subseteq DOMAIN MainSections
      BY SectionsRead
    <3> QED BY <3>1, <3>2, FS_Subset
  <2>3. Cardinality(named) = Cardinality(names)
    BY <1>3, SectionsRead DEF Converts, Readable, Sections
  <2>4. \A name \in names : f[name] = Path(name)
    OBVIOUS
  <2> HIDE DEF f, names, named
  <2>5. f \in Injection(names, named)
    BY <2>1, <2>2, <2>3, FS_Surjection
  <2> QED BY <2>4, <2>5 DEF Injection, IsInjective
<1>5. ASSUME NEW name \in names
      PROVE  config.datasets[Path(name)] = OutputSection(MainSections, name)
  <2>1. from(Path(name)) = name
    BY <1>4
  <2>2. config.datasets[Path(name)] = OutputSection(MainSections, from(Path(name)))
    BY <1>2
  <2> QED BY <2>1, <2>2
<1> QED BY <1>2, <1>3, <1>4, <1>5

\* A section with the templates it lists.
LEMMA LayersListed ==
  ASSUME Converts, NEW name \in SanoidSections
  PROVE  LET list == Listed(MainSections[name])
         IN  /\ list \in Seq(Range(list)) /\ Len(list) \in Nat /\ DOMAIN list = 1..Len(list)
             /\ DOMAIN Layers(name) = 1..(Len(list) + 1)
             /\ \A k \in 1..Len(list) : Layers(name)[k] = Template(list[k])
             /\ Layers(name)[Len(list) + 1] = name
<1> DEFINE list == Listed(MainSections[name])
           templates == [k \in DOMAIN list |-> Template(list[k])]
           S == {Template(list[k]) : k \in DOMAIN list} \cup {name}
           own == <<name>>
<1>1. Section(MainSections, name) = MainSections[name] /\ name \in DOMAIN MainSections
  BY SectionsRead
<1>2. /\ "use_template" \in DOMAIN MainSections[name]
           <=> Says(source.main, name, "use_template") # {}
      /\ "use_template" \in DOMAIN MainSections[name] =>
           MainSections[name]["use_template"] = Said(source.main, name, "use_template")
  BY <1>1, LinesRead
<1>3. Layers(name) = templates \o own
  BY <1>2 DEF Layers, Listed, Template
<1>4. list \in Seq(Range(list))
  <2>1. CASE "use_template" \in DOMAIN MainSections[name]
    <3>1. Lines(source.main) /\ Parse(source.main).ok
      BY MigrationAssumption DEF Converts
    <3>2. PICK line \in Range(source.main) :
            ~IsHeader(line) /\ line.value = MainSections[name]["use_template"]
      BY <1>1, <2>1, <3>1, SettingsSaid DEF MainSections
    <3>3. IsName(line.value)
      BY <3>1, <3>2 DEF Lines
    <3> QED BY <2>1, <3>2, <3>3 DEF IsName, Listed
  <2>2. CASE "use_template" \notin DOMAIN MainSections[name]
    <3>1. <<>> \in Seq(Range(<<>>))
      OBVIOUS
    <3> QED BY <2>2, <3>1 DEF Listed
  <2> QED BY <2>1, <2>2
<1>5. Len(list) \in Nat /\ DOMAIN list = 1..Len(list)
  BY <1>4
<1> HIDE DEF list
<1>6. templates \in Seq(S) /\ Len(templates) = Len(list) /\ own \in Seq(S) /\ Len(own) = 1 /\ own[1] = name
  <2>1. templates \in [1..Len(list) -> S]
    BY <1>5
  <2>2. name \in S
    OBVIOUS
  <2> HIDE DEF templates, S
  <2>3. templates \in Seq(S) /\ Len(templates) = Len(list)
    BY <1>5, <2>1
  <2> QED BY <2>2, <2>3
<1>7. \A k \in 1..Len(list) : templates[k] = Template(list[k])
  BY <1>5
<1> HIDE DEF templates, S, own
<1>8. /\ DOMAIN (templates \o own) = 1..(Len(templates) + 1)
      /\ \A k \in 1..Len(templates) : (templates \o own)[k] = templates[k]
      /\ (templates \o own)[Len(templates) + 1] = own[1]
  BY <1>6, OneMore
<1> QED BY <1>3, <1>4, <1>5, <1>6, <1>7, <1>8 DEF list

\* A template that is listed is one of the file.
LEMMA TemplatesListed ==
  ASSUME Converts, ~Mistaken, NEW name \in SanoidSections,
         NEW x \in Range(Listed(MainSections[name])) \ {"default"}
  PROVE  Template(x) \in TemplateNames(MainSections)
<1> DEFINE list == Listed(MainSections[name])
<1>1. PICK k \in 1..Len(list) : x = list[k]
  BY LayersListed DEF Range
<1>2. k \in DOMAIN Layers(name) /\ Layers(name)[k] = Template(x)
  BY <1>1, LayersListed
<1>3. Template(x) # TemplateDefault /\ IsTemplate(Template(x))
  BY DEF Template, TemplateDefault, IsTemplate
<1>4. Template(x) \in DOMAIN MainSections
  BY <1>2, <1>3, LinesRead DEF Mistaken
<1> QED BY <1>3, <1>4 DEF TemplateNames

\* What parse_template_list makes of the list of a section.
LEMMA UsedTemplates ==
  ASSUME Converts, NEW name \in SanoidSections
  PROVE  LET used == UseTemplates(MainSections, name)
         IN  /\ used \in Seq(Usable(MainSections, MainSections[name]))
             /\ Len(used) \in Nat /\ DOMAIN used = 1..Len(used)
<1> DEFINE used == UseTemplates(MainSections, name)
           T == Usable(MainSections, MainSections[name])
<1>1. used \in Seq(T)
  BY LayersListed, TemplatesUsed
<1> HIDE DEF used, T
<1>2. Len(used) \in Nat /\ DOMAIN used = 1..Len(used)
  BY <1>1
<1> QED BY <1>1, <1>2 DEF used, T

\* Whether a section's templates say something, and the strongest that does,
\* for anything that their new names tell of them as well.
LEMMA LayersKept ==
  ASSUME Converts, ~Mistaken, NEW name \in SanoidSections, NEW key, NEW has,
         \A t \in TemplateNames(MainSections) : t \in has <=> key \in DOMAIN MainSections[t],
         TemplateDefault \in DOMAIN MainSections =>
           (UserDefaultName(MainSections) \in has
              <=> key \in DOMAIN MainSections[TemplateDefault])
  PROVE  LET used == UseTemplates(MainSections, name)
             telling == {j \in DOMAIN used : used[j] \in has}
             own == key \in DOMAIN MainSections[name]
         IN  /\ Saying(name, key) # {} <=> own \/ telling # {}
             /\ own => Strongest(name, key) = name
             /\ ~own /\ telling # {} =>
                  /\ Strongest(name, key) \in TemplateNames(MainSections)
                                                \cup ({TemplateDefault} \cap DOMAIN MainSections)
                  /\ used[Max(telling)] = Renamed(MainSections, Strongest(name, key))
                  /\ key \in DOMAIN MainSections[Strongest(name, key)]
<1> DEFINE sections == MainSections
           section == sections[name]
           list == Listed(section)
           l == Len(list)
           u == CHOOSE u : Uses(u, sections, section, l)
           used == UseTemplates(sections, name)
           telling == {j \in DOMAIN used : used[j] \in has}
           own == key \in DOMAIN section
           says == {t \in DOMAIN sections : key \in DOMAIN sections[t]}
           listed == {k \in 1..l : Template(list[k]) \in says}
<1>1. /\ list \in Seq(Range(list)) /\ l \in Nat /\ DOMAIN list = 1..l
      /\ DOMAIN Layers(name) = 1..(l + 1)
      /\ \A k \in 1..l : Layers(name)[k] = Template(list[k])
      /\ Layers(name)[l + 1] = name
  BY LayersListed
<1>2. Uses(u, sections, section, l) /\ used = u[l]
  <2>1. Uses(u, sections, section, l)
    BY <1>1, UsesExists
  <2>2. used = u[l]
    BY DEF UseTemplates, Uses, Listed
  <2> QED BY <2>1, <2>2
<1> HIDE DEF u
<1>3. KeepsLast(u, l, sections, section, says, has)
  <2>1. \A x \in Range(list) \ {"default"} : Template(x) \in says <=> Template(x) \in has
    <3> SUFFICES ASSUME NEW x \in Range(list) \ {"default"}
                 PROVE  Template(x) \in says <=> Template(x) \in has
      OBVIOUS
    <3>1. Template(x) \in TemplateNames(sections)
      BY TemplatesListed
    <3> QED BY <3>1 DEF TemplateNames
  <2>2. TemplateDefault \in DOMAIN sections =>
          (TemplateDefault \in says <=> UserDefaultName(sections) \in has)
    OBVIOUS
  <2>3. TemplateDefault \notin DOMAIN sections => TemplateDefault \notin says
    OBVIOUS
  <2> HIDE DEF says, sections, section
  <2> QED BY <1>1, <1>2, <2>1, <2>2, <2>3, LastIsKept
<1>4. /\ listed = {} <=> telling = {}
      /\ listed # {} => used[Max(telling)] = Renamed(sections, Template(list[Max(listed)]))
  BY <1>2, <1>3 DEF KeepsLast
<1>5. \A k : k \in Saying(name, key) <=> k \in listed \/ (k = l + 1 /\ own)
  <2>1. \A t : Says(source.main, t, key) # {} <=> t \in says
    <3> SUFFICES ASSUME NEW t PROVE Says(source.main, t, key) # {} <=> t \in says
      OBVIOUS
    <3>1. key \in DOMAIN Section(sections, t) <=> Says(source.main, t, key) # {}
      BY LinesRead
    <3>2. DOMAIN <<>> = {}
      OBVIOUS
    <3> QED BY <3>1, <3>2 DEF Section
  <2>2. name \in says <=> own
    BY SectionsRead
  <2>3. \A k : k \in 1..(l + 1) <=> k \in 1..l \/ k = l + 1
    BY <1>1
  <2>4. ~(l + 1 \in 1..l)
    BY <1>1
  <2> HIDE DEF says, own, l
  <2> QED BY <1>1, <2>1, <2>2, <2>3, <2>4 DEF Saying
<1> HIDE DEF own, says, telling, used
<1>6. Saying(name, key) # {} <=> own \/ telling # {}
  <2> HIDE DEF listed
  <2> QED BY <1>4, <1>5
<1>7. ASSUME own PROVE Strongest(name, key) = name
  <2> DEFINE S == Saying(name, key)
  <2>1. l + 1 \in S /\ S \subseteq Nat /\ \A m \in S : m <= l + 1
    BY <1>1, <1>5, <1>7
  <2>2. Max(S) = l + 1
    <3> HIDE DEF S
    <3> QED BY <2>1, MaxIs
  <2> QED BY <1>1, <2>2 DEF Strongest
<1>8. ASSUME ~own, telling # {}
      PROVE  /\ Strongest(name, key) \in TemplateNames(sections)
                                           \cup ({TemplateDefault} \cap DOMAIN sections)
             /\ used[Max(telling)] = Renamed(sections, Strongest(name, key))
             /\ key \in DOMAIN sections[Strongest(name, key)]
  <2>1. Saying(name, key) = listed
    BY <1>5, <1>8
  <2>2. Max(listed) \in listed
    <3>1. listed \subseteq 0..l /\ listed # {}
      BY <1>4, <1>8
    <3> HIDE DEF listed
    <3> QED BY <1>1, <3>1, Greatest
  <2>3. Max(listed) \in 1..l /\ Template(list[Max(listed)]) \in says
    BY <2>2
  <2> HIDE DEF listed
  <2>4. Strongest(name, key) = Template(list[Max(listed)])
    BY <1>1, <2>1, <2>3 DEF Strongest
  <2>5. Strongest(name, key) \in DOMAIN sections /\ IsTemplate(Strongest(name, key))
    BY <2>3, <2>4 DEF says, Template, IsTemplate
  <2> QED BY <1>4, <1>8, <2>3, <2>4, <2>5 DEF TemplateNames, says
<1> QED BY <1>6, <1>7, <1>8 DEF own, telling, used

\* The templates of a section are written ones, and the name of the user's
\* defaults stands for nothing else.
LEMMA UsedAreWritten ==
  ASSUME Converts, ~Mistaken, NEW name \in SanoidSections
  PROVE  LET used == UseTemplates(MainSections, name)
             user == UserDefaultName(MainSections)
         IN  /\ \A j \in DOMAIN used :
                  \/ used[j] \in TemplateNames(MainSections)
                  \/ TemplateDefault \in DOMAIN MainSections /\ used[j] = user
             /\ BaseName(MainSections) \notin TemplateNames(MainSections)
             /\ user \notin TemplateNames(MainSections) \cup {BaseName(MainSections)}
<1> DEFINE used == UseTemplates(MainSections, name)
           T == Usable(MainSections, MainSections[name])
<1>1. \A j \in DOMAIN used : used[j] \in T
  <2>1. used \in Seq(T) /\ DOMAIN used = 1..Len(used)
    BY UsedTemplates
  <2> HIDE DEF used, T
  <2> QED BY <2>1
<1>2. ASSUME NEW t \in T
      PROVE  \/ t \in TemplateNames(MainSections)
             \/ TemplateDefault \in DOMAIN MainSections /\ t = UserDefaultName(MainSections)
  <2>1. CASE TemplateDefault \in DOMAIN MainSections /\ t = UserDefaultName(MainSections)
    BY <2>1
  <2>2. CASE ~(TemplateDefault \in DOMAIN MainSections /\ t = UserDefaultName(MainSections))
    <3>1. PICK x \in Range(Listed(MainSections[name])) \ {"default"} : t = Template(x)
      BY <2>2 DEF Usable, Template
    <3> QED BY <3>1, TemplatesListed
  <2> QED BY <2>1, <2>2
<1>3. /\ BaseName(MainSections) \notin TemplateNames(MainSections)
      /\ UserDefaultName(MainSections)
           \notin TemplateNames(MainSections) \cup {BaseName(MainSections)}
  BY GeneratedNew DEF Converts, MainSections
<1> HIDE DEF used, T
<1> QED BY <1>1, <1>2, <1>3 DEF used

\* What the generated base template sets.
BasePolicy ==
  LET standard == [f \in Fields \cap DOMAIN StandardDefaults |-> StandardDefaults[f]]
  IN  Over(Patch(Section(MainSections, TemplateDefault)),
           Over(Patch(Section(OtherSections, TemplateDefault)), standard))

\* The templates and the settings of a section as it is written.
LEMMA SectionPatches ==
  ASSUME Converts, ~Mistaken, NEW name \in SanoidSections
  PROVE  LET used == UseTemplates(MainSections, name)
             h == IF Inherits(MainSections, name) THEN 0 ELSE 1
             s == Path(name)
         IN  /\ config.datasets[s].templates \in Seq(Range(config.datasets[s].templates))
             /\ DOMAIN Patches(s) = 1..(h + Len(used) + 1)
             /\ h = 1 => Patches(s)[1] = BasePolicy
             /\ \A j \in 1..Len(used) : Patches(s)[h + j] = config.templates[used[j]]
             /\ Patches(s)[h + Len(used) + 1] = Patch(MainSections[name])
<1> DEFINE used == UseTemplates(MainSections, name)
           T == Usable(MainSections, MainSections[name])
           h == IF Inherits(MainSections, name) THEN 0 ELSE 1
           head == IF Inherits(MainSections, name) THEN <<>> ELSE <<BaseName(MainSections)>>
           s == Path(name)
           S == T \cup {BaseName(MainSections)}
           ts == head \o used
<1>1. used \in Seq(T) /\ Len(used) \in Nat
  BY UsedTemplates
<1>2. config.datasets[s].templates = ts /\ config.datasets[s].policy = Patch(MainSections[name])
  <2>1. config.datasets[s] = OutputSection(MainSections, name)
    BY SectionsWritten
  <2>2. /\ OutputSection(MainSections, name).templates = ts
        /\ OutputSection(MainSections, name).policy = Patch(MainSections[name])
    BY DEF OutputSection
  <2> HIDE DEF ts, s
  <2> QED BY <2>1, <2>2
<1>3. config.templates[BaseName(MainSections)] = BasePolicy
  BY SectionsWritten, UsedAreWritten, TemplatesAre DEF BasePolicy
<1>4. head \in Seq(S) /\ Len(head) = h /\ (h = 1 => head[1] = BaseName(MainSections)) /\ h \in {0, 1}
  <2>1. BaseName(MainSections) \in S
    OBVIOUS
  <2> HIDE DEF S
  <2>2. CASE Inherits(MainSections, name)
    BY <2>2
  <2>3. CASE ~Inherits(MainSections, name)
    BY <2>1, <2>3
  <2> QED BY <2>2, <2>3
<1>5. used \in Seq(S)
  <2>1. T \subseteq S
    OBVIOUS
  <2> HIDE DEF used, T, S
  <2> QED BY <1>1, <2>1
<1> HIDE DEF used, T, head, S, h
<1>6. /\ ts \in Seq(S) /\ Len(ts) = h + Len(used) /\ DOMAIN ts = 1..Len(ts)
      /\ \A k \in 1..h : ts[k] = head[k]
      /\ \A j \in 1..Len(used) : ts[h + j] = used[j]
  BY <1>1, <1>4, <1>5
<1> HIDE DEF ts
<1>7. ts \in Seq(Range(ts))
  <2>1. ts \in [1..Len(ts) -> Range(ts)] /\ Len(ts) \in Nat
    BY <1>1, <1>4, <1>6 DEF Range
  <2> QED BY <2>1
<1>8. /\ DOMAIN Patches(s) = 1..(Len(ts) + 1)
      /\ \A k \in 1..Len(ts) : Patches(s)[k] = config.templates[ts[k]]
      /\ Patches(s)[Len(ts) + 1] = config.datasets[s].policy
  <2>1. Len(ts) \in Nat
    BY <1>1, <1>4, <1>6
  <2> HIDE DEF s
  <2> QED BY <1>2, <1>6, <2>1, PatchesInOrder
<1>9. ASSUME h = 1 PROVE Patches(s)[1] = BasePolicy
  <2>1. 1 \in 1..Len(ts) /\ 1 \in 1..h
    BY <1>1, <1>6, <1>9
  <2>2. ts[1] = BaseName(MainSections)
    BY <1>4, <1>6, <1>9, <2>1
  <2> QED BY <1>3, <1>8, <2>1, <2>2
<1>10. ASSUME NEW j \in 1..Len(used) PROVE Patches(s)[h + j] = config.templates[used[j]]
  <2>1. h + j \in 1..Len(ts)
    BY <1>1, <1>4, <1>6
  <2> QED BY <1>6, <1>8, <2>1
<1> QED BY <1>2, <1>6, <1>7, <1>8, <1>9, <1>10 DEF used, h

\* A field that a section or a template of its sets is written as what the
\* strongest of them says, and else as the base template has it.
LEMMA SectionValues ==
  ASSUME Converts, ~Mistaken, NEW name \in SanoidSections, NEW f \in Fields
  PROVE  LET s == Path(name)
         IN  IF Saying(name, f) # {}
             THEN /\ Setting(s, f) # {}
                  /\ Value(s, f) = Converted(f, Said(source.main, Strongest(name, f), f))
             ELSE IF ~Inherits(MainSections, name) /\ f \in DOMAIN BasePolicy
             THEN Setting(s, f) # {} /\ Value(s, f) = BasePolicy[f]
             ELSE Setting(s, f) = {}
<1> DEFINE s == Path(name)
           used == UseTemplates(MainSections, name)
           m == Len(used)
           h == IF Inherits(MainSections, name) THEN 0 ELSE 1
           user == UserDefaultName(MainSections)
           has == {t \in TemplateNames(MainSections) \cup {user} : f \in DOMAIN config.templates[t]}
           telling == {j \in DOMAIN used : used[j] \in has}
           own == f \in DOMAIN MainSections[name]
           strongest == Strongest(name, f)
           patches == Patches(s)
<1>1. /\ DOMAIN patches = 1..(h + m + 1)
      /\ h = 1 => patches[1] = BasePolicy
      /\ \A j \in 1..m : patches[h + j] = config.templates[used[j]]
      /\ patches[h + m + 1] = Patch(MainSections[name])
  BY SectionPatches
<1>2. m \in Nat /\ DOMAIN used = 1..m /\ h \in {0, 1}
  BY UsedTemplates
<1>3. \A j \in DOMAIN used : \/ used[j] \in TemplateNames(MainSections)
                             \/ TemplateDefault \in DOMAIN MainSections /\ used[j] = user
  BY UsedAreWritten
<1>4. /\ \A t \in TemplateNames(MainSections) : config.templates[t] = Patch(MainSections[t])
      /\ TemplateDefault \in DOMAIN MainSections =>
           config.templates[user] = Patch(MainSections[TemplateDefault])
  <2>1. /\ BaseName(MainSections) \notin TemplateNames(MainSections)
        /\ user \notin TemplateNames(MainSections) \cup {BaseName(MainSections)}
        /\ config.templates = Templates(MainSections, OtherSections)
    BY UsedAreWritten, SectionsWritten
  <2> QED BY <2>1, TemplatesAre DEF Section
<1>5. \A section : /\ f \in DOMAIN Patch(section) <=> f \in DOMAIN section
                   /\ f \in DOMAIN section => Patch(section)[f] = Converted(f, section[f])
  BY DEF Patch
<1>6. /\ \A t \in TemplateNames(MainSections) : t \in has <=> f \in DOMAIN MainSections[t]
      /\ TemplateDefault \in DOMAIN MainSections =>
           (user \in has <=> f \in DOMAIN MainSections[TemplateDefault])
  BY <1>4, <1>5
<1>7. /\ Saying(name, f) # {} <=> own \/ telling # {}
      /\ own => strongest = name
      /\ ~own /\ telling # {} =>
           /\ strongest \in TemplateNames(MainSections)
                              \cup ({TemplateDefault} \cap DOMAIN MainSections)
           /\ used[Max(telling)] = Renamed(MainSections, strongest)
           /\ f \in DOMAIN MainSections[strongest]
  <2> HIDE DEF has
  <2> QED BY <1>6, LayersKept
<1>8. \A j \in 1..m : f \in DOMAIN config.templates[used[j]] <=> j \in telling
  BY <1>2, <1>3
<1>9. /\ own => /\ f \in DOMAIN Patch(MainSections[name])
                /\ Patch(MainSections[name])[f] = Converted(f, Said(source.main, name, f))
      /\ ~own => f \notin DOMAIN Patch(MainSections[name])
  <2>1. Section(MainSections, name) = MainSections[name]
    BY SectionsRead
  <2>2. own => MainSections[name][f] = Said(source.main, name, f)
    BY <2>1, LinesRead
  <2> QED BY <1>5, <2>2
<1> HIDE DEF has, own, m, used, h, s, patches
<1>10. Setting(s, f) = {k \in 1..(h + m + 1) : f \in DOMAIN patches[k]}
  BY <1>1 DEF Setting, patches
<1>11. telling \subseteq 1..m
  BY <1>2
<1> HIDE DEF telling, strongest, user
<1>12. CASE own
  <2>1. h + m + 1 \in Setting(s, f) /\ Setting(s, f) \subseteq Nat
        /\ \A k \in Setting(s, f) : k <= h + m + 1
    BY <1>1, <1>2, <1>9, <1>10, <1>12
  <2>2. Max(Setting(s, f)) = h + m + 1
    BY <2>1, MaxIs
  <2>3. Value(s, f) = Converted(f, Said(source.main, name, f))
    BY <1>1, <1>9, <1>12, <2>2 DEF Value, patches
  <2> QED BY <1>7, <1>12, <2>1, <2>3 DEF strongest, s
<1>13. CASE ~own /\ telling # {}
  <2> DEFINE last == Max(telling)
  <2>1. last \in telling /\ \A j \in telling : j <= last
    <3>1. telling \subseteq 0..m
      BY <1>2, <1>11
    <3> QED BY <1>2, <1>13, <3>1, Greatest
  <2> HIDE DEF last
  <2>2. last \in 1..m
    BY <1>11, <2>1
  <2>3. /\ h + last \in Setting(s, f) /\ Setting(s, f) \subseteq Nat
        /\ patches[h + last] = config.templates[used[last]]
    BY <1>1, <1>2, <1>8, <1>10, <2>1, <2>2
  <2>4. ASSUME NEW k \in Setting(s, f) PROVE k <= h + last
    <3>1. k \in 1..(h + m + 1) /\ f \in DOMAIN patches[k]
      BY <1>10
    <3>2. k # h + m + 1
      BY <1>1, <1>9, <1>13, <3>1
    <3>3. CASE k <= h
      BY <1>2, <2>2, <3>1, <3>3
    <3>4. CASE ~(k <= h)
      <4>1. k - h \in 1..m /\ h + (k - h) = k
        BY <1>2, <3>1, <3>2, <3>4
      <4>2. k - h \in telling
        BY <1>1, <1>8, <3>1, <4>1
      <4>3. k - h <= last
        BY <2>1, <4>2
      <4> QED BY <1>2, <2>2, <3>1, <4>3
    <3> QED BY <3>3, <3>4
  <2>5. Max(Setting(s, f)) = h + last
    BY <2>3, <2>4, MaxIs
  <2>6. Value(s, f) = config.templates[used[last]][f]
    BY <2>3, <2>5 DEF Value, patches
  <2>7. used[last] = Renamed(MainSections, strongest)
    BY <1>7, <1>13 DEF last
  <2>8. config.templates[used[last]] = Patch(MainSections[strongest])
    <3>1. CASE strongest = TemplateDefault
      BY <1>4, <1>7, <1>13, <2>7, <3>1 DEF Renamed, TemplateNames, user
    <3>2. CASE strongest # TemplateDefault
      BY <1>4, <1>7, <1>13, <2>7, <3>2 DEF Renamed
    <3> QED BY <3>1, <3>2
  <2>9. MainSections[strongest][f] = Said(source.main, strongest, f)
    <3>1. strongest \in DOMAIN MainSections
      BY <1>7, <1>13 DEF TemplateNames
    <3>2. Section(MainSections, strongest) = MainSections[strongest]
      BY <3>1 DEF Section
    <3> QED BY <1>7, <1>13, <3>2, LinesRead
  <2>10. Value(s, f) = Converted(f, Said(source.main, strongest, f))
    BY <1>5, <1>7, <1>13, <2>6, <2>8, <2>9
  <2> QED BY <1>7, <1>13, <2>3, <2>10 DEF strongest, s
<1>14. CASE ~own /\ telling = {}
  <2>1. \A k \in 1..(h + m + 1) : f \in DOMAIN patches[k] <=> k = 1 /\ h = 1 /\ f \in DOMAIN BasePolicy
    <3> SUFFICES ASSUME NEW k \in 1..(h + m + 1)
                 PROVE  f \in DOMAIN patches[k] <=> k = 1 /\ h = 1 /\ f \in DOMAIN BasePolicy
      OBVIOUS
    <3>1. CASE k = h + m + 1
      <4>1. f \notin DOMAIN patches[k]
        BY <1>1, <1>9, <1>14, <3>1
      <4>2. ~(k = 1 /\ h = 1)
        BY <1>2, <3>1
      <4> QED BY <4>1, <4>2
    <3>2. CASE k # h + m + 1 /\ k <= h
      <4>1. k = 1 /\ h = 1
        BY <1>2, <3>2
      <4> QED BY <1>1, <4>1
    <3>3. CASE k # h + m + 1 /\ ~(k <= h)
      <4>1. k - h \in 1..m /\ h + (k - h) = k /\ ~(k = 1 /\ h = 1)
        BY <1>2, <3>3
      <4>2. f \notin DOMAIN patches[k]
        BY <1>1, <1>8, <1>14, <4>1
      <4> QED BY <4>1, <4>2
    <3> QED BY <3>1, <3>2, <3>3
  <2>2. CASE h = 1 /\ f \in DOMAIN BasePolicy
    <3>1. 1 \in 1..(h + m + 1)
      BY <1>2
    <3>2. 1 \in Setting(s, f) /\ Setting(s, f) \subseteq Nat /\ \A k \in Setting(s, f) : k <= 1
      BY <1>10, <2>1, <2>2, <3>1
    <3>3. Max(Setting(s, f)) = 1
      BY <3>2, MaxIs
    <3>4. Value(s, f) = BasePolicy[f]
      BY <1>1, <2>2, <3>3 DEF Value, patches
    <3>5. ~Inherits(MainSections, name)
      BY <2>2 DEF h
    <3> QED BY <1>7, <1>14, <2>2, <3>2, <3>4, <3>5 DEF s
  <2>3. CASE ~(h = 1 /\ f \in DOMAIN BasePolicy)
    <3>1. Setting(s, f) = {}
      BY <1>10, <2>1, <2>3
    <3>2. ~(~Inherits(MainSections, name) /\ f \in DOMAIN BasePolicy)
      BY <2>3 DEF h
    <3> QED BY <1>7, <1>14, <3>1, <3>2 DEF s
  <2> QED BY <2>2, <2>3
<1> QED BY <1>12, <1>13, <1>14

\* parse_recursion reads what Sanoid reads.
LEMMA RecursionRead ==
  ASSUME Converts, NEW name \in SanoidSections
  PROVE  Recursive(MainSections[name]) # "None" <=> Recurses(name)
<1>1. Section(MainSections, name) = MainSections[name]
  BY SectionsRead
<1>2. /\ "recursive" \in DOMAIN MainSections[name] <=> Says(source.main, name, "recursive") # {}
      /\ "recursive" \in DOMAIN MainSections[name] =>
           MainSections[name]["recursive"] = Said(source.main, name, "recursive")
  BY <1>1, LinesRead
<1> QED BY <1>2 DEF Recursive, Recurses, SaysYes

\* A section inherits when Sanoid sees it beneath a recursive one.
LEMMA InheritanceRead ==
  ASSUME Converts, NEW name \in SanoidSections
  PROVE  Inherits(MainSections, name)
           <=> \E s \in SanoidSections : Recurses(s) /\ Below(Path(name), Path(s))
BY SectionsRead, RecursionRead DEF Inherits

\* Whether a section leaves its own dataset out: resolve_process_children_only
\* and apply_base_template find what Sanoid finds.
LEMMA ChildrenOnlyRead ==
  ASSUME Converts, ~Mistaken, NEW name \in SanoidSections
  PROVE  ChildrenOnly(MainSections, name) <=> LeftOut(name)
<1> DEFINE key == "process_children_only"
           sections == MainSections
           used == UseTemplates(sections, name)
           m == Len(used)
           user == UserDefaultName(sections)
           has == {t \in TemplateNames(sections) \cup {user} :
                     key \in DOMAIN sections[SourceOf(sections, t)]}
           telling == {j \in DOMAIN used : used[j] \in has}
           own == key \in DOMAIN sections[name]
           strongest == Strongest(name, key)
           first == [k \in DOMAIN used |-> SourceOf(sections, used[k])]
           last == <<name>>
           sources == first \o last
           setting == {k \in DOMAIN sources : key \in DOMAIN sections[sources[k]]}
           override == ChildrenOnlyOverride(sections, name)
<1>1. m \in Nat /\ DOMAIN used = 1..m
  BY UsedTemplates
<1>2. \A j \in DOMAIN used : \/ used[j] \in TemplateNames(sections)
                             \/ TemplateDefault \in DOMAIN sections /\ used[j] = user
  BY UsedAreWritten
<1>3. /\ \A t \in TemplateNames(sections) : SourceOf(sections, t) = t
      /\ TemplateDefault \in DOMAIN sections => SourceOf(sections, user) = TemplateDefault
  BY UsedAreWritten DEF SourceOf
<1>4. /\ \A t \in TemplateNames(sections) : t \in has <=> key \in DOMAIN sections[t]
      /\ TemplateDefault \in DOMAIN sections =>
           (user \in has <=> key \in DOMAIN sections[TemplateDefault])
  BY <1>3
<1>5. /\ Saying(name, key) # {} <=> own \/ telling # {}
      /\ own => strongest = name
      /\ ~own /\ telling # {} =>
           /\ strongest \in TemplateNames(sections) \cup ({TemplateDefault} \cap DOMAIN sections)
           /\ used[Max(telling)] = Renamed(sections, strongest)
           /\ key \in DOMAIN sections[strongest]
  <2> HIDE DEF has, key
  <2> QED BY <1>4, LayersKept
<1>6. \A j \in 1..m : key \in DOMAIN sections[SourceOf(sections, used[j])] <=> j \in telling
  BY <1>1, <1>2
<1>7. /\ DOMAIN sources = 1..(m + 1)
      /\ \A k \in 1..m : sources[k] = SourceOf(sections, used[k])
      /\ sources[m + 1] = name
  <2> DEFINE S == {SourceOf(sections, used[k]) : k \in 1..m} \cup {name}
  <2>1. first \in Seq(S) /\ Len(first) = m /\ last \in Seq(S) /\ Len(last) = 1 /\ last[1] = name
    <3>1. first \in [1..m -> S] /\ name \in S
      BY <1>1
    <3> HIDE DEF first, S
    <3>2. first \in Seq(S) /\ Len(first) = m
      BY <1>1, <3>1
    <3> QED BY <3>1, <3>2
  <2>2. \A k \in 1..m : first[k] = SourceOf(sections, used[k])
    BY <1>1
  <2> HIDE DEF first, last, S
  <2>3. /\ DOMAIN (first \o last) = 1..(Len(first) + 1)
        /\ \A k \in 1..Len(first) : (first \o last)[k] = first[k]
        /\ (first \o last)[Len(first) + 1] = last[1]
    BY <2>1, OneMore
  <2> QED BY <2>1, <2>2, <2>3
<1>8. override = IF setting = {} THEN "absent"
                 ELSE IF sections[sources[Max(setting)]].process_children_only \in True
                      THEN "yes" ELSE "no"
  BY DEF ChildrenOnlyOverride
<1> HIDE DEF first, last, sources
<1>9. \A k : k \in setting <=> k \in telling \/ (k = m + 1 /\ own)
  <2>1. \A k : k \in 1..(m + 1) <=> k \in 1..m \/ k = m + 1
    BY <1>1
  <2>2. ~(m + 1 \in 1..m)
    BY <1>1
  <2>3. telling \subseteq 1..m
    BY <1>1
  <2>4. \A k : k \in setting <=> k \in DOMAIN sources /\ key \in DOMAIN sections[sources[k]]
    OBVIOUS
  <2>5. key \in DOMAIN sections[name] <=> own
    OBVIOUS
  <2> HIDE DEF telling, own, m, used, setting, key, sections
  <2> QED BY <1>6, <1>7, <2>1, <2>2, <2>3, <2>4, <2>5
<1>10. telling \subseteq 1..m
  BY <1>1
<1>11. ASSUME own \/ telling # {}
       PROVE  /\ setting # {} /\ sources[Max(setting)] = strongest
              /\ strongest \in DOMAIN sections /\ key \in DOMAIN sections[strongest]
  <2>1. CASE own
    <3>1. m + 1 \in setting /\ setting \subseteq Nat /\ \A k \in setting : k <= m + 1
      <4> HIDE DEF telling, own, m, used, setting
      <4>1. m + 1 \in setting
        BY <1>9, <2>1
      <4>2. \A k \in setting : k \in 1..m \/ k = m + 1
        BY <1>9, <1>10
      <4> QED BY <1>1, <4>1, <4>2
    <3>2. Max(setting) = m + 1
      <4> HIDE DEF setting
      <4> QED BY <3>1, MaxIs
    <3> QED BY <1>5, <1>7, <2>1, <3>1, <3>2, SectionsRead
  <2>2. CASE ~own
    <3>1. setting = telling
      <4> HIDE DEF telling, own, setting
      <4> QED BY <1>9, <2>2
    <3>2. Max(telling) \in telling
      <4>1. telling \subseteq 0..m /\ telling # {}
        BY <1>1, <1>10, <1>11, <2>2
      <4> HIDE DEF telling
      <4> QED BY <1>1, <4>1, Greatest
    <3> HIDE DEF telling, setting, used, own, strongest, user
    <3>3. sources[Max(setting)] = SourceOf(sections, used[Max(telling)])
      BY <1>7, <1>10, <3>1, <3>2
    <3>4. SourceOf(sections, Renamed(sections, strongest)) = strongest
      BY <1>3, <1>5, <1>11, <2>2 DEF Renamed, TemplateNames, user
    <3> QED BY <1>5, <1>11, <2>2, <3>1, <3>3, <3>4 DEF TemplateNames
  <2> QED BY <2>1, <2>2
<1> HIDE DEF setting, sources, telling, own, strongest, has, used
<1>12. ASSUME NEW t \in DOMAIN sections
       PROVE  SaysYes(t, key) <=> key \in DOMAIN sections[t] /\ sections[t][key] \in True
  <2>1. Section(sections, t) = sections[t]
    BY DEF Section
  <2> QED BY <2>1, LinesRead DEF SaysYes
<1>13. CASE own \/ telling # {}
  <2>1. override # "absent" /\ (override = "yes" <=> sections[strongest][key] \in True)
    BY <1>8, <1>11, <1>13
  <2>2. ChildrenOnly(sections, name) <=> sections[strongest][key] \in True
    BY <2>1 DEF ChildrenOnly
  <2>3. SaysYes(strongest, key) <=> sections[strongest][key] \in True
    BY <1>11, <1>12, <1>13
  <2>4. LeftOut(name) <=> SaysYes(strongest, key)
    BY <1>5, <1>13 DEF LeftOut, strongest
  <2> QED BY <2>2, <2>3, <2>4
<1>14. CASE ~(own \/ telling # {})
  <2>1. override = "absent"
    <3>1. setting = {}
      BY <1>9, <1>14
    <3> QED BY <1>8, <3>1
  <2> DEFINE default == Section(sections, TemplateDefault)
  <2>2. ChildrenOnly(sections, name)
          <=> /\ ~Inherits(sections, name)
              /\ key \in DOMAIN default /\ default[key] \in True
    BY <2>1 DEF ChildrenOnly
  <2>3. key \in DOMAIN default /\ default[key] \in True <=> SaysYes(TemplateDefault, key)
    BY LinesRead DEF SaysYes
  <2>4. LeftOut(name) <=> /\ SaysYes(TemplateDefault, key)
                          /\ \A s \in SanoidSections : Recurses(s) => ~Below(Path(name), Path(s))
    BY <1>5, <1>14 DEF LeftOut
  <2> HIDE DEF default
  <2> QED BY <2>2, <2>3, <2>4, InheritanceRead
<1> QED BY <1>13, <1>14

\* What is written is a configuration.
LEMMA WrittenParsed ==
  ASSUME Converts, ~Mistaken
  PROVE  Parsed(config)
<1>1. ASSUME NEW t \in DOMAIN config.templates PROVE DOMAIN config.templates[t] \subseteq Fields
  <2> DEFINE sections == MainSections
  <2>1. \A section : DOMAIN Patch(section) \subseteq Fields
    BY DEF Patch
  <2>2. DOMAIN BasePolicy \subseteq Fields
    BY <2>1 DEF BasePolicy, Over
  <2>3. /\ BaseName(sections) \notin TemplateNames(sections)
        /\ UserDefaultName(sections) \notin TemplateNames(sections) \cup {BaseName(sections)}
    BY GeneratedNew DEF Converts, MainSections
  <2>4. config.templates = Templates(sections, OtherSections)
    BY SectionsWritten
  <2>5. /\ config.templates[BaseName(sections)] = BasePolicy
        /\ TemplateDefault \in DOMAIN sections =>
             config.templates[UserDefaultName(sections)] = Patch(Section(sections, TemplateDefault))
        /\ \A name \in TemplateNames(sections) : config.templates[name] = Patch(sections[name])
    BY <2>3, <2>4, TemplatesAre DEF BasePolicy
  <2>6. \/ t = BaseName(sections)
        \/ TemplateDefault \in DOMAIN sections /\ t = UserDefaultName(sections)
        \/ t \in TemplateNames(sections)
    <3>1. DOMAIN <<>> = {}
      OBVIOUS
    <3>2. t \in DOMAIN Templates(sections, OtherSections)
      BY <2>4
    <3> QED BY <3>1, <3>2 DEF Templates, Over
  <2> QED BY <2>1, <2>2, <2>5, <2>6
<1>2. ASSUME NEW d \in DOMAIN config.datasets
      PROVE  /\ IsName(d)
             /\ config.datasets[d].recursive \in {"None", "Children", "Zfs"}
             /\ config.datasets[d].childrenOnly \in BOOLEAN
             /\ config.datasets[d].templates \in Seq(Range(config.datasets[d].templates))
             /\ DOMAIN config.datasets[d].policy \subseteq Fields
  <2>1. PICK name \in SanoidSections : d = Path(name)
    BY SectionsWritten DEF Sections
  <2>2. config.datasets[d] = OutputSection(MainSections, name)
    BY <2>1, SectionsWritten
  <2>3. IsName(d)
    BY <2>1, SectionsRead
  <2>4. config.datasets[d].recursive \in {"None", "Children", "Zfs"}
    BY <2>2 DEF OutputSection, Recursive
  <2>5. config.datasets[d].childrenOnly \in BOOLEAN
    <3>1. ChildrenOnly(MainSections, name) \in BOOLEAN
      <4>1. CASE ChildrenOnlyOverride(MainSections, name) # "absent"
        BY <4>1 DEF ChildrenOnly
      <4>2. CASE ChildrenOnlyOverride(MainSections, name) = "absent"
        BY <4>2 DEF ChildrenOnly
      <4> QED BY <4>1, <4>2
    <3>2. config.datasets[d].childrenOnly = ChildrenOnly(MainSections, name)
      BY <2>2 DEF OutputSection
    <3> QED BY <3>1, <3>2
  <2>6. config.datasets[d].templates \in Seq(Range(config.datasets[d].templates))
    BY <2>1, SectionPatches
  <2>7. DOMAIN config.datasets[d].policy \subseteq Fields
    BY <2>2 DEF OutputSection, Patch
  <2> QED BY <2>3, <2>4, <2>5, <2>6, <2>7
<1> QED BY <1>1, <1>2 DEF Parsed

\* The sections that reach a dataset are those of Sanoid's that do.
LEMMA ReachesTheSame ==
  ASSUME Converts, ~Mistaken, NEW d
  PROVE  Reaching(d) = {Path(name) : name \in SanoidReaching(d)}
<1>1. ASSUME NEW name \in SanoidSections
      PROVE  /\ Path(name) \in Sections
             /\ config.datasets[Path(name)].recursive # "None" <=> Recurses(name)
             /\ config.datasets[Path(name)].childrenOnly <=> LeftOut(name)
  <2>1. /\ Path(name) \in Sections
        /\ config.datasets[Path(name)] = OutputSection(MainSections, name)
    BY SectionsWritten
  <2> QED BY <2>1, RecursionRead, ChildrenOnlyRead DEF OutputSection
<1>2. \A s \in Sections : \E name \in SanoidSections : s = Path(name)
  BY SectionsWritten
<1> QED BY <1>1, <1>2 DEF Reaching, SanoidReaching, Sections

\* A converted value does what the value does.
LEMMA ConvertedHasSameEffect ==
  ASSUME NEW key \in Fields, NEW value
  PROVE  SameEffect(key, Converted(key, value), value)
<1>1. CASE key \in BoolKeys
  <2>1. Converted(key, value) = IF value \in True THEN <<"true">> ELSE <<"false">>
    BY <1>1 DEF Converted, BoolKeys, HookKeys
  <2>2. <<"true">> # <<"false">>
    OBVIOUS
  <2>3. Converted(key, value) = <<"true">> <=> value \in True
    <3> HIDE DEF True
    <3> QED BY <2>1, <2>2
  <2> QED BY <1>1, <2>3 DEF SameEffect, BoolKeys, HookKeys
<1>2. CASE key = "weekly_wday"
  BY <1>2 DEF SameEffect, Converted, BoolKeys, HookKeys
<1>3. CASE key = "script_timeout"
  BY <1>3 DEF SameEffect, Converted, BoolKeys, HookKeys
<1>4. CASE key \in HookKeys
  <2>1. key \notin BoolKeys /\ key # "weekly_wday" /\ key # "script_timeout"
    BY <1>4 DEF BoolKeys, HookKeys
  <2>2. CASE value = <<>>
    BY <1>4, <2>1, <2>2 DEF SameEffect, Converted
  <2>3. CASE value # <<>>
    BY <1>4, <2>1, <2>3 DEF SameEffect, Converted
  <2> QED BY <2>2, <2>3
<1>5. CASE key \notin BoolKeys \cup HookKeys \cup {"weekly_wday", "script_timeout"}
  BY <1>5 DEF SameEffect, Converted
<1> QED BY <1>1, <1>2, <1>3, <1>4, <1>5

\* What the base template sets is what the defaults say.
LEMMA BaseValues ==
  ASSUME Converts, NEW f \in Fields
  PROVE  /\ f \in DOMAIN BasePolicy
              <=> \/ Says(source.main, TemplateDefault, f) # {}
                  \/ Says(source.defaults, TemplateDefault, f) # {}
                  \/ f \in DOMAIN StandardDefaults
         /\ f \in DOMAIN BasePolicy =>
              BasePolicy[f]
                = IF Says(source.main, TemplateDefault, f) # {}
                  THEN Converted(f, Said(source.main, TemplateDefault, f))
                  ELSE IF Says(source.defaults, TemplateDefault, f) # {}
                  THEN Converted(f, Said(source.defaults, TemplateDefault, f))
                  ELSE StandardDefaults[f]
<1> DEFINE mine == Section(MainSections, TemplateDefault)
           other == Section(OtherSections, TemplateDefault)
           standard == [g \in Fields \cap DOMAIN StandardDefaults |-> StandardDefaults[g]]
<1>1. /\ f \in DOMAIN mine <=> Says(source.main, TemplateDefault, f) # {}
      /\ f \in DOMAIN mine => mine[f] = Said(source.main, TemplateDefault, f)
  BY LinesRead
<1>2. /\ f \in DOMAIN other <=> Says(source.defaults, TemplateDefault, f) # {}
      /\ f \in DOMAIN other => other[f] = Said(source.defaults, TemplateDefault, f)
  BY OtherLinesRead
<1>3. BasePolicy = Over(Patch(mine), Over(Patch(other), standard))
  BY DEF BasePolicy
<1>4. \A section : /\ f \in DOMAIN Patch(section) <=> f \in DOMAIN section
                   /\ f \in DOMAIN section => Patch(section)[f] = Converted(f, section[f])
  BY DEF Patch
<1>5. /\ f \in DOMAIN standard <=> f \in DOMAIN StandardDefaults
      /\ f \in DOMAIN standard => standard[f] = StandardDefaults[f]
  OBVIOUS
<1> HIDE DEF mine, other, standard
<1>6. \A p, q : /\ f \in DOMAIN Over(p, q) <=> f \in DOMAIN p \/ f \in DOMAIN q
                /\ f \in DOMAIN p \/ f \in DOMAIN q =>
                     Over(p, q)[f] = IF f \in DOMAIN p THEN p[f] ELSE q[f]
  BY DEF Over
<1> QED BY <1>1, <1>2, <1>3, <1>4, <1>5, <1>6

\* A section of Sanoid's that reaches a dataset, as the resolution sees it.
LEMMA ReachingWithin ==
  ASSUME Converts, ~Mistaken, IInv, NEW d \in inventory, NEW name \in SanoidReaching(d)
  PROVE  /\ name \in SanoidSections /\ Path(name) \in Reaching(d)
         /\ IsName(d) /\ IsName(Path(name)) /\ Within(d, Path(name))
         /\ Len(Path(name)) \in Nat
<1>1. name \in SanoidSections /\ Path(name) \in Reaching(d)
  BY ReachesTheSame DEF SanoidReaching
<1>2. IsName(d) /\ IsName(Path(name)) /\ Within(d, Path(name))
  BY <1>1, SectionsRead, TargetsWithin DEF IInv, SanoidReaching, Within
<1> QED BY <1>1, <1>2, NamesAreSequences

\* Of the sections that reach a dataset the farthest has the defaults.
LEMMA FarthestHasDefaults ==
  ASSUME Converts, ~Mistaken, IInv, NEW d \in inventory, SanoidReaching(d) # {}
  PROVE  \E name \in SanoidReaching(d) : ~Inherits(MainSections, name)
<1> DEFINE lengths == {Len(Path(name)) : name \in SanoidReaching(d)}
<1>1. lengths \subseteq Nat /\ lengths # {}
  BY ReachingWithin
<1>2. PICK n \in lengths : \A l \in lengths : n <= l
  <2> HIDE DEF lengths
  <2> QED BY <1>1, Least
<1>3. PICK name \in SanoidReaching(d) :
        \A other \in SanoidReaching(d) : Len(Path(name)) <= Len(Path(other))
  BY <1>2
<1>4. ASSUME NEW s \in SanoidSections, Recurses(s), Below(Path(name), Path(s)) PROVE FALSE
  <2>1. IsName(d) /\ IsName(Path(name)) /\ IsName(Path(s)) /\ Within(d, Path(name))
    BY ReachingWithin, SectionsRead
  <2>2. Below(d, Path(s))
    BY <1>4, <2>1, BelowAll
  <2>3. s \in SanoidReaching(d)
    BY <1>4, <2>2 DEF SanoidReaching
  <2>4. Len(Path(s)) < Len(Path(name)) /\ Len(Path(name)) <= Len(Path(s))
    BY <1>3, <1>4, <2>1, <2>3, BelowIsLonger
  <2>5. Len(Path(s)) \in Nat /\ Len(Path(name)) \in Nat
    BY <2>1, NamesAreSequences
  <2> QED BY <2>4, <2>5
<1>5. name \in SanoidSections
  BY ReachingWithin
<1> QED BY <1>4, <1>5, InheritanceRead

\* A section beneath one that says something starts with what that one says:
\* the defaults do not come between them.
LEMMA NoDefaultsBetween ==
  ASSUME Converts, ~Mistaken, IInv, NEW d \in inventory,
         NEW above \in SanoidReaching(d), NEW name \in SanoidReaching(d), above # name,
         Len(Path(above)) <= Len(Path(name))
  PROVE  Inherits(MainSections, name)
<1>1. /\ above \in SanoidSections /\ name \in SanoidSections
      /\ IsName(d) /\ IsName(Path(above)) /\ IsName(Path(name))
      /\ Within(d, Path(above)) /\ Within(d, Path(name))
  BY ReachingWithin
<1>2. Path(above) # Path(name)
  BY <1>1, SectionsWritten
<1>3. Below(Path(name), Path(above))
  BY <1>1, <1>2, OneBranch DEF Within
<1>4. Below(d, Path(above)) /\ d # Path(above)
  <2>1. Below(d, Path(above))
    BY <1>1, <1>3, BelowAll
  <2> QED BY <2>1, <1>1, BelowIsLonger
<1>5. Recurses(above)
  BY <1>4 DEF SanoidReaching
<1> QED BY <1>1, <1>3, <1>5, InheritanceRead

\* Every setting of every managed dataset has the effect it has with Sanoid.
LEMMA SettingsMeanTheSame ==
  ASSUME Converts, ~Mistaken, IInv, Done, NEW d \in DOMAIN resolved, NEW key \in Fields
  PROVE  MeansTheSame(d, key)
<1> DEFINE value == resolved[d].policy[key]
           saying == {name \in SanoidReaching(d) : Saying(name, key) # {}}
           byDefault ==
             IF Says(source.main, TemplateDefault, key) # {}
             THEN SameEffect(key, value, Said(source.main, TemplateDefault, key))
             ELSE IF Says(source.defaults, TemplateDefault, key) # {}
             THEN SameEffect(key, value, Said(source.defaults, TemplateDefault, key))
             ELSE value = IF key \in DOMAIN StandardDefaults THEN StandardDefaults[key] ELSE <<>>
<1>1. d \in inventory /\ Setters(d, key) = {s \in Reaching(d) : Setting(s, key) # {}}
      /\ SanoidReaching(d) # {}
  <2>1. d \in inventory /\ ReachedBy(d) # {}
    BY DEF IInv, Managed
  <2>2. ReachedBy(d) = Reaching(d)
    BY <2>1, AllTaken
  <2>3. SanoidReaching(d) # {}
    BY <2>1, <2>2, ReachesTheSame
  <2> QED BY <2>1, <2>2, <2>3 DEF Setters
<1>2. PolicyOf(d, key)
  BY DEF IInv, Policies
<1>3. \A name \in SanoidReaching(d) : name \in SanoidSections /\ Path(name) \in Reaching(d)
  BY <1>1, ReachingWithin
<1>4. CASE saying # {}
  <2>1. PICK other \in saying : TRUE
    BY <1>4
  <2>2. Path(other) \in Setters(d, key)
    BY <1>1, <1>3, <2>1, SectionValues
  <2>3. PICK s \in Sections : Nearest(s, Setters(d, key)) /\ value = Value(s, key)
    BY <1>2, <2>2 DEF PolicyOf
  <2>4. s \in Reaching(d) /\ Setting(s, key) # {}
    BY <1>1, <2>3 DEF Nearest
  <2>5. PICK nearest \in SanoidReaching(d) : s = Path(nearest)
    BY <2>4, ReachesTheSame
  <2>6. \A name \in saying : Len(Path(name)) <= Len(Path(nearest))
    <3> SUFFICES ASSUME NEW name \in saying PROVE Len(Path(name)) <= Len(Path(nearest))
      OBVIOUS
    <3>1. Path(name) \in Setters(d, key)
      BY <1>1, <1>3, SectionValues
    <3> QED BY <2>3, <2>5, <3>1 DEF Nearest
  <2>7. Saying(nearest, key) # {}
    <3> SUFFICES ASSUME Saying(nearest, key) = {} PROVE FALSE
      OBVIOUS
    <3>1. ~Inherits(MainSections, nearest)
      BY <1>3, <2>4, <2>5, SectionValues
    <3>2. other # nearest /\ Len(Path(other)) <= Len(Path(nearest)) /\ other \in SanoidReaching(d)
      BY <2>1, <2>6
    <3> QED BY <1>1, <2>5, <3>1, <3>2, NoDefaultsBetween
  <2>8. value = Converted(key, Said(source.main, Strongest(nearest, key), key))
    BY <1>3, <2>3, <2>5, <2>7, SectionValues
  <2>9. SameEffect(key, value, Said(source.main, Strongest(nearest, key), key))
    <3> HIDE DEF value
    <3> QED BY <2>8, ConvertedHasSameEffect
  <2> QED BY <1>4, <2>5, <2>6, <2>7, <2>9 DEF MeansTheSame
<1>5. CASE saying = {}
  <2>1. CASE key \in DOMAIN BasePolicy
    <3>1. Setters(d, key) # {}
      <4>1. PICK name \in SanoidReaching(d) : ~Inherits(MainSections, name)
        BY <1>1, FarthestHasDefaults
      <4>2. Setting(Path(name), key) # {}
        BY <1>3, <1>5, <2>1, <4>1, SectionValues
      <4> QED BY <1>1, <1>3, <4>2
    <3>2. PICK s \in Sections : Nearest(s, Setters(d, key)) /\ value = Value(s, key)
      BY <1>2, <3>1 DEF PolicyOf
    <3>3. s \in Reaching(d) /\ Setting(s, key) # {}
      BY <1>1, <3>2 DEF Nearest
    <3>4. PICK name \in SanoidReaching(d) : s = Path(name)
      BY <3>3, ReachesTheSame
    <3>5. value = BasePolicy[key]
      BY <1>3, <1>5, <3>2, <3>3, <3>4, SectionValues
    <3>6. byDefault
      <4> HIDE DEF value
      <4> QED BY <2>1, <3>5, BaseValues, ConvertedHasSameEffect
    <3> QED BY <1>5, <3>6 DEF MeansTheSame
  <2>2. CASE key \notin DOMAIN BasePolicy
    <3>1. Setters(d, key) = {}
      <4> SUFFICES ASSUME NEW s \in Setters(d, key) PROVE FALSE
        OBVIOUS
      <4>1. s \in Reaching(d) /\ Setting(s, key) # {}
        BY <1>1
      <4>2. PICK name \in SanoidReaching(d) : s = Path(name)
        BY <4>1, ReachesTheSame
      <4> QED BY <1>3, <1>5, <2>2, <4>1, <4>2, SectionValues
    <3>2. value = DefaultPolicy[key]
      BY <1>2, <3>1 DEF PolicyOf, Nearest
    <3>3. key \notin DOMAIN StandardDefaults /\ DefaultPolicy[key] = <<>>
      BY <2>2, BaseValues, MigrationAssumption
    <3>4. byDefault
      <4> HIDE DEF value
      <4> QED BY <2>2, <3>2, <3>3, BaseValues
    <3> QED BY <1>5, <3>4 DEF MeansTheSame
  <2> QED BY <2>1, <2>2
<1> QED BY <1>4, <1>5

\* A file that was converted and resolved means the same to zsnap.
LEMMA ConvertedMeansTheSame ==
  ASSUME Converts, ~Mistaken, IInv, Done
  PROVE  /\ DOMAIN resolved = {d \in inventory : SanoidReaching(d) # {}}
         /\ \A d \in DOMAIN resolved, key \in Fields : MeansTheSame(d, key)
<1>1. DOMAIN resolved = {d \in inventory : Reaching(d) # {}}
  BY IInvNearest DEF NearestSectionWins
<1>2. DOMAIN resolved = {d \in inventory : SanoidReaching(d) # {}}
  BY <1>1, ReachesTheSame
<1> QED BY <1>2, SettingsMeanTheSame

\* What is written is where the loop can start.
LEMMA WrittenStarts == Converts /\ ~Mistaken => Parsed(config)
BY WrittenParsed

\* The rest of the inductive invariant: nothing is resolved before a file has
\* been converted, and what is resolved then is what became of the file.
MigrationIInv ==
  /\ source \in Sources /\ inventory \in Inventories
  /\ outcome = "pending" => resolved = <<>> /\ failed = FALSE
  /\ outcome # "converted" => todo = {}
  /\ outcome = "converted" => Converts /\ (~Mistaken => IInv)

\* The lines determine what they mean.
LEMMA SameLines ==
  ASSUME source' = source
  PROVE  /\ MainSections' = MainSections /\ OtherSections' = OtherSections
         /\ Mistaken' <=> Mistaken
<1>1. MainSections' = MainSections /\ OtherSections' = OtherSections
  BY DEF MainSections, OtherSections
<1>2. SanoidSections' = SanoidSections
  BY DEF SanoidSections
<1>3. ASSUME NEW name PROVE Path(name)' = Path(name) /\ Layers(name)' = Layers(name)
  BY DEF Path, Layers
<1> QED BY <1>1, <1>2, <1>3 DEF Mistaken

LEMMA ConvertKeepsIInv == MigrationIInv /\ Convert => MigrationIInv'
<1> SUFFICES ASSUME MigrationIInv, Convert PROVE MigrationIInv'
  OBVIOUS
<1> DEFINE main == Parse(source.main)
           defaults == Parse(source.defaults)
           written == Output(main.sections, defaults.sections)
           refused == \/ ~main.ok \/ ~defaults.ok
                      \/ SectionsRefused(main.sections, defaults.sections)
                      \/ ChildrenOnlyRefused(main.sections) \/ AtomicRefused(main.sections)
<1>1. /\ outcome = "pending" /\ UNCHANGED <<source, inventory, resolved, failed>>
      /\ resolved = <<>> /\ failed = FALSE /\ todo = {}
  BY DEF Convert, MigrationIInv
<1>2. CASE refused \/ ~Readable(written, main.sections) \/ ~Valid(written)
  <2>1. outcome' \in {"refused", "invalid"} /\ UNCHANGED todo
    BY <1>2 DEF Convert
  <2> QED BY <1>1, <2>1 DEF MigrationIInv
<1>3. CASE ~refused /\ Readable(written, main.sections) /\ Valid(written)
  <2>1. /\ outcome' = "converted" /\ config' = written /\ todo' = DOMAIN written.datasets
    BY <1>3 DEF Convert
  <2>2. Converts'
    <3>1. MainSections' = main.sections /\ OtherSections' = defaults.sections
      BY <1>1 DEF MainSections, OtherSections
    <3>2. Parse(source.main)' = main /\ Parse(source.defaults)' = defaults
      BY <1>1
    <3> HIDE DEF main, defaults
    <3> QED BY <1>1, <1>3, <2>1, <3>1, <3>2 DEF Converts, MigrationIInv
  <2>3. ASSUME (~Mistaken)' PROVE IInv'
    <3>1. Parsed(config)'
      BY <2>2, <2>3, WrittenStarts, PTL
    <3>2. Given' /\ (todo = Sections)' /\ (resolved = <<>>)'
      <4> HIDE DEF written
      <4> QED BY <1>1, <1>3, <2>1, <3>1 DEF Given, Sections, MigrationIInv
    <3> QED BY <3>2, StartIInv, PTL
  <2> QED BY <1>1, <2>1, <2>2, <2>3 DEF MigrationIInv
<1> QED BY <1>2, <1>3

\* However a Sanoid file is written, a conversion that is not refused loses and
\* adds nothing: what resolve_datasets makes of the generated configuration is
\* what the lines mean, MigrationKeepsMeaning.
THEOREM ConversionKeepsMeaning == MigrationSpec => []MigrationKeepsMeaning
<1>1. MigrationInit => MigrationIInv
  BY DEF MigrationInit, MigrationIInv
<1>2. MigrationIInv /\ [MigrationNext]_<<resolveVars, migrationVars>> => MigrationIInv'
  <2> SUFFICES ASSUME MigrationIInv, [MigrationNext]_<<resolveVars, migrationVars>>
               PROVE  MigrationIInv'
    OBVIOUS
  <2>1. CASE Convert
    BY <2>1, ConvertKeepsIInv
  <2>2. CASE [ResolveNext]_resolveVars /\ UNCHANGED migrationVars
    <3>1. UNCHANGED <<source, outcome>> /\ UNCHANGED <<config, inventory>>
      BY <2>2 DEF migrationVars, resolveVars, ResolveNext, ResolveSection, ResolveTargets,
                  FailSection
    <3>2. CASE outcome = "converted"
      <4>1. Converts' <=> Converts
        BY <3>1, SameLines DEF Converts
      <4>2. (~Mistaken)' => IInv'
        BY <2>2, <3>1, <3>2, SameLines, NextIInv DEF MigrationIInv
      <4> QED BY <3>1, <3>2, <4>1, <4>2 DEF MigrationIInv
    <3>3. CASE outcome # "converted"
      <4>1. UNCHANGED <<todo, resolved, failed>>
        BY <2>2, <3>3 DEF MigrationIInv, ResolveNext, resolveVars
      <4> QED BY <3>1, <3>3, <4>1 DEF MigrationIInv
    <3> QED BY <3>2, <3>3
  <2> QED BY <2>1, <2>2 DEF MigrationNext, resolveVars, migrationVars
<1>3. MigrationIInv => MigrationKeepsMeaning
  BY ConvertedMeansTheSame DEF MigrationIInv, MigrationKeepsMeaning
<1> QED BY <1>1, <1>2, <1>3, PTL DEF MigrationSpec

=============================================================================

---------------------------- MODULE Merge_proofs ----------------------------
(***************************************************************************)
(* What the merges of Merge do, for every map, slice, container, volume    *)
(* and list of constraints: they keep the shape of what they merge, and    *)
(* merging the same override a second time, with the operator's own part   *)
(* merged in between, changes nothing.                                     *)
(***************************************************************************)
EXTENDS Merge, FiniteSetTheorems, WellFoundedInduction, TLAPS

USE Zenon

-----------------------------------------------------------------------------
(* Merging maps *)

\* Nothing is a map and a slice.
LEMMA EmptyTyped ==
  /\ DOMAIN Empty = {} /\ IsMap(Empty) /\ AreMaps(Empty) /\ IsSlice(Empty)
BY SMT DEF Empty, IsMap, AreMaps, IsSlice, Range

\* A merged map is a map.
LEMMA MapTyped ==
  ASSUME NEW a, NEW b
  PROVE  /\ IsMap(StringToStringMap(a, b))
         /\ DOMAIN StringToStringMap(a, b) = DOMAIN a \cup DOMAIN b
BY DEF StringToStringMap, IsMap

\* Two maps with the same entries are the same.
LEMMA MapEqual ==
  ASSUME NEW a, NEW b, IsMap(a), IsMap(b), DOMAIN a = DOMAIN b,
         \A k \in DOMAIN a : a[k] = b[k]
  PROVE  a = b
BY DEF IsMap

\* Merging the same map again, or nothing, changes nothing.
LEMMA MapAgain ==
  ASSUME NEW a, IsMap(a), NEW b
  PROVE  /\ StringToStringMap(a, Empty) = a
         /\ StringToStringMap(Empty, a) = a
         /\ StringToStringMap(a, a) = a
         /\ StringToStringMap(StringToStringMap(a, b), b) = StringToStringMap(a, b)
<1>1. DOMAIN Empty = {}
  BY EmptyTyped
<1>2. StringToStringMap(a, Empty) = a
  BY <1>1 DEF StringToStringMap, IsMap
<1>3. StringToStringMap(Empty, a) = a
  BY <1>1 DEF StringToStringMap, IsMap
<1>4. StringToStringMap(a, a) = a
  BY <1>1 DEF StringToStringMap, IsMap
<1>5. StringToStringMap(StringToStringMap(a, b), b) = StringToStringMap(a, b)
  BY DEF StringToStringMap
<1>6. QED
  BY <1>2, <1>3, <1>4, <1>5

\* The operator's entries and the override over what they gave before.
LEMMA MapTwice ==
  ASSUME NEW x, NEW p, NEW o
  PROVE  LET first == Fields(Fields(x, p), o)
         IN  Fields(Fields(first, p), o) = first
BY DEF StringToStringMap, Fields

-----------------------------------------------------------------------------
(* Merging slices of strings.  The fold over a sequence is a recursive        *)
(* function on sets of positions; that the equation it is defined by has a    *)
(* solution, and what the solution holds, go by least counterexample on the   *)
(* number of words.                                                           *)

\* One word: what StringSlices folds.
Joined(merged, s) == IF s \in Range(merged) THEN merged ELSE Append(merged, s)

\* The equation of the fold over the positions in S.
IsFold(g, a, b, S) ==
  g = [s \in SUBSET S |-> IF s = {} THEN a ELSE Joined(g[s \ {Max(s)}], b[Max(s)])]

\* StringSlices is the value of a solution.
LEMMA SlicesFold ==
  ASSUME NEW a, NEW b
  PROVE  StringSlices(a, b) = (CHOOSE g : IsFold(g, a, b, DOMAIN b))[DOMAIN b]
BY DEF StringSlices, MapThenFoldSet, IsFold, Joined

\* The largest of some positions up to n, when n is one of them.
LEMMA MaxIs ==
  ASSUME NEW n \in Nat, NEW s \in SUBSET (1..n), n \in s
  PROVE  Max(s) = n
<1>1. \A y \in s : n >= y
  BY SMT
<1>2. \A x \in s : (\A y \in s : x >= y) => x = n
  BY SMT
<1>3. QED
  BY <1>1, <1>2 DEF Max

\* A set of numbers that is not empty has a least element.
LEMMA Least ==
  ASSUME NEW bad \in SUBSET Nat, bad # {}
  PROVE  \E n \in bad : \A m \in bad : ~(m < n)
<1>1. IsWellFoundedOn(OpToRel(<, Nat), Nat)
  BY NatLessThanWellFounded
<1>2. PICK n \in bad : \A m \in bad : <<m, n>> \notin OpToRel(<, Nat)
  BY <1>1, WFMin
<1>3. QED
  BY <1>2 DEF OpToRel

\* The equation has a solution over the first n positions.
LEMMA FoldExists ==
  ASSUME NEW a, NEW b, NEW n \in Nat
  PROVE  \E g : IsFold(g, a, b, 1..n)
<1> DEFINE bad == {i \in Nat : ~\E g : IsFold(g, a, b, 1..i)}
<1> SUFFICES ASSUME bad # {} PROVE FALSE
  OBVIOUS
<1>1. PICK i \in bad : \A j \in bad : ~(j < i)
  <2>1. bad \in SUBSET Nat
    OBVIOUS
  <2> HIDE DEF bad
  <2>2. QED
    BY <2>1, Least
<1>2. i # 0
  <2> DEFINE g == [s \in SUBSET (1..0) |-> a]
  <2>1. \A s \in SUBSET (1..0) : s = {}
    BY SMT
  <2>2. IsFold(g, a, b, 1..0)
    BY <2>1 DEF IsFold
  <2>3. QED
    BY <2>2
<1>3. i - 1 \in Nat /\ i - 1 \notin bad
  BY SMT, <1>1, <1>2
<1>4. PICK g : IsFold(g, a, b, 1..(i - 1))
  BY <1>3
<1> DEFINE h == [s \in SUBSET (1..i) |-> IF i \in s THEN Joined(g[s \ {i}], b[i]) ELSE g[s]]
           Step(s) == IF s = {} THEN a ELSE Joined(h[s \ {Max(s)}], b[Max(s)])
<1>5. ASSUME NEW s \in SUBSET (1..i) PROVE h[s] = Step(s)
  <2>1. CASE i \in s
    <3>1. Max(s) = i
      BY <2>1, MaxIs
    <3>2. s \ {i} \in SUBSET (1..i) /\ h[s \ {i}] = g[s \ {i}]
      OBVIOUS
    <3>3. QED
      BY <2>1, <3>1, <3>2
  <2>2. CASE i \notin s
    <3> DEFINE max == Max(s)
    <3> HIDE DEF max
    <3>0. s \in SUBSET (1..(i - 1))
      BY SMT, <1>3, <2>2
    <3>1. s \in SUBSET (1..(i - 1)) /\ s \ {max} \in SUBSET (1..i) /\ i \notin s \ {max}
      BY <2>2, <3>0
    <3>2. h[s] = g[s] /\ h[s \ {max}] = g[s \ {max}]
      BY <2>2, <3>1
    <3>3. g[s] = IF s = {} THEN a ELSE Joined(g[s \ {max}], b[max])
      BY <1>4, <3>1 DEF IsFold, max
    <3>4. QED
      BY <3>2, <3>3 DEF max
  <2>3. QED
    BY <2>1, <2>2
<1>6. h = [s \in SUBSET (1..i) |-> h[s]]
  OBVIOUS
<1>7. IsFold(h, a, b, 1..i)
  <2> HIDE DEF h
  <2>1. QED
    BY <1>5, <1>6 DEF IsFold
<1>8. QED
  BY <1>7

\* The positions of a slice.
LEMMA SliceDomain ==
  ASSUME NEW s, IsSlice(s)
  PROVE  Len(s) \in Nat /\ DOMAIN s = 1..Len(s) /\ IsMap(s)
BY SMT DEF IsSlice, IsMap, Range

\* The words merged one by one.
LEMMA SlicesSteps ==
  ASSUME NEW a, NEW b, IsSlice(b)
  PROVE  \E r : /\ r[0] = a
                /\ \A n \in 1..Len(b) : r[n] = Joined(r[n - 1], b[n])
                /\ r[Len(b)] = StringSlices(a, b)
<1>1. Len(b) \in Nat /\ DOMAIN b = 1..Len(b)
  BY SliceDomain
<1> DEFINE g == CHOOSE f : IsFold(f, a, b, DOMAIN b)
<1>2. IsFold(g, a, b, 1..Len(b)) /\ StringSlices(a, b) = g[1..Len(b)]
  BY <1>1, FoldExists, SlicesFold
<1> HIDE DEF g
<1> DEFINE r == [n \in 0..Len(b) |-> g[1..n]]
<1>3. r[0] = a /\ r[Len(b)] = StringSlices(a, b)
  <2>1. 1..0 = {} /\ {} \in SUBSET (1..Len(b))
    BY SMT
  <2>2. g[{}] = a
    BY <1>2, <2>1 DEF IsFold
  <2>3. QED
    BY SMT, <1>1, <1>2, <2>1, <2>2
<1>4. ASSUME NEW n \in 1..Len(b) PROVE r[n] = Joined(r[n - 1], b[n])
  <2>0. n \in Nat /\ n >= 1 /\ n <= Len(b)
    BY SMT, <1>1
  <2>1. n \in Nat /\ 1..n \in SUBSET (1..Len(b)) /\ n \in 1..n /\ 1..n # {}
    <3>1. n \in 1..n
      BY SMT, <2>0
    <3>2. \A j \in 1..n : j \in 1..Len(b)
      BY SMT, <1>1, <2>0
    <3>3. QED
      BY <2>0, <3>1, <3>2
  <2>2. Max(1..n) = n /\ (1..n) \ {n} = 1..(n - 1)
    <3>1. Max(1..n) = n
      BY <2>1, MaxIs
    <3>2. QED
      BY SMT, <1>1, <3>1
  <2>3. g[1..n] = Joined(g[(1..n) \ {Max(1..n)}], b[Max(1..n)])
    BY <1>2, <2>1 DEF IsFold
  <2>4. n - 1 \in 0..Len(b) /\ n \in 0..Len(b)
    BY SMT, <1>1
  <2>5. QED
    BY <2>2, <2>3, <2>4
<1>5. QED
  BY <1>3, <1>4

\* One more word.
LEMMA AppendWord ==
  ASSUME NEW s, IsSlice(s), NEW w
  PROVE  IsSlice(Append(s, w)) /\ Range(Append(s, w)) = Range(s) \cup {w}
<1> DEFINE S == Range(s) \cup {w}
           t == Append(s, w)
<1>1. Len(s) \in Nat /\ s \in Seq(S) /\ w \in S
  BY SMT DEF IsSlice, Range
<1>2. /\ t \in Seq(S) /\ Len(t) = Len(s) + 1
      /\ \A i \in 1..Len(s) : t[i] = s[i]
      /\ t[Len(s) + 1] = w
  BY SMT, <1>1
<1>3. DOMAIN s = 1..Len(s) /\ DOMAIN t = 1..(Len(s) + 1)
  BY SMT, <1>1, <1>2
<1> HIDE DEF t, S
<1>4. \A x : x \in Range(t) <=> x \in Range(s) \/ x = w
  <2>1. ASSUME NEW x \in Range(t) PROVE x \in Range(s) \/ x = w
    <3>1. PICK i \in 1..(Len(s) + 1) : x = t[i]
      BY <1>3 DEF Range
    <3>2. CASE i \in 1..Len(s)
      BY <1>2, <1>3, <3>1, <3>2 DEF Range
    <3>3. CASE i = Len(s) + 1
      BY <1>2, <3>1, <3>3
    <3>4. QED
      BY SMT, <1>1, <3>2, <3>3
  <2>2. ASSUME NEW x \in Range(s) PROVE x \in Range(t)
    <3>1. PICK i \in 1..Len(s) : x = s[i]
      BY <1>3 DEF Range
    <3>2. i \in DOMAIN t /\ t[i] = x
      BY SMT, <1>1, <1>2, <1>3, <3>1
    <3>3. QED
      BY <3>2 DEF Range
  <2>3. w \in Range(t)
    BY SMT, <1>1, <1>2, <1>3 DEF Range
  <2>4. QED
    BY <2>1, <2>2, <2>3
<1>5. Range(t) = S
  BY <1>4 DEF S
<1>6. QED
  BY <1>2, <1>5 DEF IsSlice, S, t

\* Merging slices yields a slice with the words of both.
LEMMA SlicesWords ==
  ASSUME NEW a, NEW b, IsSlice(a), IsSlice(b)
  PROVE  /\ IsSlice(StringSlices(a, b))
         /\ Range(StringSlices(a, b)) = Range(a) \cup Range(b)
<1>1. PICK r : /\ r[0] = a
               /\ \A n \in 1..Len(b) : r[n] = Joined(r[n - 1], b[n])
               /\ r[Len(b)] = StringSlices(a, b)
  BY SlicesSteps
<1>2. Len(b) \in Nat /\ DOMAIN b = 1..Len(b)
  BY SliceDomain
<1> DEFINE Good(n) == IsSlice(r[n]) /\ Range(r[n]) = Range(a) \cup {b[j] : j \in 1..n}
           bad == {n \in 0..Len(b) : ~Good(n)}
<1>3. bad = {}
  <2> SUFFICES ASSUME bad # {} PROVE FALSE
    OBVIOUS
  <2>1. PICK n \in bad : \A m \in bad : ~(m < n)
    <3>1. bad \in SUBSET Nat
      BY SMT, <1>2
    <3> HIDE DEF bad
    <3>2. QED
      BY <3>1, Least
  <2>2. n \in 0..Len(b) /\ ~Good(n)
    OBVIOUS
  <2>3. n # 0
    BY SMT, <1>1, <2>2
  <2>4. n \in 1..Len(b) /\ n - 1 \in 0..Len(b) /\ Good(n - 1)
    BY SMT, <1>2, <2>1, <2>2, <2>3
  <2> DEFINE q == r[n - 1]
             w == b[n]
  <2>5. r[n] = Joined(q, w)
    BY <1>1, <2>4
  <2>6. {b[j] : j \in 1..n} = {b[j] : j \in 1..(n - 1)} \cup {w}
    BY SMT, <2>4
  <2>7. IsSlice(q) /\ Range(q) = Range(a) \cup {b[j] : j \in 1..(n - 1)}
    BY <2>4
  <2> HIDE DEF q, w
  <2>8. CASE w \in Range(q)
    BY <2>2, <2>5, <2>6, <2>7, <2>8 DEF Joined
  <2>9. CASE w \notin Range(q)
    <3>1. r[n] = Append(q, w)
      BY <2>5, <2>9 DEF Joined
    <3>2. IsSlice(Append(q, w)) /\ Range(Append(q, w)) = Range(q) \cup {w}
      BY <2>7, AppendWord
    <3>3. QED
      BY <2>2, <2>6, <2>7, <3>1, <3>2
  <2>10. QED
    BY <2>8, <2>9
<1>4. Good(Len(b))
  <2> HIDE DEF Good
  <2>1. Len(b) \in 0..Len(b)
    BY SMT, <1>2
  <2>2. QED
    BY <1>3, <2>1
<1>5. {b[j] : j \in 1..Len(b)} = Range(b)
  BY <1>2 DEF Range
<1>6. QED
  BY <1>1, <1>4, <1>5

\* Merging words that are all there changes nothing.
LEMMA SlicesAbsorb ==
  ASSUME NEW a, NEW b, IsSlice(a), IsSlice(b), Range(b) \subseteq Range(a)
  PROVE  StringSlices(a, b) = a
<1>1. PICK r : /\ r[0] = a
               /\ \A n \in 1..Len(b) : r[n] = Joined(r[n - 1], b[n])
               /\ r[Len(b)] = StringSlices(a, b)
  BY SlicesSteps
<1>2. Len(b) \in Nat /\ DOMAIN b = 1..Len(b)
  BY SliceDomain
<1> DEFINE bad == {n \in 0..Len(b) : r[n] # a}
<1>3. bad = {}
  <2> SUFFICES ASSUME bad # {} PROVE FALSE
    OBVIOUS
  <2>1. PICK n \in bad : \A m \in bad : ~(m < n)
    <3>1. bad \in SUBSET Nat
      BY SMT, <1>2
    <3> HIDE DEF bad
    <3>2. QED
      BY <3>1, Least
  <2>2. n \in 0..Len(b) /\ r[n] # a /\ n # 0
    BY <1>1
  <2>3. n \in 1..Len(b) /\ r[n - 1] = a
    BY SMT, <1>2, <2>1, <2>2
  <2>4. b[n] \in Range(a)
    <3>1. b[n] \in Range(b)
      BY <1>2, <2>3 DEF Range
    <3>2. QED
      BY <3>1
  <2>5. QED
    BY <1>1, <2>2, <2>3, <2>4 DEF Joined
<1>4. QED
  BY SMT, <1>1, <1>2, <1>3

\* Merging a slice with itself, and merging the same slice again.
LEMMA SlicesAgain ==
  ASSUME NEW a, NEW b, IsSlice(a), IsSlice(b)
  PROVE  /\ StringSlices(a, a) = a
         /\ StringSlices(StringSlices(a, b), b) = StringSlices(a, b)
<1>1. StringSlices(a, a) = a
  BY SlicesAbsorb
<1>2. IsSlice(StringSlices(a, b)) /\ Range(b) \subseteq Range(StringSlices(a, b))
  BY SlicesWords
<1>3. StringSlices(StringSlices(a, b), b) = StringSlices(a, b)
  BY <1>2, SlicesAbsorb
<1>4. QED
  BY <1>1, <1>3

-----------------------------------------------------------------------------
(* Merging by key *)

\* The merges whose entries are merged field by field are one and the same.
LEMMA SameMerge ==
  ASSUME NEW x, NEW o
  PROVE  /\ ContainerPortSlicesByName(x, o) = VolumeMounts(x, o)
         /\ VolumeDevices(x, o) = VolumeMounts(x, o)
         /\ mergeKeyToPathItems(x, o) = VolumeMounts(x, o)
BY DEF ContainerPortSlicesByName, VolumeDevices, mergeKeyToPathItems, VolumeMounts, ByKey,
       ContainerPorts, mergeKeyToPath, VolumeMount

\* Merged entries are maps.
LEMMA EntriesTyped ==
  ASSUME NEW x, AreMaps(x), NEW o, AreMaps(o)
  PROVE  AreMaps(VolumeMounts(x, o)) /\ AreMaps(StringToStringMap(x, o))
BY ZenonT(30) DEF VolumeMounts, ByKey, VolumeMount, Fields, StringToStringMap, AreMaps, IsMap

\* Merging the same entries again, over the operator's or not.
LEMMA EntriesTwice ==
  ASSUME NEW x, NEW p, NEW o, AreMaps(o)
  PROVE  VolumeMounts(StringToStringMap(VolumeMounts(StringToStringMap(x, p), o), p), o)
           = VolumeMounts(StringToStringMap(x, p), o)
<1>1. \A k \in DOMAIN o : \A v :
         /\ VolumeMount(VolumeMount(v, o[k]), o[k]) = VolumeMount(v, o[k])
         /\ VolumeMount(o[k], o[k]) = o[k]
  BY ZenonT(30) DEF VolumeMount, Fields, StringToStringMap, AreMaps, IsMap
<1>2. QED
  BY <1>1 DEF VolumeMounts, ByKey, StringToStringMap

\* Merging the same entries by key again changes nothing.
LEMMA EntriesAgain ==
  ASSUME NEW x, NEW o, AreMaps(o)
  PROVE  VolumeMounts(VolumeMounts(x, o), o) = VolumeMounts(x, o)
<1>1. \A k \in DOMAIN o : \A v :
         /\ VolumeMount(VolumeMount(v, o[k]), o[k]) = VolumeMount(v, o[k])
         /\ VolumeMount(o[k], o[k]) = o[k]
  BY ZenonT(30) DEF VolumeMount, Fields, StringToStringMap, AreMaps, IsMap
<1>2. QED
  BY <1>1 DEF VolumeMounts, ByKey

\* Merging entries with themselves.
LEMMA EntriesSelf ==
  ASSUME NEW o, AreMaps(o)
  PROVE  VolumeMounts(o, o) = o
BY DEF VolumeMounts, ByKey, VolumeMount, Fields, StringToStringMap, AreMaps, IsMap

\* Each variable has a value or a source, not both.
OneSource(env) == \A k \in DOMAIN env : DOMAIN env[k] # {"value", "valueFrom"}

\* One variable: merging the same override again, or a variable with itself.
LEMMA EnvAgain ==
  ASSUME NEW v, NEW o, IsMap(o), DOMAIN o \subseteq {"value", "valueFrom"},
         DOMAIN o # {"value", "valueFrom"}
  PROVE  /\ mergeSingleEnv(mergeSingleEnv(v, o), o) = mergeSingleEnv(v, o)
         /\ mergeSingleEnv(o, o) = o
<1>1. CASE "valueFrom" \in DOMAIN o
  <2>1. DOMAIN o = {"valueFrom"}
    BY <1>1
  <2>2. o = [valueFrom |-> o.valueFrom]
    BY <2>1 DEF IsMap
  <2>3. QED
    BY <1>1, <2>2 DEF mergeSingleEnv
<1>2. CASE "valueFrom" \notin DOMAIN o /\ "value" \in DOMAIN o
  <2>1. DOMAIN o = {"value"}
    BY <1>2
  <2>2. o = [value |-> o.value]
    BY <2>1 DEF IsMap
  <2>3. QED
    BY <1>2, <2>2 DEF mergeSingleEnv
<1>3. CASE "valueFrom" \notin DOMAIN o /\ "value" \notin DOMAIN o
  BY <1>3 DEF mergeSingleEnv
<1>4. QED
  BY <1>1, <1>2, <1>3

\* A merged variable.
LEMMA EnvMerged ==
  ASSUME NEW v, IsMap(v), DOMAIN v \subseteq {"value", "valueFrom"}, NEW o
  PROVE  /\ IsMap(mergeSingleEnv(v, o))
         /\ DOMAIN mergeSingleEnv(v, o) \subseteq {"value", "valueFrom"}
         /\ DOMAIN v # {"value", "valueFrom"} =>
              DOMAIN mergeSingleEnv(v, o) # {"value", "valueFrom"}
BY SMT DEF mergeSingleEnv, IsMap

\* The variables of a container.
LEMMA EnvsTyped ==
  ASSUME NEW x, EnvTyped(x), NEW o, EnvTyped(o)
  PROVE  /\ EnvTyped(Envs(x, o)) /\ EnvTyped(StringToStringMap(x, o))
         /\ OneSource(x) /\ OneSource(o) =>
              OneSource(Envs(x, o)) /\ OneSource(StringToStringMap(x, o))
<1>1. DOMAIN Envs(x, o) = DOMAIN x \cup DOMAIN o /\ IsMap(Envs(x, o))
  BY DEF Envs, ByKey, IsMap
<1>2. \A k \in DOMAIN x \cup DOMAIN o :
        \/ k \in DOMAIN x /\ Envs(x, o)[k] = x[k]
        \/ k \in DOMAIN o /\ Envs(x, o)[k] = o[k]
        \/ k \in DOMAIN x /\ Envs(x, o)[k] = mergeSingleEnv(x[k], o[k])
  BY DEF Envs, ByKey
<1>3. EnvTyped(StringToStringMap(x, o)) /\ (OneSource(x) /\ OneSource(o) => OneSource(StringToStringMap(x, o)))
  BY DEF StringToStringMap, EnvTyped, AreMaps, IsMap, OneSource
<1>4. EnvTyped(Envs(x, o)) /\ (OneSource(x) /\ OneSource(o) => OneSource(Envs(x, o)))
  <2>1. ASSUME NEW k \in DOMAIN x \cup DOMAIN o
        PROVE  /\ IsMap(Envs(x, o)[k]) /\ DOMAIN Envs(x, o)[k] \subseteq {"value", "valueFrom"}
               /\ OneSource(x) /\ OneSource(o) => DOMAIN Envs(x, o)[k] # {"value", "valueFrom"}
    <3>1. CASE k \in DOMAIN x /\ Envs(x, o)[k] = x[k]
      BY <3>1 DEF EnvTyped, AreMaps, OneSource
    <3>2. CASE k \in DOMAIN o /\ Envs(x, o)[k] = o[k]
      BY <3>2 DEF EnvTyped, AreMaps, OneSource
    <3>3. CASE k \in DOMAIN x /\ Envs(x, o)[k] = mergeSingleEnv(x[k], o[k])
      BY <3>3, EnvMerged DEF EnvTyped, AreMaps, OneSource
    <3>4. QED
      BY <1>2, <3>1, <3>2, <3>3
  <2>2. QED
    BY <1>1, <2>1 DEF EnvTyped, AreMaps, OneSource
<1>5. QED
  BY <1>3, <1>4

\* Merging the same variables again changes nothing, where none of them has two sources.
LEMMA EnvsTwice ==
  ASSUME NEW x, NEW p, NEW o, EnvTyped(o), OneSource(o)
  PROVE  /\ LET first == Envs(StringToStringMap(x, p), o)
            IN  Envs(StringToStringMap(first, p), o) = first
         /\ Envs(o, o) = o
<1>1. \A k \in DOMAIN o : \A v :
         /\ mergeSingleEnv(mergeSingleEnv(v, o[k]), o[k]) = mergeSingleEnv(v, o[k])
         /\ mergeSingleEnv(o[k], o[k]) = o[k]
  BY EnvAgain DEF EnvTyped, AreMaps, OneSource
<1>2. IsMap(o)
  BY DEF EnvTyped, AreMaps
<1>3. Envs(o, o) = o
  BY <1>1, <1>2 DEF Envs, ByKey, IsMap
<1>4. LET first == Envs(StringToStringMap(x, p), o)
      IN  Envs(StringToStringMap(first, p), o) = first
  BY <1>1 DEF Envs, ByKey, StringToStringMap
<1>5. QED
  BY <1>3, <1>4

-----------------------------------------------------------------------------
(* One container *)

\* What the operator does to a container: entries it adds to four parts, and the
\* parts it sets as a whole.
Overlaid(c, p) ==
  [fields    |-> Fields(c.fields, p.fields),
   command   |-> IF "command" \in DOMAIN p.own THEN p.own.command ELSE c.command,
   args      |-> c.args,
   ports     |-> c.ports,
   env       |-> StringToStringMap(c.env, p.env),
   resources |-> IF "resources" \in DOMAIN p.own THEN p.own.resources ELSE c.resources,
   mounts    |-> StringToStringMap(c.mounts, p.mounts),
   devices   |-> c.devices,
   liveness  |-> c.liveness,
   readiness |-> Fields(c.readiness, p.readiness),
   startup   |-> c.startup,
   lifecycle |-> c.lifecycle,
   security  |-> IF "security" \in DOMAIN p.own THEN p.own.security ELSE c.security]

\* Nothing, to a container the operator does not know.
NoPlan == [fields |-> Empty, env |-> Empty, mounts |-> Empty, readiness |-> Empty, own |-> Empty]

PlanTyped(p) ==
  /\ EnvTyped(p.env) /\ AreMaps(p.mounts)
  /\ "command" \in DOMAIN p.own => IsSlice(p.own.command)
  /\ "resources" \in DOMAIN p.own => IsMap(p.own.resources)
  /\ "security" \in DOMAIN p.own => IsMap(p.own.security)

\* The parts of a container determine it.
LEMMA ContainerIs ==
  ASSUME NEW c, IsMap(c), DOMAIN c = DOMAIN EmptyContainer,
         NEW d, IsMap(d), DOMAIN d = DOMAIN EmptyContainer,
         c.fields = d.fields, c.command = d.command, c.args = d.args, c.ports = d.ports,
         c.env = d.env, c.resources = d.resources, c.mounts = d.mounts,
         c.devices = d.devices, c.liveness = d.liveness, c.readiness = d.readiness,
         c.startup = d.startup, c.lifecycle = d.lifecycle, c.security = d.security
  PROVE  c = d
BY DEF IsMap, EmptyContainer

\* Types are kept.
LEMMA OverlaidTyped ==
  ASSUME NEW c, ContainerTyped(c), NEW p, PlanTyped(p)
  PROVE  ContainerTyped(Overlaid(c, p))
<1> DEFINE d == Overlaid(c, p)
<1>1. DOMAIN d = DOMAIN EmptyContainer /\ IsMap(d)
  BY SMT DEF Overlaid, EmptyContainer, IsMap
<1>2. IsMap(d.fields) /\ IsMap(d.readiness)
  BY DEF Overlaid, Fields, StringToStringMap, IsMap
<1>3. EnvTyped(d.env)
  BY EnvsTyped DEF Overlaid, ContainerTyped, PlanTyped
<1>4. AreMaps(d.mounts)
  BY EntriesTyped DEF Overlaid, ContainerTyped, PlanTyped
<1>5. IsSlice(d.command) /\ IsMap(d.resources) /\ IsMap(d.security)
  BY DEF Overlaid, ContainerTyped, PlanTyped
<1>6. QED
  BY <1>1, <1>2, <1>3, <1>4, <1>5 DEF ContainerTyped, Overlaid

\* Merging a container with a well-formed override keeps it well-formed.
LEMMA MergedTyped ==
  ASSUME NEW c, ContainerTyped(c), NEW o, ContainerTyped(o)
  PROVE  ContainerTyped(Container(c, o))
<1>0. PICK d : d = Container(c, o)
  OBVIOUS
<1>1. DOMAIN d = DOMAIN EmptyContainer /\ IsMap(d)
  BY <1>0 DEF Container, EmptyContainer, IsMap
<1>2. /\ IsMap(d.fields) /\ IsMap(d.resources) /\ IsMap(d.security) /\ IsMap(d.lifecycle)
      /\ IsMap(d.liveness) /\ IsMap(d.readiness) /\ IsMap(d.startup)
  BY <1>0 DEF Container, Fields, ResourceRequirements, Probe, LifeCycle, SecurityContext,
         StringToStringMap, IsMap
<1>3. EnvTyped(d.env)
  BY <1>0, EnvsTyped DEF Container, ContainerTyped
<1>4. AreMaps(d.mounts) /\ AreMaps(d.ports) /\ AreMaps(d.devices)
  BY SMT, <1>0, EntriesTyped, SameMerge DEF Container, ContainerTyped
<1>5. IsSlice(d.command) /\ IsSlice(d.args)
  BY <1>0, SlicesWords DEF Container, ContainerTyped
<1>6. QED
  BY <1>0, <1>1, <1>2, <1>3, <1>4, <1>5 DEF ContainerTyped

\* No plan, no change.
LEMMA OverlaidNothing ==
  ASSUME NEW c, ContainerTyped(c)
  PROVE  PlanTyped(NoPlan) /\ Overlaid(c, NoPlan) = c
<1>1. PlanTyped(NoPlan)
  BY EmptyTyped DEF PlanTyped, NoPlan, EnvTyped
<1>2. ContainerTyped(Overlaid(c, NoPlan))
  BY <1>1, OverlaidTyped
<1>3. /\ StringToStringMap(c.fields, Empty) = c.fields
      /\ StringToStringMap(c.env, Empty) = c.env
      /\ StringToStringMap(c.mounts, Empty) = c.mounts
      /\ StringToStringMap(c.readiness, Empty) = c.readiness
  BY MapAgain DEF ContainerTyped, EnvTyped, AreMaps
<1>4. QED
  BY ZenonT(30), <1>1, <1>2, <1>3, EmptyTyped, ContainerIs DEF Overlaid, NoPlan, Fields, ContainerTyped

\* Overlaying the same plan again.
LEMMA OverlaidTwice ==
  ASSUME NEW c, NEW p
  PROVE  Overlaid(Overlaid(c, p), p) = Overlaid(c, p)
<1>1. \A x, y : StringToStringMap(StringToStringMap(x, y), y) = StringToStringMap(x, y)
  BY DEF StringToStringMap
<1>2. QED
  BY SMT, <1>1 DEF Overlaid, Fields

\* Merging the same override over the same plan again.
LEMMA ContainerTwice ==
  ASSUME NEW c, ContainerTyped(c), NEW p, PlanTyped(p),
         NEW o, ContainerTyped(o), OneSource(o.env),
         NEW d, d = Overlaid(c, p), NEW first, first = Container(d, o),
         NEW again, again = Overlaid(first, p)
  PROVE  Container(again, o) = first
<1>1. /\ d.fields = Fields(c.fields, p.fields) /\ d.readiness = Fields(c.readiness, p.readiness)
      /\ d.env = StringToStringMap(c.env, p.env) /\ d.mounts = StringToStringMap(c.mounts, p.mounts)
      /\ again.fields = Fields(first.fields, p.fields)
      /\ again.readiness = Fields(first.readiness, p.readiness)
      /\ again.env = StringToStringMap(first.env, p.env)
      /\ again.mounts = StringToStringMap(first.mounts, p.mounts)
      /\ again.args = first.args /\ again.ports = first.ports /\ again.devices = first.devices
      /\ again.liveness = first.liveness /\ again.startup = first.startup
      /\ again.lifecycle = first.lifecycle
      /\ again.command \in {d.command, first.command}
      /\ again.resources \in {d.resources, first.resources}
      /\ again.security \in {d.security, first.security}
  BY ZenonT(30) DEF Overlaid
<1>2. /\ first.fields = Fields(d.fields, o.fields)
      /\ first.readiness = Fields(d.readiness, o.readiness)
      /\ first.liveness = Fields(d.liveness, o.liveness)
      /\ first.startup = Fields(d.startup, o.startup)
      /\ first.lifecycle = Fields(d.lifecycle, o.lifecycle)
      /\ first.resources = Fields(d.resources, o.resources)
      /\ first.security = Fields(d.security, o.security)
      /\ first.command = StringSlices(d.command, o.command)
      /\ first.args = StringSlices(d.args, o.args)
      /\ first.env = Envs(d.env, o.env)
      /\ first.mounts = VolumeMounts(d.mounts, o.mounts)
      /\ first.ports = ContainerPortSlicesByName(d.ports, o.ports)
      /\ first.devices = VolumeDevices(d.devices, o.devices)
  BY DEF Container, Probe, LifeCycle, ResourceRequirements, SecurityContext
<1>3. /\ IsSlice(d.command) /\ IsSlice(d.args) /\ IsSlice(o.command) /\ IsSlice(o.args)
      /\ AreMaps(o.mounts) /\ AreMaps(o.ports) /\ AreMaps(o.devices) /\ EnvTyped(o.env)
  BY OverlaidTyped DEF ContainerTyped
<1>4. /\ Fields(again.fields, o.fields) = first.fields
      /\ Fields(again.readiness, o.readiness) = first.readiness
  BY SMT, <1>1, <1>2, MapTwice
<1>5. \A x, z : Fields(Fields(x, z), z) = Fields(x, z)
  BY DEF Fields, StringToStringMap
<1>6. /\ Fields(again.liveness, o.liveness) = first.liveness
      /\ Fields(again.startup, o.startup) = first.startup
      /\ Fields(again.lifecycle, o.lifecycle) = first.lifecycle
      /\ Fields(again.resources, o.resources) = first.resources
      /\ Fields(again.security, o.security) = first.security
  <2>1. ASSUME NEW f \in {"liveness", "startup", "lifecycle", "resources", "security"}
        PROVE  /\ again[f] \in {d[f], first[f]} /\ first[f] = Fields(d[f], o[f])
    BY <1>1, <1>2
  <2>2. ASSUME NEW f \in {"liveness", "startup", "lifecycle", "resources", "security"}
        PROVE  Fields(again[f], o[f]) = first[f]
    BY SMT, <1>5, <2>1
  <2>3. QED
    BY <2>2
<1>7. /\ StringSlices(again.command, o.command) = first.command
      /\ StringSlices(again.args, o.args) = first.args
  BY SMT, <1>1, <1>2, <1>3, SlicesAgain
<1>8. Envs(again.env, o.env) = first.env
  BY SMT, <1>1, <1>2, <1>3, EnvsTwice
<1>9. VolumeMounts(again.mounts, o.mounts) = first.mounts
  BY SMT, <1>1, <1>2, <1>3, EntriesTwice
<1>10. /\ ContainerPortSlicesByName(again.ports, o.ports) = first.ports
       /\ VolumeDevices(again.devices, o.devices) = first.devices
  BY SMT, <1>1, <1>2, <1>3, EntriesAgain, SameMerge
<1>11. PICK r : r = [fields |-> first.fields, command |-> first.command, args |-> first.args,
                     ports |-> first.ports, env |-> first.env, resources |-> first.resources,
                     mounts |-> first.mounts, devices |-> first.devices,
                     liveness |-> first.liveness, readiness |-> first.readiness,
                     startup |-> first.startup, lifecycle |-> first.lifecycle,
                     security |-> first.security]
  OBVIOUS
<1>12. Container(d, o) = Container(again, o)
  <2>1. Container(d, o) = r
    BY <1>2, <1>11 DEF Container, Probe, LifeCycle, ResourceRequirements, SecurityContext
  <2>2. Container(again, o) = r
    BY <1>4, <1>6, <1>7, <1>8, <1>9, <1>10, <1>11
    DEF Container, Probe, LifeCycle, ResourceRequirements, SecurityContext
  <2>3. QED
    BY <2>1, <2>2
<1>13. QED
  BY <1>12

\* A container merged with itself.
LEMMA ContainerSelf ==
  ASSUME NEW o, ContainerTyped(o), OneSource(o.env)
  PROVE  Container(o, o) = o
<1>0. PICK d : d = Container(o, o)
  OBVIOUS
<1>1. ContainerTyped(d)
  BY <1>0, MergedTyped
<1>2. /\ d.fields = o.fields /\ d.resources = o.resources /\ d.security = o.security
      /\ d.lifecycle = o.lifecycle /\ d.liveness = o.liveness
      /\ d.readiness = o.readiness /\ d.startup = o.startup
  BY ZenonT(30), <1>0, MapAgain DEF Container, Fields, ResourceRequirements, Probe, LifeCycle,
                  SecurityContext, ContainerTyped
<1>3. d.command = o.command /\ d.args = o.args
  BY <1>0, SlicesAgain DEF Container, ContainerTyped
<1>4. d.mounts = o.mounts /\ d.ports = o.ports /\ d.devices = o.devices
  BY <1>0, EntriesSelf, SameMerge DEF Container, ContainerTyped
<1>5. d.env = o.env
  BY ZenonT(30), <1>0, EnvsTwice DEF Container, ContainerTyped
<1>6. d = o
  BY <1>1, <1>2, <1>3, <1>4, <1>5, ContainerIs DEF ContainerTyped
<1>7. QED
  BY <1>0, <1>6

-----------------------------------------------------------------------------
(* The containers of a template *)

PlansTyped(plan) == \A k \in DOMAIN plan : PlanTyped(plan[k])

OneSources(cs) == \A k \in DOMAIN cs : OneSource(cs[k].env)

\* The empty container is well-formed.
LEMMA EmptyContainerTyped == ContainerTyped(EmptyContainer)
<1>1. DOMAIN Empty = {} /\ IsMap(Empty) /\ AreMaps(Empty) /\ IsSlice(Empty) /\ EnvTyped(Empty)
  BY EmptyTyped DEF EnvTyped
<1>2. IsMap(EmptyContainer)
  BY DEF EmptyContainer, IsMap
<1>3. QED
  BY <1>1, <1>2 DEF ContainerTyped, EmptyContainer

-----------------------------------------------------------------------------
(* The other parts of a template *)

VolumeTyped(v) ==
  /\ IsMap(v) /\ DOMAIN v = {"kind", "fields", "items"}
  /\ IsMap(v.fields) /\ AreMaps(v.items)

\* One volume.
LEMMA VolumeAgain ==
  ASSUME NEW v, VolumeTyped(v), NEW o, VolumeTyped(o), NEW first, first = Volume(v, o)
  PROVE  VolumeTyped(first) /\ Volume(first, o) = first /\ Volume(o, o) = o
<1> DEFINE R == Restrict(o.fields, DOMAIN o.fields \cap MergedSourceFields[o.kind])
<1>1. ASSUME NEW y, VolumeTyped(y), y.kind = o.kind, o.kind \in DOMAIN MergedSourceFields
      PROVE  /\ Volume(y, o).kind = o.kind
             /\ Volume(y, o).fields = Fields(y.fields, R)
             /\ Volume(y, o).items = VolumeMounts(y.items, o.items)
             /\ DOMAIN Volume(y, o) = {"kind", "fields", "items"} /\ IsMap(Volume(y, o))
  <2>1. DOMAIN y = {"kind", "fields", "items"}
    BY <1>1 DEF VolumeTyped
  <2>2. PICK items : items = mergeKeyToPathItems(y.items, o.items)
    OBVIOUS
  <2>3. Volume(y, o) = [y EXCEPT !.fields = Fields(y.fields, R), !.items = items]
    BY <1>1, <2>1, <2>2 DEF Volume
  <2>4. items = VolumeMounts(y.items, o.items)
    BY <2>2, SameMerge
  <2> HIDE DEF R
  <2>5. QED
    BY <1>1, <2>1, <2>3, <2>4 DEF IsMap
<1>2. ASSUME NEW y, y.kind # o.kind \/ o.kind \notin DOMAIN MergedSourceFields
      PROVE  Volume(y, o) = o
  BY <1>2 DEF Volume
<1>3. ASSUME NEW y, VolumeTyped(y) PROVE VolumeTyped(Volume(y, o))
  <2>1. CASE y.kind = o.kind /\ o.kind \in DOMAIN MergedSourceFields
    <3>1. IsMap(Fields(y.fields, R)) /\ AreMaps(VolumeMounts(y.items, o.items))
      BY <1>3, MapTyped, EntriesTyped DEF VolumeTyped, Fields
    <3>2. QED
      BY <1>1, <1>3, <2>1, <3>1 DEF VolumeTyped
  <2>2. QED
    BY <1>2, <2>1
<1>4. Fields(o.fields, R) = o.fields /\ (\A x : Fields(Fields(x, R), R) = Fields(x, R))
  BY SMT DEF VolumeTyped, Fields, StringToStringMap, Restrict, IsMap
<1>5. /\ VolumeMounts(o.items, o.items) = o.items
      /\ \A x : VolumeMounts(VolumeMounts(x, o.items), o.items) = VolumeMounts(x, o.items)
  BY EntriesSelf, EntriesAgain DEF VolumeTyped
<1> HIDE DEF R
<1>6. \A y, z : /\ VolumeTyped(y) /\ VolumeTyped(z)
                /\ y.kind = z.kind /\ y.fields = z.fields /\ y.items = z.items
                => y = z
  BY SMT DEF VolumeTyped, IsMap
<1>7. Volume(o, o) = o
  <2>1. CASE o.kind \in DOMAIN MergedSourceFields
    BY <1>1, <1>3, <1>4, <1>5, <1>6, <2>1
  <2>2. QED
    BY <1>2, <2>1
<1>8. Volume(first, o) = first
  <2>1. CASE v.kind = o.kind /\ o.kind \in DOMAIN MergedSourceFields
    <3>1. /\ first.kind = o.kind /\ first.fields = Fields(v.fields, R)
          /\ first.items = VolumeMounts(v.items, o.items) /\ VolumeTyped(first)
      BY <1>1, <1>3, <2>1
    <3>2. /\ Volume(first, o).kind = o.kind /\ Volume(first, o).fields = Fields(first.fields, R)
          /\ Volume(first, o).items = VolumeMounts(first.items, o.items)
          /\ VolumeTyped(Volume(first, o))
      BY <1>1, <1>3, <2>1, <3>1
    <3>3. /\ Volume(first, o).fields = first.fields /\ Volume(first, o).items = first.items
      BY <1>4, <1>5, <3>1, <3>2
    <3>4. QED
      BY <1>6, <3>1, <3>2, <3>3
  <2>2. CASE ~(v.kind = o.kind /\ o.kind \in DOMAIN MergedSourceFields)
    BY <1>2, <1>7, <2>2
  <2>3. QED
    BY <2>1, <2>2
<1>9. QED
  BY <1>3, <1>7, <1>8

\* The volumes: those of the operator are added where there is none of the name.
LEMMA VolumesTwice ==
  ASSUME NEW vs, VolumesTyped(vs), NEW p, VolumesTyped(p), NEW o, VolumesTyped(o),
         NEW first, first = Volumes(StringToStringMap(p, vs), o)
  PROVE  VolumesTyped(first) /\ Volumes(StringToStringMap(p, first), o) = first
<1> DEFINE D == DOMAIN vs \cup DOMAIN p
<1>1. PICK y : y = StringToStringMap(p, vs)
  OBVIOUS
<1>2. DOMAIN y = D /\ \A k \in D : VolumeTyped(y[k])
  BY <1>1 DEF StringToStringMap, VolumesTyped, VolumeTyped
<1>3. \A k \in DOMAIN o : VolumeTyped(o[k])
  BY DEF VolumesTyped, VolumeTyped
<1>4. /\ DOMAIN first = D \cup DOMAIN o /\ IsMap(first)
      /\ \A k \in D \cup DOMAIN o :
           first[k] = IF k \notin DOMAIN o THEN y[k]
                      ELSE IF k \notin D THEN o[k] ELSE Volume(y[k], o[k])
  BY <1>1, <1>2 DEF Volumes, ByKey, IsMap
<1>5. StringToStringMap(p, first) = first
  BY <1>4 DEF StringToStringMap, IsMap
<1>6. PICK again : again = Volumes(first, o)
  OBVIOUS
<1>7. /\ DOMAIN again = D \cup DOMAIN o /\ IsMap(again)
      /\ \A k \in D \cup DOMAIN o :
           again[k] = IF k \notin DOMAIN o THEN first[k] ELSE Volume(first[k], o[k])
  BY <1>4, <1>6 DEF Volumes, ByKey, IsMap
<1>8. ASSUME NEW k \in D \cup DOMAIN o PROVE VolumeTyped(first[k]) /\ again[k] = first[k]
  <2>1. CASE k \notin DOMAIN o
    BY <1>2, <1>4, <1>7, <2>1
  <2>2. CASE k \in DOMAIN o /\ k \notin D
    BY SMT, <1>3, <1>4, <1>7, <2>2, VolumeAgain
  <2>3. CASE k \in DOMAIN o /\ k \in D
    BY SMT, <1>2, <1>3, <1>4, <1>7, <2>3, VolumeAgain
  <2>4. QED
    BY <2>1, <2>2, <2>3
<1>9. again = first
  BY <1>4, <1>7, <1>8, MapEqual
<1>10. VolumesTyped(first)
  BY <1>4, <1>8 DEF VolumesTyped, VolumeTyped
<1>11. QED
  BY <1>5, <1>6, <1>9, <1>10

AliasesTyped(x) == IsMap(x) /\ \A k \in DOMAIN x : IsSlice(x[k])

\* The host aliases.
LEMMA AliasesTwice ==
  ASSUME NEW x, AliasesTyped(x), NEW o, AliasesTyped(o), NEW first, first = HostAliases(x, o)
  PROVE  AliasesTyped(first) /\ HostAliases(first, o) = first
<1> DEFINE D == DOMAIN x
<1>1. /\ DOMAIN first = D \cup DOMAIN o /\ IsMap(first)
      /\ \A k \in D \cup DOMAIN o :
           first[k] = IF k \notin DOMAIN o THEN x[k]
                      ELSE IF k \notin D THEN o[k] ELSE StringSlices(x[k], o[k])
  BY DEF HostAliases, ByKey, IsMap
<1>2. PICK again : again = HostAliases(first, o)
  OBVIOUS
<1>3. /\ DOMAIN again = D \cup DOMAIN o /\ IsMap(again)
      /\ \A k \in D \cup DOMAIN o :
           again[k] = IF k \notin DOMAIN o THEN first[k] ELSE StringSlices(first[k], o[k])
  BY <1>1, <1>2 DEF HostAliases, ByKey, IsMap
<1>4. ASSUME NEW k \in D \cup DOMAIN o PROVE IsSlice(first[k]) /\ again[k] = first[k]
  <2>1. CASE k \notin DOMAIN o
    BY <1>1, <1>3, <2>1 DEF AliasesTyped
  <2>2. CASE k \in DOMAIN o /\ k \notin D
    BY SMT, <1>1, <1>3, <2>2, SlicesAgain DEF AliasesTyped
  <2>3. CASE k \in DOMAIN o /\ k \in D
    BY SMT, <1>1, <1>3, <2>3, SlicesAgain, SlicesWords DEF AliasesTyped
  <2>4. QED
    BY <2>1, <2>2, <2>3
<1>5. again = first
  BY <1>1, <1>3, <1>4, MapEqual
<1>6. QED
  BY <1>1, <1>2, <1>4, <1>5 DEF AliasesTyped

\* The DNS settings.
LEMMA DNSTwice ==
  ASSUME NEW x, DNSTyped(x), NEW o, DNSTyped(o), NEW first, first = PodDNSConfig(x, o)
  PROVE  DNSTyped(first) /\ PodDNSConfig(first, o) = first
<1> DEFINE merged == [fields      |-> Fields(x.fields, o.fields),
                      nameservers |-> StringSlices(x.nameservers, o.nameservers),
                      searches    |-> StringSlices(x.searches, o.searches)]
<1>1. \A y : DNSTyped(y) => y = [fields |-> y.fields, nameservers |-> y.nameservers,
                                 searches |-> y.searches]
  BY SMT DEF DNSTyped, IsMap, NoDNSConfig
<1>2. PodDNSConfig(o, o) = o
  <2>1. /\ Fields(o.fields, o.fields) = o.fields
        /\ StringSlices(o.nameservers, o.nameservers) = o.nameservers
        /\ StringSlices(o.searches, o.searches) = o.searches
    BY MapAgain, SlicesAgain DEF DNSTyped, Fields
  <2>2. QED
    BY <1>1, <2>1 DEF PodDNSConfig
<1>3. CASE first = o
  BY <1>2, <1>3
<1>4. CASE first = merged
  <2>1. DNSTyped(merged)
    <3>1. IsMap(merged.fields) /\ IsSlice(merged.nameservers) /\ IsSlice(merged.searches)
      BY MapTyped, SlicesWords DEF DNSTyped, Fields
    <3>2. QED
      BY <3>1 DEF DNSTyped, NoDNSConfig, IsMap
  <2>2. /\ Fields(Fields(x.fields, o.fields), o.fields) = Fields(x.fields, o.fields)
        /\ StringSlices(StringSlices(x.nameservers, o.nameservers), o.nameservers)
             = StringSlices(x.nameservers, o.nameservers)
        /\ StringSlices(StringSlices(x.searches, o.searches), o.searches)
             = StringSlices(x.searches, o.searches)
    BY SlicesAgain, MapAgain DEF DNSTyped, Fields
  <2>3. CASE merged # NoDNSConfig
    BY SMT, <1>4, <2>1, <2>2, <2>3 DEF PodDNSConfig
  <2>4. CASE merged = NoDNSConfig
    <3>1. /\ DOMAIN o.fields = {} /\ Range(o.nameservers) = {} /\ Range(o.searches) = {}
      <4>1. /\ DOMAIN Fields(x.fields, o.fields) = {}
            /\ Range(StringSlices(x.nameservers, o.nameservers)) = {}
            /\ Range(StringSlices(x.searches, o.searches)) = {}
        BY <2>4, EmptyTyped DEF NoDNSConfig, Range
      <4>2. DOMAIN Fields(x.fields, o.fields) = DOMAIN x.fields \cup DOMAIN o.fields
        BY MapTyped DEF Fields
      <4>3. /\ Range(StringSlices(x.nameservers, o.nameservers))
                 = Range(x.nameservers) \cup Range(o.nameservers)
            /\ Range(StringSlices(x.searches, o.searches))
                 = Range(x.searches) \cup Range(o.searches)
        BY SlicesWords DEF DNSTyped
      <4>4. QED
        BY <4>1, <4>2, <4>3
    <3>2. o.fields = Empty /\ o.nameservers = Empty /\ o.searches = Empty
      <4>1. DOMAIN o.nameservers = {} /\ DOMAIN o.searches = {}
        BY <3>1 DEF Range
      <4>2. IsMap(o.nameservers) /\ IsMap(o.searches) /\ IsMap(o.fields)
        BY SliceDomain DEF DNSTyped
      <4>3. QED
        BY <3>1, <4>1, <4>2, EmptyTyped, MapEqual
    <3>3. o = NoDNSConfig
      BY <1>1, <3>2 DEF NoDNSConfig
    <3>4. QED
      BY <1>2, <1>4, <2>1, <2>4, <3>3
  <2>5. QED
    BY <2>3, <2>4
<1>5. QED
  BY <1>3, <1>4 DEF PodDNSConfig

-----------------------------------------------------------------------------
(* The topology spread constraints *)

\* The largest of some positions is one of them.
LEMMA MaxIn ==
  ASSUME NEW n \in Nat, NEW I \in SUBSET (1..n), I # {}
  PROVE  Max(I) \in I
<1> DEFINE bad == {n - i : i \in I}
<1>1. bad \in SUBSET Nat /\ bad # {}
  <2>1. \A i \in I : n - i \in Nat
    BY SMT
  <2>2. QED
    BY <2>1
<1>2. PICK d \in bad : \A m \in bad : ~(m < d)
  BY <1>1, Least
<1>3. PICK i \in I : d = n - i
  BY <1>2
<1>4. \A j \in I : i >= j
  <2>1. \A j \in I : ~(n - j < n - i)
    BY <1>2, <1>3
  <2>2. QED
    BY SMT, <2>1
<1>5. QED
  BY <1>4 DEF Max

\* What map the code makes of the constraints.
LEMMA TopologyMap ==
  ASSUME NEW x, TopologyTyped(x), NEW m, m = createTopologySpreadConstraintMap(x)
  PROVE  /\ AreMaps(m) /\ IsFiniteSet(DOMAIN m)
         /\ DOMAIN m = {c.key : c \in Range(x)}
         /\ \A k \in DOMAIN m : \E c \in Range(x) : c.key = k /\ m[k] = c.fields
<1>1. Len(x) \in Nat /\ DOMAIN x = 1..Len(x) /\ IsSlice(x)
  BY SliceDomain DEF TopologyTyped
<1>2. DOMAIN m = {c.key : c \in Range(x)} /\ IsMap(m)
  BY DEF createTopologySpreadConstraintMap, IsMap
<1>3. ASSUME NEW k \in DOMAIN m PROVE \E c \in Range(x) : c.key = k /\ m[k] = c.fields
  <2> DEFINE I == {i \in DOMAIN x : x[i].key = k}
  <2>1. m[k] = x[Max(I)].fields
    BY <1>2, <1>3 DEF createTopologySpreadConstraintMap
  <2>2. I # {} /\ I \in SUBSET (1..Len(x))
    BY <1>1, <1>2, <1>3 DEF Range
  <2> HIDE DEF I
  <2>3. Max(I) \in I
    BY <1>1, <2>2, MaxIn
  <2>4. Max(I) \in DOMAIN x /\ x[Max(I)].key = k /\ m[k] = x[Max(I)].fields
    BY <1>1, <2>1, <2>2, <2>3 DEF I
  <2>5. QED
    BY <2>4 DEF Range
<1>4. AreMaps(m)
  BY <1>2, <1>3 DEF AreMaps, TopologyTyped
<1>5. IsFiniteSet(DOMAIN m)
  <2> DEFINE f == [i \in 1..Len(x) |-> x[i].key]
  <2>1. f \in Surjection(1..Len(x), DOMAIN m)
    BY SMT, <1>1, <1>2 DEF Surjection, Range
  <2>2. IsFiniteSet(1..Len(x))
    BY SMT, <1>1, FS_Interval
  <2>3. QED
    BY <2>1, <2>2, FS_Surjection
<1>6. QED
  BY <1>2, <1>3, <1>4, <1>5

\* The orders a set may be listed in.
OrdersOf(S) == Bijection(1 .. Cardinality(S), S)

\* The orders of a finite set: there is one, and each is a slice of its elements.
LEMMA Orders ==
  ASSUME NEW S, IsFiniteSet(S)
  PROVE  /\ OrdersOf(S) # {}
         /\ \A r \in OrdersOf(S) : IsSlice(r) /\ Range(r) = S
<1>1. Cardinality(S) \in Nat /\ OrdersOf(S) # {}
  BY FS_CardinalityType DEF OrdersOf, ExistsBijection
<1>2. ASSUME NEW r \in OrdersOf(S) PROVE IsSlice(r) /\ Range(r) = S
  <2>1. r \in [1 .. Cardinality(S) -> S] /\ Range(r) = S
    BY DEF OrdersOf, Bijection, Injection, Surjection, Range
  <2>2. QED
    BY SMT, <1>1, <2>1 DEF IsSlice
<1>3. QED
  BY <1>1, <1>2

\* The constraints that a map stands for.
Constraints(m) == {[key |-> k, fields |-> m[k]] : k \in DOMAIN m}

\* In any order they make the same map again.
LEMMA MapOfOrder ==
  ASSUME NEW m, AreMaps(m), NEW r, IsSlice(r), Range(r) = Constraints(m)
  PROVE  TopologyTyped(r) /\ createTopologySpreadConstraintMap(r) = m
<1>1. \A c \in Range(r) : /\ IsMap(c) /\ DOMAIN c = {"key", "fields"}
                          /\ c.key \in DOMAIN m /\ c.fields = m[c.key]
  BY SMT DEF Constraints, IsMap
<1>2. TopologyTyped(r)
  BY <1>1 DEF TopologyTyped, AreMaps
<1>3. PICK n : n = createTopologySpreadConstraintMap(r)
  OBVIOUS
<1>4. /\ AreMaps(n) /\ DOMAIN n = {c.key : c \in Range(r)}
      /\ \A k \in DOMAIN n : \E c \in Range(r) : c.key = k /\ n[k] = c.fields
  BY SMT, <1>2, <1>3, TopologyMap
<1>5. {c.key : c \in Range(r)} = DOMAIN m
  <2>1. ASSUME NEW k \in DOMAIN m PROVE \E c \in Range(r) : c.key = k
    <3>1. [key |-> k, fields |-> m[k]] \in Range(r)
      BY DEF Constraints
    <3>2. [key |-> k, fields |-> m[k]].key = k
      OBVIOUS
    <3>3. QED
      BY <3>1, <3>2
  <2>2. QED
    BY <1>1, <2>1
<1>6. \A k \in DOMAIN n : n[k] = m[k]
  BY SMT, <1>1, <1>4
<1>7. n = m
  BY <1>4, <1>5, <1>6, MapEqual DEF AreMaps
<1>8. QED
  BY <1>2, <1>3, <1>7

\* What the merge returns.
LEMMA TopologyMerged ==
  ASSUME NEW x, TopologyTyped(x), NEW o, TopologyTyped(o), NEW m,
         m = VolumeMounts(createTopologySpreadConstraintMap(x),
                          createTopologySpreadConstraintMap(o))
  PROVE  /\ o = Empty => TopologySpreadConstraints(x, o) = {x}
         /\ o # Empty => TopologySpreadConstraints(x, o) = OrdersOf(Constraints(m))
         /\ AreMaps(m) /\ IsFiniteSet(Constraints(m))
         /\ TopologySpreadConstraints(x, o) # {}
<1>1. PICK a, b : /\ a = createTopologySpreadConstraintMap(x)
                  /\ b = createTopologySpreadConstraintMap(o)
  OBVIOUS
<1>2. /\ AreMaps(a) /\ IsFiniteSet(DOMAIN a)
      /\ AreMaps(b) /\ IsFiniteSet(DOMAIN b)
  BY <1>1, TopologyMap
<1>3. m = [k \in DOMAIN a \cup DOMAIN b |->
             IF k \notin DOMAIN b THEN a[k]
             ELSE IF k \notin DOMAIN a THEN b[k] ELSE TopologySpreadConstraint(a[k], b[k])]
  BY <1>1 DEF VolumeMounts, ByKey, VolumeMount, TopologySpreadConstraint
<1>4. o # Empty => TopologySpreadConstraints(x, o) = OrdersOf(Constraints(m))
  BY <1>1, <1>3 DEF TopologySpreadConstraints, ByKey, Constraints, OrdersOf
<1>5. o = Empty => TopologySpreadConstraints(x, o) = {x}
  BY DEF TopologySpreadConstraints
<1>6. AreMaps(m)
  BY <1>1, <1>2, EntriesTyped
<1>7. IsFiniteSet(Constraints(m))
  <2>1. IsFiniteSet(DOMAIN m)
    BY <1>2, <1>3, FS_Union
  <2> DEFINE f == [k \in DOMAIN m |-> [key |-> k, fields |-> m[k]]]
  <2>2. f \in Surjection(DOMAIN m, Constraints(m))
    BY DEF Surjection, Constraints
  <2>3. QED
    BY <2>1, <2>2, FS_Surjection
<1>8. TopologySpreadConstraints(x, o) # {}
  BY <1>4, <1>5, <1>7, Orders
<1>9. QED
  BY <1>4, <1>5, <1>6, <1>7, <1>8

\* Merging the same constraints again may change their order, not the constraints.
LEMMA TopologyTwice ==
  ASSUME NEW x, TopologyTyped(x), NEW o, TopologyTyped(o),
         NEW first \in TopologySpreadConstraints(x, o)
  PROVE  /\ TopologyTyped(first)
         /\ \A again \in TopologySpreadConstraints(first, o) : Range(again) = Range(first)
<1>1. CASE o = Empty
  <2>1. first = x
    BY <1>1 DEF TopologySpreadConstraints
  <2>2. TopologySpreadConstraints(first, o) = {first}
    BY <1>1 DEF TopologySpreadConstraints
  <2>3. QED
    BY <2>1, <2>2
<1>2. CASE o # Empty
  <2>1. PICK a, b, m : /\ a = createTopologySpreadConstraintMap(x)
                       /\ b = createTopologySpreadConstraintMap(o)
                       /\ m = VolumeMounts(a, b)
    OBVIOUS
  <2>2. first \in OrdersOf(Constraints(m)) /\ AreMaps(m) /\ IsFiniteSet(Constraints(m))
    BY SMT, <1>2, <2>1, TopologyMerged
  <2>3. IsSlice(first) /\ Range(first) = Constraints(m)
    BY <2>2, Orders
  <2>4. TopologyTyped(first) /\ createTopologySpreadConstraintMap(first) = m
    BY <2>2, <2>3, MapOfOrder
  <2>5. VolumeMounts(m, b) = m
    BY <2>1, TopologyMap, EntriesAgain
  <2>6. TopologySpreadConstraints(first, o) = OrdersOf(Constraints(m))
    BY SMT, <1>2, <2>1, <2>4, <2>5, TopologyMerged
  <2>7. QED
    BY SMT, <2>2, <2>3, <2>4, <2>6, Orders
<1>3. QED
  BY <1>1, <1>2

\* Without constraints in the override, or with one constraint in all, there is no
\* other order.
LEMMA TopologyFixed ==
  ASSUME NEW x, TopologyTyped(x), NEW o, TopologyTyped(o),
         NEW first \in TopologySpreadConstraints(x, o), o = Empty \/ ~(Len(first) > 1),
         NEW again \in TopologySpreadConstraints(first, o)
  PROVE  again = first
<1>1. CASE o = Empty
  BY <1>1 DEF TopologySpreadConstraints
<1>2. CASE o # Empty
  <2>1. PICK m, n : /\ m = VolumeMounts(createTopologySpreadConstraintMap(x),
                                        createTopologySpreadConstraintMap(o))
                    /\ n = VolumeMounts(createTopologySpreadConstraintMap(first),
                                        createTopologySpreadConstraintMap(o))
    OBVIOUS
  <2>2. TopologyTyped(first) /\ Range(again) = Range(first)
    BY SMT, TopologyTwice
  <2>3. /\ first \in OrdersOf(Constraints(m)) /\ IsFiniteSet(Constraints(m))
        /\ again \in OrdersOf(Constraints(n)) /\ IsFiniteSet(Constraints(n))
    BY SMT, <1>2, <2>1, <2>2, TopologyMerged
  <2>4. Constraints(m) = Range(first) /\ Constraints(n) = Range(first)
    BY <2>2, <2>3, Orders
  <2>5. PICK k \in Nat : k = Cardinality(Range(first))
    BY <2>3, <2>4, FS_CardinalityType
  <2>6. first \in [1 .. k -> Range(first)] /\ again \in [1 .. k -> Range(first)]
    BY <2>3, <2>4, <2>5 DEF OrdersOf, Bijection, Injection
  <2>7. Len(first) = k
    BY SMT, <2>6
  <2>8. \A i \in 1 .. k : i = 1
    BY SMT, <1>2, <2>5, <2>7
  <2>9. \A i \in 1 .. k : again[i] = first[i]
    BY <2>6, <2>8 DEF Range
  <2>10. QED
    BY SMT, <2>6, <2>9
<1>3. QED
  BY <1>1, <1>2

-----------------------------------------------------------------------------
(* The operator's plans *)

Shaped(c) == IsMap(c) /\ DOMAIN c = DOMAIN EmptyContainer

\* b is a but for the parts named.
SameBut(a, b, parts) == Shaped(b) /\ \A f \in DOMAIN EmptyContainer \ parts : b[f] = a[f]

\* Overlaying in two rounds.
LEMMA OverlayRounds ==
  ASSUME NEW x, NEW y, NEW z
  PROVE  /\ StringToStringMap(StringToStringMap(x, y), z)
              = StringToStringMap(x, StringToStringMap(y, z))
         /\ StringToStringMap(x, StringToStringMap(y, Empty)) = StringToStringMap(x, y)
<1>1. DOMAIN Empty = {}
  BY EmptyTyped
<1>2. QED
  BY <1>1 DEF StringToStringMap

\* A container that is overlaid.
LEMMA IsOverlaid ==
  ASSUME NEW c, NEW p, NEW d, Shaped(d),
         d.fields = Fields(c.fields, p.fields),
         d.command = (IF "command" \in DOMAIN p.own THEN p.own.command ELSE c.command),
         d.args = c.args, d.ports = c.ports,
         d.env = StringToStringMap(c.env, p.env),
         d.resources = (IF "resources" \in DOMAIN p.own THEN p.own.resources ELSE c.resources),
         d.mounts = StringToStringMap(c.mounts, p.mounts),
         d.devices = c.devices, d.liveness = c.liveness,
         d.readiness = Fields(c.readiness, p.readiness),
         d.startup = c.startup, d.lifecycle = c.lifecycle,
         d.security = (IF "security" \in DOMAIN p.own THEN p.own.security ELSE c.security)
  PROVE  d = Overlaid(c, p)
<1>1. Shaped(Overlaid(c, p))
  BY SMT DEF Overlaid, Shaped, EmptyContainer, IsMap
<1>2. QED
  BY SMT, <1>1, ContainerIs DEF Overlaid, Shaped

\* A tuple is a slice.
LEMMA SliceLiteral ==
  ASSUME NEW a, NEW b, NEW c
  PROVE  IsSlice(<<a, b>>) /\ IsSlice(<<a, b, c>>)
BY SMT DEF IsSlice, Range

-----------------------------------------------------------------------------
(* A merged template *)

\* The parts of a merged template.
IsMerged(d, o, first) ==
  /\ IsMap(first) /\ DOMAIN first = DOMAIN EmptyTemplate
  /\ first.labels = StringToStringMap(d.labels, o.labels)
  /\ first.annotations = StringToStringMap(d.annotations, o.annotations)
  /\ first.volumes = Volumes(d.volumes, o.volumes)
  /\ first.containers = Containers(d.containers, o.containers)
  /\ first.initContainers = Containers(d.initContainers, o.initContainers)
  /\ first.ephemeral = Containers(d.ephemeral, o.ephemeral)
  /\ first.fields = Fields(d.fields, o.fields)
  /\ first.nodeSelector = StringToStringMap(d.nodeSelector, o.nodeSelector)
  /\ first.affinity = StringToStringMap(d.affinity, o.affinity)
  /\ first.tolerations = StringToStringMap(d.tolerations, o.tolerations)
  /\ first.hostAliases = HostAliases(d.hostAliases, o.hostAliases)
  /\ first.dnsConfig = PodDNSConfig(d.dnsConfig, o.dnsConfig)
  /\ first.topology \in TopologySpreadConstraints(d.topology, o.topology)

\* Every template the merge may return is a merge of its parts.
LEMMA MergedParts ==
  ASSUME NEW d, NEW o, NEW first \in PodTemplateSpecs(d, o)
  PROVE  IsMerged(d, o, first)
<1>1. EphemeralContainers(d.ephemeral, o.ephemeral) = Containers(d.ephemeral, o.ephemeral)
  BY DEF EphemeralContainers, Containers, ByKey, EphemeralContainer
<1>2. /\ Affinity(d.affinity, o.affinity) = StringToStringMap(d.affinity, o.affinity)
      /\ Tolerations(d.tolerations, o.tolerations) = StringToStringMap(d.tolerations, o.tolerations)
  BY DEF Affinity, Tolerations, Fields
<1>3. QED
  BY SMT, <1>1, <1>2 DEF PodTemplateSpecs, IsMerged, EmptyTemplate, IsMap

\* There is a merged template.
LEMMA MergedExists ==
  ASSUME NEW d, NEW o, TopologySpreadConstraints(d.topology, o.topology) # {}
  PROVE  PodTemplateSpecs(d, o) # {}
BY DEF PodTemplateSpecs

-----------------------------------------------------------------------------
(* The set around the template *)

\* The requirements of a selector.
ExpressionsTyped(x) ==
  IsMap(x) /\ \A k \in DOMAIN x : IsMap(x[k]) /\ DOMAIN x[k] = {"fields", "values"} /\ IsMap(x[k].fields)

\* Merging the same match expressions again changes nothing.
LEMMA ExpressionsTwice ==
  ASSUME NEW x, ExpressionsTyped(x), NEW o, ExpressionsTyped(o),
         NEW first, first = LabelSelectorRequirements(x, o)
  PROVE  ExpressionsTyped(first) /\ LabelSelectorRequirements(first, o) = first
<1>1. ASSUME NEW a, NEW b, NEW c, c = LabelSelectorRequirement(a, b)
      PROVE  /\ IsMap(c) /\ DOMAIN c = {"fields", "values"} /\ IsMap(c.fields)
             /\ c.fields = Fields(a.fields, b.fields) /\ c.values = a.values \cup b.values
  <2>1. PICK f, v : f = Fields(a.fields, b.fields) /\ v = a.values \cup b.values
    OBVIOUS
  <2>2. c = [fields |-> f, values |-> v]
    BY <1>1, <2>1 DEF LabelSelectorRequirement
  <2>3. IsMap(f)
    BY <2>1, MapTyped DEF Fields
  <2>4. QED
    BY <2>1, <2>2, <2>3 DEF IsMap
<1>2. ASSUME NEW a, IsMap(a), DOMAIN a = {"fields", "values"},
             NEW b, IsMap(b), DOMAIN b = {"fields", "values"},
             a.fields = b.fields, a.values = b.values
      PROVE  a = b
  BY <1>2, MapEqual
<1>3. ASSUME NEW a, NEW b PROVE LabelSelectorRequirement(LabelSelectorRequirement(a, b), b) = LabelSelectorRequirement(a, b)
  <2>1. PICK c : c = LabelSelectorRequirement(a, b)
    OBVIOUS
  <2>2. PICK d : d = LabelSelectorRequirement(c, b)
    OBVIOUS
  <2>3. /\ IsMap(c) /\ DOMAIN c = {"fields", "values"}
        /\ c.fields = Fields(a.fields, b.fields) /\ c.values = a.values \cup b.values
    BY SMT, <1>1, <2>1
  <2>4. /\ IsMap(d) /\ DOMAIN d = {"fields", "values"}
        /\ d.fields = Fields(c.fields, b.fields) /\ d.values = c.values \cup b.values
    BY SMT, <1>1, <2>2
  <2>5. d.fields = c.fields
    BY <2>3, <2>4 DEF Fields, StringToStringMap
  <2>6. d.values = c.values
    BY <2>3, <2>4
  <2>7. QED
    BY <1>2, <2>1, <2>2, <2>3, <2>4, <2>5, <2>6
<1>4. ASSUME NEW b, IsMap(b), DOMAIN b = {"fields", "values"}, IsMap(b.fields)
      PROVE  LabelSelectorRequirement(b, b) = b
  <2>1. PICK d : d = LabelSelectorRequirement(b, b)
    OBVIOUS
  <2>2. /\ IsMap(d) /\ DOMAIN d = {"fields", "values"}
        /\ d.fields = Fields(b.fields, b.fields) /\ d.values = b.values \cup b.values
    BY <1>1, <2>1
  <2>3. d.fields = b.fields /\ d.values = b.values
    BY <1>4, <2>2, MapAgain DEF Fields
  <2>4. QED
    BY <1>2, <1>4, <2>1, <2>2, <2>3
<1>5. IsMap(first) /\ DOMAIN first = DOMAIN x \cup DOMAIN o
  BY DEF LabelSelectorRequirements, ByKey, IsMap
<1>6. \A k \in DOMAIN first :
        first[k] = IF k \notin DOMAIN o THEN x[k]
                   ELSE IF k \notin DOMAIN x THEN o[k]
                   ELSE LabelSelectorRequirement(x[k], o[k])
  BY DEF LabelSelectorRequirements, ByKey
<1>7. ExpressionsTyped(first)
  BY SMT, <1>1, <1>5, <1>6 DEF ExpressionsTyped
<1>8. PICK again : again = LabelSelectorRequirements(first, o)
  OBVIOUS
<1>9. IsMap(again) /\ DOMAIN again = DOMAIN first
  BY <1>5, <1>8 DEF LabelSelectorRequirements, ByKey, IsMap
<1>10. \A k \in DOMAIN first :
         again[k] = IF k \notin DOMAIN o THEN first[k] ELSE LabelSelectorRequirement(first[k], o[k])
  BY <1>5, <1>8 DEF LabelSelectorRequirements, ByKey
<1>11. \A k \in DOMAIN first : again[k] = first[k]
  BY SMT, <1>3, <1>4, <1>5, <1>6, <1>10 DEF ExpressionsTyped
<1>12. QED
  BY <1>5, <1>7, <1>8, <1>9, <1>11, MapEqual

\* The claims.
ClaimTyped(c) ==
  /\ IsMap(c) /\ DOMAIN c = {"fields", "accessModes"}
  /\ IsMap(c.fields) /\ IsSlice(c.accessModes)

\* Merging one claim with the same override again changes nothing.
LEMMA ClaimAgain ==
  ASSUME NEW a, ClaimTyped(a), NEW b, ClaimTyped(b), NEW c, c = PersistentVolumeClaim(a, b)
  PROVE  /\ ClaimTyped(c) /\ PersistentVolumeClaim(c, b) = c /\ PersistentVolumeClaim(b, b) = b
         /\ c.fields = Fields(a.fields, b.fields)
         /\ c.accessModes = StringSlices(a.accessModes, b.accessModes)
<1>1. ASSUME NEW x, IsSlice(x.accessModes), NEW y, IsSlice(y.accessModes),
             NEW z, z = PersistentVolumeClaim(x, y)
      PROVE  /\ IsMap(z) /\ DOMAIN z = {"fields", "accessModes"} /\ ClaimTyped(z)
             /\ z.fields = Fields(x.fields, y.fields)
             /\ z.accessModes = StringSlices(x.accessModes, y.accessModes)
  <2>1. PICK f, s : f = Fields(x.fields, y.fields) /\ s = StringSlices(x.accessModes, y.accessModes)
    OBVIOUS
  <2>2. z = [fields |-> f, accessModes |-> s]
    BY <1>1, <2>1 DEF PersistentVolumeClaim
  <2>3. IsMap(f)
    BY <2>1, MapTyped DEF Fields
  <2>4. IsSlice(s)
    BY <1>1, <2>1, SlicesWords
  <2>5. QED
    BY <2>1, <2>2, <2>3, <2>4 DEF IsMap, ClaimTyped
<1>2. ASSUME NEW x, ClaimTyped(x), NEW y, ClaimTyped(y),
             x.fields = y.fields, x.accessModes = y.accessModes
      PROVE  x = y
  BY <1>2, MapEqual DEF ClaimTyped
<1>3. IsSlice(a.accessModes) /\ IsSlice(b.accessModes) /\ IsMap(b.fields)
  BY DEF ClaimTyped
<1>4. /\ ClaimTyped(c) /\ c.fields = Fields(a.fields, b.fields)
      /\ c.accessModes = StringSlices(a.accessModes, b.accessModes)
  BY <1>1, <1>3
<1>5. PICK d, e : d = PersistentVolumeClaim(c, b) /\ e = PersistentVolumeClaim(b, b)
  OBVIOUS
<1>6. d = c
  <2>1. /\ ClaimTyped(d) /\ d.fields = Fields(c.fields, b.fields)
        /\ d.accessModes = StringSlices(c.accessModes, b.accessModes)
    BY <1>1, <1>3, <1>4, <1>5 DEF ClaimTyped
  <2>2. d.fields = c.fields
    BY SMT, <1>4, <2>1 DEF Fields, StringToStringMap
  <2>3. d.accessModes = c.accessModes
    BY SMT, <1>3, <1>4, <2>1, SlicesAgain
  <2>4. QED
    BY <1>2, <1>4, <2>1, <2>2, <2>3
<1>7. e = b
  <2>1. /\ ClaimTyped(e) /\ e.fields = Fields(b.fields, b.fields)
        /\ e.accessModes = StringSlices(b.accessModes, b.accessModes)
    BY <1>1, <1>3, <1>5
  <2>2. e.fields = b.fields
    BY <1>3, <2>1, MapAgain DEF Fields
  <2>3. e.accessModes = b.accessModes
    BY <1>3, <2>1, SlicesAgain
  <2>4. QED
    BY <1>2, <2>1, <2>2, <2>3
<1>8. QED
  BY <1>4, <1>5, <1>6, <1>7

-----------------------------------------------------------------------------
(* What a build from nothing has, every build has *)

\* Fields.
LEMMA FieldsWithin ==
  ASSUME NEW a, NEW b, NEW o
  PROVE  /\ IsRestriction(a, a) /\ IsRestriction(Empty, b)
         /\ IsRestriction(o, Fields(b, o)) /\ IsRestriction(Fields(Empty, o), Fields(b, o))
         /\ IsRestriction(a, b) => IsRestriction(Fields(a, o), Fields(b, o))
<1>1. DOMAIN Empty = {}
  BY EmptyTyped
<1>2. QED
  BY <1>1 DEF IsRestriction, Fields, StringToStringMap

\* Entries merged by key.
LEMMA EntriesWithin ==
  ASSUME NEW a, NEW b, NEW o
  PROVE  /\ EntriesIn(Empty, b)
         /\ EntriesIn(StringToStringMap(Empty, o), StringToStringMap(b, o))
         /\ EntriesIn(o, VolumeMounts(b, o))
         /\ EntriesIn(a, b) => EntriesIn(VolumeMounts(a, o), VolumeMounts(b, o))
<1>1. DOMAIN Empty = {}
  BY EmptyTyped
<1>2. EntriesIn(Empty, b)
  BY <1>1 DEF EntriesIn
<1>3. EntriesIn(StringToStringMap(Empty, o), StringToStringMap(b, o))
  BY <1>1, FieldsWithin DEF EntriesIn, StringToStringMap
<1>4. \A x : /\ DOMAIN VolumeMounts(x, o) = DOMAIN x \cup DOMAIN o
             /\ \A k \in DOMAIN x \ DOMAIN o : VolumeMounts(x, o)[k] = x[k]
             /\ \A k \in DOMAIN o \ DOMAIN x : VolumeMounts(x, o)[k] = o[k]
             /\ \A k \in DOMAIN x \cap DOMAIN o : VolumeMounts(x, o)[k] = Fields(x[k], o[k])
  BY DEF VolumeMounts, ByKey, VolumeMount
<1>5. ASSUME NEW k \in DOMAIN o PROVE IsRestriction(o[k], VolumeMounts(b, o)[k])
  <2>1. CASE k \in DOMAIN b
    <3>1. VolumeMounts(b, o)[k] = Fields(b[k], o[k])
      BY <1>4, <2>1
    <3>2. QED
      BY <3>1, FieldsWithin
  <2>2. CASE k \notin DOMAIN b
    <3>1. VolumeMounts(b, o)[k] = o[k]
      BY <1>4, <2>2
    <3>2. QED
      BY <3>1, FieldsWithin
  <2>3. QED
    BY <2>1, <2>2
<1>6. EntriesIn(o, VolumeMounts(b, o))
  BY <1>4, <1>5 DEF EntriesIn
<1>7. ASSUME EntriesIn(a, b) PROVE EntriesIn(VolumeMounts(a, o), VolumeMounts(b, o))
  <2>1. DOMAIN a \subseteq DOMAIN b /\ \A k \in DOMAIN a : IsRestriction(a[k], b[k])
    BY <1>7 DEF EntriesIn
  <2>2. ASSUME NEW k \in DOMAIN a \cup DOMAIN o
        PROVE  IsRestriction(VolumeMounts(a, o)[k], VolumeMounts(b, o)[k])
    <3>1. CASE k \notin DOMAIN a
      <4>1. VolumeMounts(a, o)[k] = o[k]
        BY <1>4, <3>1
      <4>2. QED
        BY <1>5, <3>1, <4>1
    <3>2. CASE k \in DOMAIN a /\ k \notin DOMAIN o
      <4>1. VolumeMounts(a, o)[k] = a[k] /\ VolumeMounts(b, o)[k] = b[k]
        BY <1>4, <2>1, <3>2
      <4>2. QED
        BY <2>1, <3>2, <4>1
    <3>3. CASE k \in DOMAIN a /\ k \in DOMAIN o
      <4>1. VolumeMounts(a, o)[k] = Fields(a[k], o[k]) /\ VolumeMounts(b, o)[k] = Fields(b[k], o[k])
        BY <1>4, <2>1, <3>3
      <4>2. QED
        BY <2>1, <3>3, <4>1, FieldsWithin
    <3>4. QED
      BY <3>1, <3>2, <3>3
  <2>3. DOMAIN VolumeMounts(a, o) = DOMAIN a \cup DOMAIN o /\ DOMAIN VolumeMounts(b, o) = DOMAIN b \cup DOMAIN o
    BY <1>4
  <2>4. QED
    BY <2>1, <2>2, <2>3 DEF EntriesIn
<1>8. QED
  BY <1>2, <1>3, <1>6, <1>7

\* One variable.
LEMMA EnvWithin ==
  ASSUME NEW v, NEW w, NEW o, IsMap(o), DOMAIN o \subseteq {"value", "valueFrom"},
         DOMAIN o # {"value", "valueFrom"}
  PROVE  /\ IsRestriction(o, mergeSingleEnv(w, o))
         /\ IsRestriction(v, w) => IsRestriction(mergeSingleEnv(v, o), mergeSingleEnv(w, o))
<1>1. CASE "valueFrom" \in DOMAIN o
  <2>1. mergeSingleEnv(v, o) = [valueFrom |-> o.valueFrom] /\ mergeSingleEnv(w, o) = [valueFrom |-> o.valueFrom]
    BY <1>1 DEF mergeSingleEnv
  <2>2. DOMAIN o = {"valueFrom"}
    BY <1>1
  <2>3. QED
    BY SMT, <2>1, <2>2 DEF IsRestriction
<1>2. CASE "valueFrom" \notin DOMAIN o /\ "value" \in DOMAIN o
  <2>1. mergeSingleEnv(v, o) = [value |-> o.value] /\ mergeSingleEnv(w, o) = [value |-> o.value]
    BY <1>2 DEF mergeSingleEnv
  <2>2. DOMAIN o = {"value"}
    BY <1>2
  <2>3. QED
    BY SMT, <2>1, <2>2 DEF IsRestriction
<1>3. CASE "valueFrom" \notin DOMAIN o /\ "value" \notin DOMAIN o
  <2>1. mergeSingleEnv(v, o) = v /\ mergeSingleEnv(w, o) = w
    BY <1>3 DEF mergeSingleEnv
  <2>2. DOMAIN o = {}
    BY <1>3
  <2>3. QED
    BY <2>1, <2>2 DEF IsRestriction
<1>4. QED
  BY <1>1, <1>2, <1>3

\* The variables of a container.
LEMMA EnvsWithin ==
  ASSUME NEW a, NEW b, NEW o, EnvTyped(o), OneSource(o)
  PROVE  /\ EntriesIn(o, Envs(b, o))
         /\ EntriesIn(a, b) => EntriesIn(Envs(a, o), Envs(b, o))
<1>1. \A x : /\ DOMAIN Envs(x, o) = DOMAIN x \cup DOMAIN o
             /\ \A k \in DOMAIN x \ DOMAIN o : Envs(x, o)[k] = x[k]
             /\ \A k \in DOMAIN o \ DOMAIN x : Envs(x, o)[k] = o[k]
             /\ \A k \in DOMAIN x \cap DOMAIN o : Envs(x, o)[k] = mergeSingleEnv(x[k], o[k])
  BY DEF Envs, ByKey
<1>2. \A k \in DOMAIN o : /\ IsMap(o[k]) /\ DOMAIN o[k] \subseteq {"value", "valueFrom"}
                          /\ DOMAIN o[k] # {"value", "valueFrom"}
  BY DEF EnvTyped, AreMaps, OneSource
<1>3. ASSUME NEW k \in DOMAIN o PROVE IsRestriction(o[k], Envs(b, o)[k])
  <2>1. CASE k \in DOMAIN b
    <3>1. Envs(b, o)[k] = mergeSingleEnv(b[k], o[k])
      BY <1>1, <2>1
    <3>2. QED
      BY <1>2, <3>1, EnvWithin
  <2>2. CASE k \notin DOMAIN b
    <3>1. Envs(b, o)[k] = o[k]
      BY <1>1, <2>2
    <3>2. QED
      BY <3>1, FieldsWithin
  <2>3. QED
    BY <2>1, <2>2
<1>4. EntriesIn(o, Envs(b, o))
  BY <1>1, <1>3 DEF EntriesIn
<1>5. ASSUME EntriesIn(a, b) PROVE EntriesIn(Envs(a, o), Envs(b, o))
  <2>1. DOMAIN a \subseteq DOMAIN b /\ \A k \in DOMAIN a : IsRestriction(a[k], b[k])
    BY <1>5 DEF EntriesIn
  <2>2. ASSUME NEW k \in DOMAIN a \cup DOMAIN o
        PROVE  IsRestriction(Envs(a, o)[k], Envs(b, o)[k])
    <3>1. CASE k \notin DOMAIN a
      <4>1. Envs(a, o)[k] = o[k]
        BY <1>1, <3>1
      <4>2. QED
        BY <1>3, <3>1, <4>1
    <3>2. CASE k \in DOMAIN a /\ k \notin DOMAIN o
      <4>1. Envs(a, o)[k] = a[k] /\ Envs(b, o)[k] = b[k]
        BY <1>1, <2>1, <3>2
      <4>2. QED
        BY <2>1, <3>2, <4>1
    <3>3. CASE k \in DOMAIN a /\ k \in DOMAIN o
      <4>1. Envs(a, o)[k] = mergeSingleEnv(a[k], o[k]) /\ Envs(b, o)[k] = mergeSingleEnv(b[k], o[k])
        BY <1>1, <2>1, <3>3
      <4>2. QED
        BY <1>2, <2>1, <3>3, <4>1, EnvWithin
    <3>4. QED
      BY <3>1, <3>2, <3>3
  <2>3. DOMAIN Envs(a, o) = DOMAIN a \cup DOMAIN o /\ DOMAIN Envs(b, o) = DOMAIN b \cup DOMAIN o
    BY <1>1
  <2>4. QED
    BY <2>1, <2>2, <2>3 DEF EntriesIn
<1>6. QED
  BY <1>4, <1>5

\* The words of a list.
LEMMA WordsWithin ==
  ASSUME NEW a, IsSlice(a), NEW b, IsSlice(b), NEW o, IsSlice(o)
  PROVE  /\ Range(o) \subseteq Range(StringSlices(b, o))
         /\ Range(a) \subseteq Range(b) => Range(StringSlices(a, o)) \subseteq Range(StringSlices(b, o))
<1>1. /\ Range(StringSlices(a, o)) = Range(a) \cup Range(o)
      /\ Range(StringSlices(b, o)) = Range(b) \cup Range(o)
  BY SlicesWords
<1>2. QED
  BY <1>1

\* c has what f has; the same command when it is the operator's container.
Within(f, c, same) ==
  /\ IF same THEN f.command = c.command ELSE Range(f.command) \subseteq Range(c.command)
  /\ Range(f.args) \subseteq Range(c.args)
  /\ IsRestriction(f.fields, c.fields)
  /\ IsRestriction(f.resources, c.resources)
  /\ IsRestriction(f.readiness, c.readiness)
  /\ IsRestriction(f.security, c.security)
  /\ EntriesIn(f.env, c.env)
  /\ EntriesIn(f.mounts, c.mounts)
  /\ EntriesIn(f.ports, c.ports)

\* The operator's plan for a container.
LEMMA PlanWithin ==
  ASSUME NEW c, ContainerTyped(c), NEW p, "command" \in DOMAIN p.own,
         NEW f, f = Overlaid(EmptyContainer, p), NEW d, d = Overlaid(c, p)
  PROVE  Within(f, d, TRUE)
<1>1. /\ f.command = d.command
      /\ f.args = Empty /\ f.ports = Empty
      /\ f.fields = Fields(Empty, p.fields) /\ d.fields = Fields(c.fields, p.fields)
      /\ f.readiness = Fields(Empty, p.readiness) /\ d.readiness = Fields(c.readiness, p.readiness)
      /\ f.env = StringToStringMap(Empty, p.env) /\ d.env = StringToStringMap(c.env, p.env)
      /\ f.mounts = StringToStringMap(Empty, p.mounts) /\ d.mounts = StringToStringMap(c.mounts, p.mounts)
  BY DEF Overlaid, EmptyContainer
<1>2. /\ f.resources = d.resources \/ f.resources = Empty
      /\ f.security = d.security \/ f.security = Empty
  BY DEF Overlaid, EmptyContainer
<1>3. Range(f.args) \subseteq Range(d.args)
  BY <1>1, EmptyTyped DEF Range
<1>4. /\ IsRestriction(f.fields, d.fields) /\ IsRestriction(f.readiness, d.readiness)
      /\ IsRestriction(f.resources, d.resources) /\ IsRestriction(f.security, d.security)
  BY <1>1, <1>2, FieldsWithin
<1>5. /\ EntriesIn(f.env, d.env) /\ EntriesIn(f.mounts, d.mounts) /\ EntriesIn(f.ports, d.ports)
  BY <1>1, EntriesWithin
<1>6. QED
  BY <1>1, <1>3, <1>4, <1>5 DEF Within

\* The parts of a merged container.
LEMMA MergedContainer ==
  ASSUME NEW x, NEW o, NEW c, c = Container(x, o)
  PROVE  /\ c.command = StringSlices(x.command, o.command)
         /\ c.args = StringSlices(x.args, o.args)
         /\ c.fields = Fields(x.fields, o.fields)
         /\ c.resources = Fields(x.resources, o.resources)
         /\ c.readiness = Fields(x.readiness, o.readiness)
         /\ c.security = Fields(x.security, o.security)
         /\ c.env = Envs(x.env, o.env)
         /\ c.mounts = VolumeMounts(x.mounts, o.mounts)
         /\ c.ports = VolumeMounts(x.ports, o.ports)
<1>1. ContainerPortSlicesByName(x.ports, o.ports) = VolumeMounts(x.ports, o.ports)
  BY SameMerge
<1>2. QED
  BY <1>1 DEF Container, ResourceRequirements, Probe, SecurityContext

\* An override over both.
LEMMA OverrideWithin ==
  ASSUME NEW a, ContainerTyped(a), NEW b, ContainerTyped(b), NEW same \in BOOLEAN,
         NEW o, ContainerTyped(o), OneSource(o.env), Within(a, b, same),
         NEW f, f = Container(a, o), NEW c, c = Container(b, o)
  PROVE  Within(f, c, same)
<1>1. /\ f.command = StringSlices(a.command, o.command) /\ f.args = StringSlices(a.args, o.args)
      /\ f.fields = Fields(a.fields, o.fields) /\ f.resources = Fields(a.resources, o.resources)
      /\ f.readiness = Fields(a.readiness, o.readiness) /\ f.security = Fields(a.security, o.security)
      /\ f.env = Envs(a.env, o.env) /\ f.mounts = VolumeMounts(a.mounts, o.mounts)
      /\ f.ports = VolumeMounts(a.ports, o.ports)
  BY SMT, MergedContainer
<1>2. /\ c.command = StringSlices(b.command, o.command) /\ c.args = StringSlices(b.args, o.args)
      /\ c.fields = Fields(b.fields, o.fields) /\ c.resources = Fields(b.resources, o.resources)
      /\ c.readiness = Fields(b.readiness, o.readiness) /\ c.security = Fields(b.security, o.security)
      /\ c.env = Envs(b.env, o.env) /\ c.mounts = VolumeMounts(b.mounts, o.mounts)
      /\ c.ports = VolumeMounts(b.ports, o.ports)
  BY SMT, MergedContainer
<1>3. /\ IsSlice(a.command) /\ IsSlice(b.command) /\ IsSlice(o.command)
      /\ IsSlice(a.args) /\ IsSlice(b.args) /\ IsSlice(o.args) /\ EnvTyped(o.env)
  BY DEF ContainerTyped
<1>4. IF same THEN f.command = c.command ELSE Range(f.command) \subseteq Range(c.command)
  BY SMT, <1>1, <1>2, <1>3, WordsWithin DEF Within
<1>5. Range(f.args) \subseteq Range(c.args)
  BY SMT, <1>1, <1>2, <1>3, WordsWithin DEF Within
<1>6. /\ IsRestriction(f.fields, c.fields) /\ IsRestriction(f.resources, c.resources)
      /\ IsRestriction(f.readiness, c.readiness) /\ IsRestriction(f.security, c.security)
  BY SMT, <1>1, <1>2, FieldsWithin DEF Within
<1>7. EntriesIn(f.env, c.env)
  BY SMT, <1>1, <1>2, <1>3, EnvsWithin DEF Within
<1>8. EntriesIn(f.mounts, c.mounts) /\ EntriesIn(f.ports, c.ports)
  BY SMT, <1>1, <1>2, EntriesWithin DEF Within
<1>9. QED
  BY <1>4, <1>5, <1>6, <1>7, <1>8 DEF Within

\* A container of the user's.
LEMMA UserWithin ==
  ASSUME NEW b, ContainerTyped(b), NEW o, ContainerTyped(o), OneSource(o.env),
         NEW c, c = Container(b, o)
  PROVE  Within(o, c, FALSE) /\ Within(o, o, FALSE)
<1>1. /\ c.command = StringSlices(b.command, o.command) /\ c.args = StringSlices(b.args, o.args)
      /\ c.fields = Fields(b.fields, o.fields) /\ c.resources = Fields(b.resources, o.resources)
      /\ c.readiness = Fields(b.readiness, o.readiness) /\ c.security = Fields(b.security, o.security)
      /\ c.env = Envs(b.env, o.env) /\ c.mounts = VolumeMounts(b.mounts, o.mounts)
      /\ c.ports = VolumeMounts(b.ports, o.ports)
  BY SMT, MergedContainer
<1>2. /\ IsSlice(b.command) /\ IsSlice(o.command)
      /\ IsSlice(b.args) /\ IsSlice(o.args) /\ EnvTyped(o.env)
  BY DEF ContainerTyped
<1>3. Range(o.command) \subseteq Range(c.command) /\ Range(o.args) \subseteq Range(c.args)
  BY <1>1, <1>2, WordsWithin
<1>4. /\ IsRestriction(o.fields, c.fields) /\ IsRestriction(o.resources, c.resources)
      /\ IsRestriction(o.readiness, c.readiness) /\ IsRestriction(o.security, c.security)
  BY <1>1, FieldsWithin
<1>5. EntriesIn(o.env, c.env)
  BY <1>1, <1>2, EnvsWithin
<1>6. EntriesIn(o.mounts, c.mounts) /\ EntriesIn(o.ports, c.ports)
  BY <1>1, EntriesWithin
<1>7. \A x : EntriesIn(x, x) /\ IsRestriction(x, x)
  BY DEF EntriesIn, IsRestriction
<1>8. QED
  BY <1>3, <1>4, <1>5, <1>6, <1>7 DEF Within

\* The topology spread constraints.
LEMMA TopologyWithin ==
  ASSUME NEW x, TopologyTyped(x), NEW o, TopologyTyped(o),
         NEW fresh \in TopologySpreadConstraints(Empty, o),
         NEW all \in TopologySpreadConstraints(x, o)
  PROVE  \A f \in Range(fresh) : \E c \in Range(all) :
            c.key = f.key /\ IsRestriction(f.fields, c.fields)
<1>0. TopologyTyped(Empty) /\ Range(Empty) = {}
  BY EmptyTyped DEF TopologyTyped, Range
<1>1. CASE o = Empty
  <2>1. fresh = Empty
    BY SMT, <1>0, <1>1, TopologyMerged
  <2>2. QED
    BY <1>0, <2>1
<1>2. CASE o # Empty
  <2>1. PICK e, y, u : /\ e = createTopologySpreadConstraintMap(Empty)
                       /\ y = createTopologySpreadConstraintMap(x)
                       /\ u = createTopologySpreadConstraintMap(o)
    OBVIOUS
  <2>2. PICK m, n : m = VolumeMounts(e, u) /\ n = VolumeMounts(y, u)
    OBVIOUS
  <2>3. /\ fresh \in OrdersOf(Constraints(m)) /\ IsFiniteSet(Constraints(m))
        /\ all \in OrdersOf(Constraints(n)) /\ IsFiniteSet(Constraints(n))
    BY SMT, <1>0, <1>2, <2>1, <2>2, TopologyMerged
  <2>4. Range(fresh) = Constraints(m) /\ Range(all) = Constraints(n)
    BY <2>3, Orders
  <2>5. DOMAIN e = {}
    BY <1>0, <2>1, TopologyMap
  <2>6. /\ DOMAIN m = DOMAIN u /\ \A k \in DOMAIN u : m[k] = u[k]
        /\ DOMAIN u \subseteq DOMAIN n
    BY <2>2, <2>5 DEF VolumeMounts, ByKey
  <2>7. \A k \in DOMAIN u : IsRestriction(u[k], n[k])
    BY <2>2, EntriesWithin DEF EntriesIn
  <2>8. ASSUME NEW f \in Constraints(m)
        PROVE  \E c \in Constraints(n) : c.key = f.key /\ IsRestriction(f.fields, c.fields)
    <3>1. PICK k \in DOMAIN m : f = [key |-> k, fields |-> m[k]]
      BY DEF Constraints
    <3>2. PICK c : c = [key |-> k, fields |-> n[k]]
      OBVIOUS
    <3>3. c \in Constraints(n)
      BY <2>6, <3>1, <3>2 DEF Constraints
    <3>4. f.key = k /\ c.key = k /\ f.fields = u[k] /\ c.fields = n[k]
      BY <2>6, <3>1, <3>2
    <3>5. QED
      BY <2>6, <2>7, <3>1, <3>3, <3>4
  <2>9. QED
    BY <2>4, <2>8
<1>3. QED
  BY <1>1, <1>2

\* The empty spec is well-formed.
LEMMA EmptySpecTyped == SpecTyped(EmptySpec)
<1>1. DOMAIN Empty = {} /\ IsMap(Empty) /\ AreMaps(Empty) /\ IsSlice(Empty) /\ Range(Empty) = {}
  BY EmptyTyped DEF Range
<1>2. DNSTyped(NoDNSConfig)
  BY <1>1 DEF DNSTyped, NoDNSConfig, IsMap
<1>3. TopologyTyped(Empty) /\ VolumesTyped(Empty) /\ ContainersTyped(Empty) /\ ClaimsTyped(Empty)
  BY <1>1 DEF TopologyTyped, VolumesTyped, ContainersTyped, ClaimsTyped
<1>4. SelectorTyped(NoSelector)
  BY <1>1 DEF SelectorTyped, NoSelector, IsMap
<1>5. TemplateTyped(EmptyTemplate)
  BY <1>1, <1>2, <1>3 DEF TemplateTyped, EmptyTemplate, IsMap
<1>6. PICK t : t = EmptyTemplate
  OBVIOUS
<1>7. QED
  BY <1>1, <1>3, <1>4, <1>5 DEF SpecTyped, EmptySpec, IsMap
=============================================================================
